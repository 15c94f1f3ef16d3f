------------------------- MODULE OrderManagerProofs -------------------------
(***************************************************************************)
(* The order manager for any tasks, requests, quantities and fills.        *)
(***************************************************************************)
EXTENDS OrderManager, Sums, TLAPS

\* A task names what its place needs: a request to submit, an order to send or,
\* with its broker id, to cancel, and no more fills than the broker made.
SoundAt(x, ord, n) ==
  /\ x.pc \in {"risk", "sending", "sent"} => x.req \in Requests
  /\ x.pc \in {"sending", "sent"} =>
       /\ x.order \in OrderIds
       /\ ord[x.order] \in Orders
       /\ ord[x.order].req = x.req
  /\ x.pc \in {"cancel", "answered"} =>
       x.order \in OrderIds /\ ord[x.order] \in Orders /\ ord[x.order].linked
  /\ x.upto <= n

TasksSound == \A t \in Tasks : SoundAt(task[t], order, Len(fills))

\* What the broker has, the manager has, and never filled beyond its quantity.
OrdersSound ==
  /\ \A o \in OrderIds : broker[o].state # "none" => order[o] \in Orders
  /\ \A i \in 1..Len(fills) : order[fills[i].order] \in Orders
  /\ \A o \in OrderIds :
       order[o] \in Orders => order[o].filled <= Quantity[order[o].req]

ManagerInv == TypeOK /\ TasksSound /\ OrdersSound

\* A record of the manager is an order or the absence of one, not both.
LEMMA NoOrderIsNone == NoOrder \notin Orders /\ NoOrder.linked = FALSE
  BY DEF NoOrder, Orders, Status

\* The idle state of a task is a state of a task.
LEMMA IdleType == Idle \in TaskStates
  BY DEF Idle, TaskStates, Places

LEMMA InitManagerInv == Init => ManagerInv
<1> SUFFICES ASSUME Init PROVE ManagerInv
  OBVIOUS
<1>1. TypeOK
  BY IdleType, NoneAssumption DEF Init, TypeOK
<1>2. TasksSound /\ OrdersSound
  BY NoOrderIsNone DEF Init, TasksSound, SoundAt, OrdersSound, Idle
<1> QED BY <1>1, <1>2 DEF ManagerInv

\* An element of a sequence is one of its elements' set.
LEMMA SeqElement ==
  ASSUME NEW S, NEW s \in Seq(S), NEW i \in 1..Len(s)
  PROVE  s[i] \in S
  OBVIOUS

\* What a counted fill makes of an order.
LEMMA FilledByType ==
  ASSUME NEW rec \in Orders, NEW f \in [order : OrderIds, qty : FillSizes]
  PROVE  /\ FilledBy(rec, f) \in Orders
         /\ FilledBy(rec, f).filled = rec.filled + f.qty
         /\ FilledBy(rec, f).req = rec.req
         /\ FilledBy(rec, f).linked = rec.linked
<1>1. f.qty \in FillSizes
  OBVIOUS
<1>2. f.qty \in Nat
  BY <1>1, FillsAssumption
<1>3. rec.filled \in Nat
  BY DEF Orders
<1>4. rec.filled + f.qty \in Nat
  BY <1>2, <1>3
<1> DEFINE st == IF rec.filled + f.qty >= Quantity[rec.req]
                   THEN "filled" ELSE "partially_filled"
<1>5. st \in Status
  BY DEF Status
<1>6. FilledBy(rec, f) = [rec EXCEPT !.filled = rec.filled + f.qty, !.status = st]
  BY DEF FilledBy
<1> HIDE DEF st
<1> QED BY <1>4, <1>5, <1>6 DEF Orders

\* Taking a fill keeps the orders sound and their requests.
LEMMA TakeFillSound ==
  ASSUME TypeOK, OrdersSound, NEW i \in 1..Len(fills), TakeFill(i)
  PROVE  /\ order' \in [OrderIds -> Orders \cup {NoOrder}]
         /\ \A o \in OrderIds :
              order[o] \in Orders =>
                /\ order'[o] \in Orders /\ order'[o].req = order[o].req
                /\ order[o].linked => order'[o].linked
         /\ \A o \in OrderIds :
              order'[o] \in Orders => order'[o].filled <= Quantity[order'[o].req]
         /\ seenFill' \subseteq Nat /\ position' \in Int
<1> DEFINE f == fills[i]
           rec == order[f.order]
<1>1. f \in [order : OrderIds, qty : FillSizes] /\ f.order \in OrderIds /\ f.qty \in Nat
  <2>1. fills \in Seq([order : OrderIds, qty : FillSizes])
    BY DEF TypeOK
  <2>2. f \in [order : OrderIds, qty : FillSizes]
    BY <2>1, SeqElement
  <2>3. f.order \in OrderIds /\ f.qty \in FillSizes
    BY <2>2
  <2> QED BY <2>2, <2>3, FillsAssumption
<1>2. rec \in Orders
  BY DEF OrdersSound
<1>3. seenFill' \subseteq Nat
  BY DEF TakeFill, TypeOK
<1>4. CASE Overfills(rec, f) /\ UNCHANGED <<order, position>>
  BY <1>3, <1>4 DEF TypeOK, OrdersSound
<1>5. CASE /\ ~Overfills(rec, f)
           /\ order' = [order EXCEPT ![f.order] = FilledBy(rec, f)]
           /\ position' = position + Moved(rec, f)
  <2>1. /\ FilledBy(rec, f) \in Orders
        /\ FilledBy(rec, f).filled = rec.filled + f.qty
        /\ FilledBy(rec, f).req = rec.req /\ FilledBy(rec, f).linked = rec.linked
    BY <1>1, <1>2, FilledByType
  <2>2. rec.filled + f.qty <= Quantity[rec.req]
    BY <1>1, <1>2, <1>5, QuantityAssumption DEF Overfills, Orders
  <2>3. position' \in Int
    BY <1>1, <1>5 DEF Moved, TypeOK
  <2>4. /\ order'[f.order] = FilledBy(rec, f)
        /\ \A o \in OrderIds : o # f.order => order'[o] = order[o]
        /\ order' \in [OrderIds -> Orders \cup {NoOrder}]
    BY <1>1, <1>5, <2>1 DEF TypeOK
  <2> QED BY <1>1, <1>2, <1>3, <2>1, <2>2, <2>3, <2>4 DEF OrdersSound
<1> QED BY <1>4, <1>5 DEF TakeFill

\* The iteration of kill_all leaves its task well formed.
LEMMA IterateSound ==
  ASSUME TypeOK, NEW t \in Tasks, NEW i \in Nat, NEW aim \in SUBSET OrderIds,
         NEW ord \in [OrderIds -> Orders \cup {NoOrder}], Iterate(t, ord, i, aim)
  PROVE  \E x \in TaskStates :
           /\ task' = [task EXCEPT ![t] = x]
           /\ x.upto = 0
           /\ x = Idle \/ (x.pc = "cancel" /\ x.order \in OrderIds /\ x.req = None
                           /\ ord[x.order] \in Orders /\ ord[x.order].linked)
           /\ closed' \subseteq OrderIds
<1>1. CASE Done(t) /\ closed' = closed \cup aim
  BY <1>1, IdleType DEF Done, TypeOK, Idle
<1>2. ASSUME NEW j \in ToCancel(ord, i), UNCHANGED closed,
             task' = [task EXCEPT ![t] =
               [Idle EXCEPT !.pc = "cancel", !.kill = TRUE, !.order = book[j],
                            !.at = j, !.size = Len(book), !.aim = aim]]
      PROVE \E x \in TaskStates :
           /\ task' = [task EXCEPT ![t] = x]
           /\ x.upto = 0
           /\ x = Idle \/ (x.pc = "cancel" /\ x.order \in OrderIds /\ x.req = None
                           /\ ord[x.order] \in Orders /\ ord[x.order].linked)
           /\ closed' \subseteq OrderIds
  <2> DEFINE x == [Idle EXCEPT !.pc = "cancel", !.kill = TRUE, !.order = book[j],
                               !.at = j, !.size = Len(book), !.aim = aim]
  <2>1. /\ j \in 1..Len(book) /\ j \in Nat /\ Len(book) \in Nat /\ book[j] \in OrderIds
        /\ ord[book[j]].linked
    BY DEF ToCancel, TypeOK
  <2>2. ord[book[j]] \in Orders
    BY <2>1, NoOrderIsNone
  <2>3. x \in TaskStates
    BY <2>1 DEF Idle, TaskStates, Places
  <2>4. x.pc = "cancel" /\ x.order = book[j] /\ x.req = None /\ x.upto = 0
    BY DEF Idle
  <2> HIDE DEF x
  <2> QED BY <1>2, <2>1, <2>2, <2>3, <2>4 DEF TypeOK, x
<1> QED BY <1>1, <1>2 DEF Iterate

\* The orders after a cancellation are the same, but for a status.
LEMMA AfterCancelSound ==
  ASSUME ManagerInv, NEW t \in Tasks, task[t].pc = "answered"
  PROVE  /\ AfterCancel(t) \in [OrderIds -> Orders \cup {NoOrder}]
         /\ \A o \in OrderIds :
              /\ AfterCancel(t)[o] \in Orders <=> order[o] \in Orders
              /\ AfterCancel(t)[o].req = order[o].req
              /\ AfterCancel(t)[o].filled = order[o].filled
              /\ AfterCancel(t)[o].linked = order[o].linked
<1>1. task[t].order \in OrderIds /\ order[task[t].order] \in Orders
  BY DEF ManagerInv, TasksSound, SoundAt
<1>2. [order[task[t].order] EXCEPT !.status = "cancelled"] \in Orders
  BY <1>1 DEF Orders, Status
<1>3. CASE task[t].reply
  BY <1>1, <1>2, <1>3 DEF AfterCancel, ManagerInv, TypeOK, Orders
<1>4. CASE ~task[t].reply
  BY <1>4 DEF AfterCancel, ManagerInv, TypeOK
<1> QED BY <1>3, <1>4

\* A step that keeps every order an order of its request, and within it.
OrdersKept ==
  /\ order' \in [OrderIds -> Orders \cup {NoOrder}]
  /\ \A o \in OrderIds :
       order[o] \in Orders =>
         /\ order'[o] \in Orders /\ order'[o].req = order[o].req
         /\ order[o].linked => order'[o].linked
  /\ \A o \in OrderIds :
       order'[o] \in Orders => order'[o].filled <= Quantity[order'[o].req]

\* Such a step of one task leaves the others sound.
LEMMA OthersStaySound ==
  ASSUME ManagerInv, OrdersKept, Len(fills) \in Nat, Len(fills') \in Nat,
         Len(fills) <= Len(fills'),
         NEW t \in Tasks, NEW x \in TaskStates, SoundAt(x, order', Len(fills')),
         task' = [task EXCEPT ![t] = x]
  PROVE  task' \in [Tasks -> TaskStates] /\ TasksSound'
<1>1. task' \in [Tasks -> TaskStates]
  BY DEF ManagerInv, TypeOK
<1>2. ASSUME NEW u \in Tasks PROVE SoundAt(task'[u], order', Len(fills'))
  <2>1. CASE u = t
    BY <2>1 DEF ManagerInv, TypeOK
  <2>2. CASE u # t
    <3>1. task'[u] = task[u] /\ task[u] \in TaskStates
      BY <2>2 DEF ManagerInv, TypeOK
    <3>2. SoundAt(task[u], order, Len(fills))
      BY DEF ManagerInv, TasksSound
    <3>3. task[u].upto \in Nat
      BY <3>1 DEF TaskStates
    <3> QED BY <3>1, <3>2, <3>3 DEF SoundAt, OrdersKept
  <2> QED BY <2>1, <2>2
<1> QED BY <1>1, <1>2 DEF TasksSound

\* A step that changes no order keeps the orders.
LEMMA SameOrdersKept == ManagerInv /\ UNCHANGED order => OrdersKept
  BY DEF ManagerInv, TypeOK, OrdersSound, OrdersKept

\* A step of one task that leaves the rest of the state alone.
LEMMA TaskStepSound ==
  ASSUME ManagerInv, NEW t \in Tasks, NEW x \in TaskStates,
         SoundAt(x, order, Len(fills)), task' = [task EXCEPT ![t] = x],
         UNCHANGED <<managerVars, brokerVars>>,
         running' \in Tasks \cup {None}, closed' \subseteq OrderIds,
         doubtful' \subseteq OrderIds
  PROVE  ManagerInv'
<1>1. UNCHANGED <<order, book, seenRequest, seenFill, position, broker, fills>>
  BY DEF managerVars, brokerVars
<1>2. Len(fills) \in Nat /\ Len(fills) <= Len(fills') /\ Len(fills') \in Nat
  BY <1>1 DEF ManagerInv, TypeOK
<1>3. OrdersKept /\ SoundAt(x, order', Len(fills'))
  BY <1>1, SameOrdersKept DEF SoundAt
<1>4. task' \in [Tasks -> TaskStates] /\ TasksSound'
  BY <1>2, <1>3, OthersStaySound
<1>5. OrdersSound'
  BY <1>1 DEF ManagerInv, OrdersSound
<1> QED BY <1>1, <1>4, <1>5 DEF ManagerInv, TypeOK

\* Every fill names an order.
LEMMA FillTypes ==
  ASSUME TypeOK
  PROVE  \A i \in 1..Len(fills) : fills[i].order \in OrderIds /\ fills[i].qty \in Nat
<1> SUFFICES ASSUME NEW i \in 1..Len(fills)
             PROVE fills[i].order \in OrderIds /\ fills[i].qty \in Nat
  OBVIOUS
<1>1. fills[i] \in [order : OrderIds, qty : FillSizes]
  <2>1. fills \in Seq([order : OrderIds, qty : FillSizes])
    BY DEF TypeOK
  <2> QED BY <2>1, SeqElement
<1> QED BY <1>1, FillsAssumption

\* The steps of submit.
LEMMA SubmitStepsSound ==
  ASSUME ManagerInv, NEW t \in Tasks,
         \/ \E r \in Requests : Submit(t, r)
         \/ RiskRefuses(t)
         \/ \E o \in OrderIds : RiskAccepts(t, o)
         \/ Submitted(t)
         \/ SubmitRaises(t)
         \/ BrokerAccepts(t)
  PROVE  ManagerInv'
<1> USE DEF At
<1>0. /\ task[t] \in TaskStates /\ SoundAt(task[t], order, Len(fills))
      /\ Len(fills) \in Nat
  BY DEF ManagerInv, TasksSound, TypeOK
<1>1. ASSUME NEW r \in Requests, Submit(t, r) PROVE ManagerInv'
  <2> DEFINE x == [Idle EXCEPT !.pc = "risk", !.req = r]
  <2>1. x \in TaskStates /\ x.pc = "risk" /\ x.req = r /\ x.upto = 0
    BY DEF Idle, TaskStates, Places
  <2>2. task' = [task EXCEPT ![t] = x]
    BY <1>1 DEF Submit
  <2> HIDE DEF x
  <2>3. SoundAt(x, order, Len(fills))
    BY <1>0, <2>1 DEF SoundAt
  <2> QED BY <1>1, <2>1, <2>2, <2>3, TaskStepSound DEF Submit, histories, ManagerInv, TypeOK
<1>2. ASSUME RiskRefuses(t) PROVE ManagerInv'
  <2>1. SoundAt(Idle, order, Len(fills))
    BY <1>0 DEF Idle, SoundAt
  <2> QED BY <1>2, <2>1, IdleType, TaskStepSound DEF RiskRefuses, Done, histories, ManagerInv, TypeOK
<1>3. ASSUME NEW o \in OrderIds, RiskAccepts(t, o) PROVE ManagerInv'
  <2> DEFINE new == [req |-> task[t].req, status |-> "submitted", filled |-> 0,
                     linked |-> FALSE]
             x == [task[t] EXCEPT !.pc = "sending", !.order = o]
  <2>1. task[t].req \in Requests
    BY <1>0, <1>3 DEF RiskAccepts, SoundAt
  <2>2. new \in Orders /\ new.req = task[t].req /\ new.filled = 0
    BY <2>1 DEF Orders, Status
  <2>3. x \in TaskStates /\ x.pc = "sending" /\ x.order = o /\ x.req = task[t].req
        /\ x.upto = task[t].upto
    BY <1>0 DEF TaskStates, Places
  <2>4. /\ order' = [order EXCEPT ![o] = new]
        /\ order[o] = NoOrder
        /\ task' = [task EXCEPT ![t] = x]
        /\ book' = Append(book, o)
        /\ UNCHANGED <<seenRequest, seenFill, position, running, broker, fills, closed, doubtful>>
    BY <1>0, <1>3 DEF RiskAccepts, brokerVars, histories, ManagerInv, TypeOK
  <2> HIDE DEF new, x
  <2>5. order'[o] = new /\ \A q \in OrderIds : q # o => order'[q] = order[q]
    BY <2>4 DEF ManagerInv, TypeOK
  <2>6. OrdersKept
    BY <2>1, <2>2, <2>4, <2>5, NoOrderIsNone, QuantityAssumption
    DEF OrdersKept, ManagerInv, TypeOK, OrdersSound
  <2>7. SoundAt(x, order', Len(fills')) /\ Len(fills) <= Len(fills') /\ Len(fills') \in Nat
    BY <1>0, <2>1, <2>2, <2>3, <2>4, <2>5 DEF SoundAt
  <2>8. task' \in [Tasks -> TaskStates] /\ TasksSound'
    BY <1>0, <2>3, <2>4, <2>6, <2>7, OthersStaySound
  <2>9. OrdersSound'
    <3>1. \A i \in 1..Len(fills) : fills[i].order \in OrderIds
      BY FillTypes DEF ManagerInv
    <3> QED BY <2>4, <2>6, <3>1 DEF OrdersKept, OrdersSound, ManagerInv
  <2> QED BY <2>4, <2>6, <2>8, <2>9 DEF ManagerInv, TypeOK, OrdersKept
<1>4. ASSUME NEW rec \in Orders, NEW o \in OrderIds,
             order[o] \in Orders, rec.req = order[o].req, rec.filled = order[o].filled,
             order[o].linked => rec.linked, order' = [order EXCEPT ![o] = rec],
             task' = [task EXCEPT ![t] = Idle],
             seenRequest' \in [Requests -> OrderIds \cup {None}],
             UNCHANGED <<book, seenFill, position, running, broker, fills, closed, doubtful>>
      PROVE ManagerInv'
  <2>1. order'[o] = rec /\ \A q \in OrderIds : q # o => order'[q] = order[q]
    BY <1>4 DEF ManagerInv, TypeOK
  <2>2. OrdersKept
    BY <1>4, <2>1 DEF OrdersKept, ManagerInv, TypeOK, OrdersSound
  <2>3. SoundAt(Idle, order', Len(fills')) /\ Len(fills) <= Len(fills') /\ Len(fills') \in Nat
    BY <1>0, <1>4 DEF Idle, SoundAt
  <2>4. task' \in [Tasks -> TaskStates] /\ TasksSound'
    BY <1>0, <1>4, <2>2, <2>3, IdleType, OthersStaySound
  <2>5. \A i \in 1..Len(fills) : fills[i].order \in OrderIds
    BY FillTypes DEF ManagerInv
  <2>6. OrdersSound'
    BY <1>4, <2>2, <2>5 DEF OrdersKept, OrdersSound, ManagerInv
  <2> QED BY <1>4, <2>2, <2>4, <2>6 DEF ManagerInv, TypeOK, OrdersKept
<1>5. ASSUME Submitted(t) PROVE ManagerInv'
  <2> DEFINE o == task[t].order
             rec == [order[o] EXCEPT !.linked = TRUE]
  <2>1. o \in OrderIds /\ order[o] \in Orders /\ task[t].req \in Requests
    BY <1>0, <1>5 DEF Submitted, SoundAt
  <2>2. rec \in Orders /\ rec.req = order[o].req /\ rec.filled = order[o].filled
        /\ rec.linked
    BY <2>1 DEF Orders
  <2>3. order' = [order EXCEPT ![o] = rec] /\ task' = [task EXCEPT ![t] = Idle]
    BY <1>5 DEF Submitted, Done
  <2>4. seenRequest' \in [Requests -> OrderIds \cup {None}]
    BY <1>5, <2>1 DEF Submitted, Remembered, ManagerInv, TypeOK
  <2> HIDE DEF o, rec
  <2> QED BY <1>4, <1>5, <2>1, <2>2, <2>3, <2>4 DEF Submitted, brokerVars, histories
<1>6. ASSUME SubmitRaises(t) PROVE ManagerInv'
  <2> DEFINE o == task[t].order
             rec == [order[o] EXCEPT !.status = "rejected"]
  <2>1. o \in OrderIds /\ order[o] \in Orders
    BY <1>0, <1>6 DEF SubmitRaises, SoundAt
  <2>2. rec \in Orders /\ rec.req = order[o].req /\ rec.filled = order[o].filled
        /\ rec.linked = order[o].linked
    BY <2>1 DEF Orders, Status
  <2>3. order' = [order EXCEPT ![o] = rec] /\ task' = [task EXCEPT ![t] = Idle]
    BY <1>6 DEF SubmitRaises, Done
  <2> HIDE DEF o, rec
  <2> QED BY <1>4, <1>6, <2>1, <2>2, <2>3 DEF SubmitRaises, brokerVars, histories, ManagerInv, TypeOK
<1>7. ASSUME BrokerAccepts(t) PROVE ManagerInv'
  <2> DEFINE o == task[t].order
             x == [task[t] EXCEPT !.pc = "sent"]
  <2>1. /\ o \in OrderIds /\ order[o] \in Orders /\ order[o].req = task[t].req
        /\ task[t].req \in Requests
    BY <1>0, <1>7 DEF BrokerAccepts, SoundAt
  <2>2. x \in TaskStates /\ SoundAt(x, order, Len(fills))
    BY <1>0, <2>1 DEF TaskStates, Places, SoundAt
  <2>3. /\ task' = [task EXCEPT ![t] = x]
        /\ UNCHANGED <<order, book, seenRequest, seenFill, position, running, fills, closed, doubtful>>
    BY <1>7 DEF BrokerAccepts, Goto, managerVars, histories
  <2>4. broker' = [broker EXCEPT ![o] = [broker[o] EXCEPT !.state = "working"]]
    BY <1>7 DEF BrokerAccepts
  <2> HIDE DEF o, x
  <2>5. OrdersKept
    BY <2>3, SameOrdersKept
  <2>6. task' \in [Tasks -> TaskStates] /\ TasksSound'
    <3>1. SoundAt(x, order', Len(fills')) /\ Len(fills) <= Len(fills') /\ Len(fills') \in Nat
      BY <1>0, <2>2, <2>3
    <3> QED BY <1>0, <2>2, <2>3, <2>5, <3>1, OthersStaySound
  <2>7. /\ broker' \in [OrderIds -> [state : {"none", "working", "done", "cancelled"},
                                     filled : Nat]]
        /\ \A q \in OrderIds : q # o => broker'[q] = broker[q]
    BY <2>1, <2>4 DEF ManagerInv, TypeOK
  <2>8. OrdersSound'
    BY <2>1, <2>3, <2>7 DEF ManagerInv, OrdersSound
  <2> QED BY <2>3, <2>6, <2>7, <2>8 DEF ManagerInv, TypeOK
<1> QED BY <1>1, <1>2, <1>3, <1>5, <1>6, <1>7

\* The steps of reconcile and the broker's fills.
LEMMA FillStepsSound ==
  ASSUME ManagerInv,
         \/ \E i \in 1..MaxFills : OnFill(i)
         \/ \E o \in OrderIds : CancelLands(o)
         \/ \E o \in OrderIds, q \in FillSizes : BrokerFills(o, q)
         \/ \E t \in Tasks : \/ \E kill \in BOOLEAN : Reconcile(t, kill)
                             \/ GetFills(t)
                             \/ ApplyFill(t)
                             \/ ReconcileEnds(t)
  PROVE  ManagerInv'
<1> USE DEF At
<1>0. /\ \A t \in Tasks : task[t] \in TaskStates /\ SoundAt(task[t], order, Len(fills))
      /\ Len(fills) \in Nat
  BY DEF ManagerInv, TasksSound, TypeOK
<1>1. ASSUME NEW i \in 1..Len(fills), TakeFill(i), UNCHANGED <<broker, fills, closed, doubtful>>
      PROVE  /\ OrdersKept /\ OrdersSound'
             /\ seenFill' \subseteq Nat /\ position' \in Int
             /\ UNCHANGED <<book, seenRequest>>
  <2>1. OrdersKept /\ seenFill' \subseteq Nat /\ position' \in Int
    BY <1>1, TakeFillSound DEF ManagerInv, OrdersKept
  <2>2. OrdersSound'
    BY <1>1, <2>1, FillTypes DEF OrdersKept, OrdersSound, ManagerInv
  <2> QED BY <1>1, <2>1, <2>2 DEF TakeFill
<1>2. ASSUME NEW i \in 1..MaxFills, OnFill(i) PROVE ManagerInv'
  <2>1. /\ i \in 1..Len(fills) /\ TakeFill(i)
        /\ UNCHANGED <<task, running, broker, fills, closed, doubtful>>
    BY <1>2 DEF OnFill, brokerVars, histories
  <2>2. /\ OrdersKept /\ OrdersSound' /\ seenFill' \subseteq Nat /\ position' \in Int
        /\ UNCHANGED <<book, seenRequest>>
    BY <1>1, <2>1
  <2>3. TasksSound'
    BY <2>1, <2>2 DEF OrdersKept, TasksSound, SoundAt, ManagerInv
  <2> QED BY <2>1, <2>2, <2>3 DEF ManagerInv, TypeOK, OrdersKept
<1>3. ASSUME NEW o \in OrderIds, NEW q \in FillSizes, BrokerFills(o, q) PROVE ManagerInv'
  <2> DEFINE f == [order |-> o, qty |-> q]
  <2>1. order[o] \in Orders /\ broker[o].filled \in Nat /\ q \in Nat
    BY <1>3, FillsAssumption DEF BrokerFills, ManagerInv, OrdersSound, TypeOK
  <2>2. /\ fills' = Append(fills, f)
        /\ UNCHANGED <<order, book, seenRequest, seenFill, position, task, running, closed>>
        /\ doubtful' \subseteq OrderIds
    BY <1>3 DEF BrokerFills, managerVars, ManagerInv, TypeOK
  <2>3. /\ broker' \in [OrderIds -> [state : {"none", "working", "done", "cancelled"},
                                     filled : Nat]]
        /\ \A p \in OrderIds : p # o => broker'[p] = broker[p]
    BY <1>3, <2>1 DEF BrokerFills, ManagerInv, TypeOK
  <2>4. f \in [order : OrderIds, qty : FillSizes] /\ f.order = o
    OBVIOUS
  <2> HIDE DEF f
  <2>5. /\ fills' \in Seq([order : OrderIds, qty : FillSizes])
        /\ Len(fills') = Len(fills) + 1
        /\ \A i \in 1..Len(fills) : fills'[i] = fills[i]
        /\ fills'[Len(fills) + 1] = f
    BY <2>2, <2>4 DEF ManagerInv, TypeOK
  <2>6. TasksSound'
    <3> SUFFICES ASSUME NEW t \in Tasks PROVE SoundAt(task'[t], order', Len(fills'))
      BY DEF TasksSound
    <3>1. task[t].upto \in Nat
      BY <1>0 DEF TaskStates
    <3> QED BY <1>0, <2>2, <2>5, <3>1 DEF SoundAt
  <2>7. OrdersSound'
    <3>1. \A i \in 1..Len(fills') : order'[fills'[i].order] \in Orders
      BY <1>0, <2>1, <2>2, <2>4, <2>5 DEF ManagerInv, OrdersSound
    <3> QED BY <2>1, <2>2, <2>3, <3>1 DEF ManagerInv, OrdersSound
  <2> QED BY <2>2, <2>3, <2>5, <2>6, <2>7 DEF ManagerInv, TypeOK
<1>4. ASSUME NEW t \in Tasks, NEW kill \in BOOLEAN, Reconcile(t, kill) PROVE ManagerInv'
  <2> DEFINE x == [Idle EXCEPT !.pc = "asking", !.kill = kill]
  <2>1. x \in TaskStates /\ x.pc = "asking" /\ x.upto = 0
    BY DEF Idle, TaskStates, Places
  <2>2. task' = [task EXCEPT ![t] = x]
    BY <1>4 DEF Reconcile
  <2> HIDE DEF x
  <2>3. SoundAt(x, order, Len(fills))
    BY <1>0, <2>1 DEF SoundAt
  <2> QED BY <1>4, <2>1, <2>2, <2>3, TaskStepSound DEF Reconcile, histories, ManagerInv, TypeOK
<1>5. ASSUME NEW t \in Tasks, GetFills(t) PROVE ManagerInv'
  <2> DEFINE x == [task[t] EXCEPT !.pc = "apply", !.upto = Len(fills)]
  <2>1. x \in TaskStates /\ x.pc = "apply" /\ x.upto = Len(fills)
    BY <1>0 DEF TaskStates, Places
  <2>2. task' = [task EXCEPT ![t] = x]
    BY <1>0, <1>5 DEF GetFills, AllFills, ManagerInv, TypeOK
  <2> HIDE DEF x
  <2>3. SoundAt(x, order, Len(fills))
    BY <1>0, <2>1 DEF SoundAt
  <2> QED BY <1>5, <2>1, <2>2, <2>3, TaskStepSound DEF GetFills, histories, ManagerInv, TypeOK
<1>6. ASSUME NEW t \in Tasks, ApplyFill(t) PROVE ManagerInv'
  <2> DEFINE i == task[t].at + 1
             x == [task[t] EXCEPT !.at = i]
  <2>1. /\ i \in 1..Len(fills)
        /\ i \in Nat
    <3>1. task[t].at \in Nat /\ task[t].upto \in Nat /\ task[t].upto <= Len(fills)
      BY <1>0 DEF TaskStates, SoundAt
    <3> QED BY <1>0, <1>6, <3>1 DEF ApplyFill
  <2>2. /\ x \in TaskStates /\ x.pc = "apply" /\ x.upto = task[t].upto
        /\ task' = [task EXCEPT ![t] = x]
    BY <1>0, <1>6, <2>1 DEF ApplyFill, TaskStates
  <2>3. running' \in Tasks \cup {None} /\ UNCHANGED <<broker, fills, closed, doubtful>>
    BY <1>6 DEF ApplyFill, brokerVars, histories
  <2>4. SoundAt(x, order', Len(fills')) /\ Len(fills) <= Len(fills') /\ Len(fills') \in Nat
    BY <1>0, <2>2, <2>3 DEF SoundAt
  <2>5. /\ OrdersKept /\ OrdersSound' /\ seenFill' \subseteq Nat /\ position' \in Int
        /\ UNCHANGED <<book, seenRequest>>
    <3>1. CASE TakeFill(i)
      BY <1>1, <2>1, <2>3, <3>1
    <3>2. CASE UNCHANGED managerVars
      BY <2>3, <3>2, SameOrdersKept DEF managerVars, ManagerInv, TypeOK, OrdersSound
    <3> QED BY <1>6, <3>1, <3>2 DEF ApplyFill
  <2> HIDE DEF x, i
  <2>6. task' \in [Tasks -> TaskStates] /\ TasksSound'
    BY <1>0, <2>2, <2>4, <2>5, OthersStaySound
  <2> QED BY <2>3, <2>5, <2>6 DEF ManagerInv, TypeOK, OrdersKept
<1>7. ASSUME NEW t \in Tasks, ReconcileEnds(t) PROVE ManagerInv'
  <2>1. PICK x \in TaskStates :
          /\ task' = [task EXCEPT ![t] = x]
          /\ x.upto = 0
          /\ x = Idle \/ (x.pc = "cancel" /\ x.order \in OrderIds
                          /\ order[x.order] \in Orders /\ order[x.order].linked)
          /\ closed' \subseteq OrderIds
    <3>1. CASE task[t].kill
      BY <1>7, <3>1, IterateSound DEF ReconcileEnds, Linked, ManagerInv, TypeOK
    <3>2. CASE ~task[t].kill
      BY <1>7, <3>2, IdleType DEF ReconcileEnds, Done, Idle, ManagerInv, TypeOK
    <3> QED BY <3>1, <3>2
  <2>2. SoundAt(x, order, Len(fills))
    BY <1>0, <2>1 DEF SoundAt, Idle
  <2> QED BY <1>7, <2>1, <2>2, TaskStepSound DEF ReconcileEnds, ManagerInv, TypeOK
<1>8. ASSUME NEW o \in OrderIds, CancelLands(o) PROVE ManagerInv'
  <2>1. /\ broker' = [broker EXCEPT ![o].state = "cancelled"]
        /\ order[o] \in Orders
        /\ doubtful' \subseteq OrderIds
        /\ UNCHANGED <<order, book, seenRequest, seenFill, position, task, running,
                       fills, closed>>
    BY <1>8 DEF CancelLands, managerVars, ManagerInv, TypeOK, OrdersSound
  <2>2. /\ broker' \in [OrderIds -> [state : {"none", "working", "done", "cancelled"},
                                     filled : Nat]]
        /\ \A p \in OrderIds : p # o => broker'[p] = broker[p]
    BY <2>1 DEF ManagerInv, TypeOK
  <2> QED BY <2>1, <2>2 DEF ManagerInv, TypeOK, TasksSound, OrdersSound
<1> QED BY <1>2, <1>3, <1>4, <1>5, <1>6, <1>7, <1>8

\* The steps of cancel and of kill_all's loop.
LEMMA CancelStepsSound ==
  ASSUME ManagerInv, NEW t \in Tasks,
         \/ \E o \in OrderIds : Cancel(t, o)
         \/ BrokerCancels(t)
         \/ CancelReturns(t)
         \/ KillContinues(t)
         \/ CancelRaises(t)
  PROVE  ManagerInv'
<1> USE DEF At
<1>0. /\ task[t] \in TaskStates /\ SoundAt(task[t], order, Len(fills))
      /\ Len(fills) \in Nat
  BY DEF ManagerInv, TasksSound, TypeOK
<1>1. ASSUME NEW o \in OrderIds, Cancel(t, o) PROVE ManagerInv'
  <2> DEFINE x == [Idle EXCEPT !.pc = "cancel", !.order = o]
  <2>1. x \in TaskStates /\ x.pc = "cancel" /\ x.order = o /\ x.upto = 0
    BY DEF Idle, TaskStates, Places
  <2>2. task' = [task EXCEPT ![t] = x]
    BY <1>1 DEF Cancel
  <2>3. order[o] \in Orders /\ order[o].linked
    BY <1>1, NoOrderIsNone DEF Cancel, ManagerInv, TypeOK
  <2> HIDE DEF x
  <2>4. SoundAt(x, order, Len(fills))
    BY <1>0, <2>1, <2>3 DEF SoundAt
  <2> QED BY <1>1, <2>1, <2>2, <2>4, TaskStepSound DEF Cancel, histories, ManagerInv, TypeOK
<1>2. ASSUME CancelRaises(t) PROVE ManagerInv'
  <2>1. SoundAt(Idle, order, Len(fills))
    BY <1>0 DEF Idle, SoundAt
  <2> QED BY <1>2, <2>1, IdleType, TaskStepSound DEF CancelRaises, Done, histories, ManagerInv, TypeOK
<1>3. ASSUME BrokerCancels(t) PROVE ManagerInv'
  <2>0. PICK yes \in BOOLEAN, done \in BOOLEAN :
          /\ task' = [task EXCEPT ![t].pc = "answered", ![t].reply = yes]
          /\ broker' = IF done THEN [broker EXCEPT ![task[t].order].state = "cancelled"]
                       ELSE broker
    BY <1>3 DEF BrokerCancels
  <2> DEFINE x == [task[t] EXCEPT !.pc = "answered", !.reply = yes]
  <2>1. task[t].order \in OrderIds /\ order[task[t].order] \in Orders
        /\ order[task[t].order].linked
    BY <1>0, <1>3 DEF BrokerCancels, SoundAt
  <2>2. /\ x \in TaskStates /\ x.pc = "answered" /\ x.order = task[t].order
        /\ x.upto = task[t].upto /\ task' = [task EXCEPT ![t] = x]
    BY <1>0, <2>0 DEF TaskStates, Places, ManagerInv, TypeOK
  <2>3. /\ UNCHANGED <<order, book, seenRequest, seenFill, position, running, fills, closed>>
        /\ doubtful' \subseteq OrderIds
    BY <1>3, <2>1 DEF BrokerCancels, managerVars, ManagerInv, TypeOK
  <2>4. /\ broker' \in [OrderIds -> [state : {"none", "working", "done", "cancelled"},
                                     filled : Nat]]
        /\ \A q \in OrderIds : q # task[t].order => broker'[q] = broker[q]
    BY <2>0, <2>1 DEF ManagerInv, TypeOK
  <2> HIDE DEF x
  <2>5. OrdersKept
    BY <2>3, SameOrdersKept
  <2>6. SoundAt(x, order', Len(fills')) /\ Len(fills) <= Len(fills') /\ Len(fills') \in Nat
    BY <1>0, <2>1, <2>2, <2>3 DEF SoundAt
  <2>7. task' \in [Tasks -> TaskStates] /\ TasksSound'
    BY <1>0, <2>2, <2>5, <2>6, OthersStaySound
  <2>8. OrdersSound'
    BY <2>1, <2>3, <2>4 DEF ManagerInv, OrdersSound
  <2> QED BY <2>3, <2>4, <2>7, <2>8 DEF ManagerInv, TypeOK
<1>4. ASSUME NEW x \in TaskStates, x.upto = 0, x.pc = "idle" \/
               (x.pc = "cancel" /\ x.order \in OrderIds
                /\ AfterCancel(t)[x.order] \in Orders /\ AfterCancel(t)[x.order].linked),
             task' = [task EXCEPT ![t] = x], task[t].pc = "answered",
             order' = AfterCancel(t), closed' \subseteq OrderIds,
             UNCHANGED <<book, seenRequest, seenFill, position, running, broker, fills,
                         doubtful>>
      PROVE ManagerInv'
  <2>1. /\ order' \in [OrderIds -> Orders \cup {NoOrder}]
        /\ \A o \in OrderIds : /\ order'[o] \in Orders <=> order[o] \in Orders
                               /\ order'[o].req = order[o].req
                               /\ order'[o].filled = order[o].filled
                               /\ order'[o].linked = order[o].linked
    BY <1>4, AfterCancelSound
  <2>2. OrdersKept
    BY <2>1 DEF OrdersKept, ManagerInv, OrdersSound
  <2>3. SoundAt(x, order', Len(fills')) /\ Len(fills) <= Len(fills') /\ Len(fills') \in Nat
    BY <1>0, <1>4 DEF SoundAt
  <2>4. task' \in [Tasks -> TaskStates] /\ TasksSound'
    BY <1>0, <1>4, <2>2, <2>3, OthersStaySound
  <2>5. OrdersSound'
    BY <1>4, <2>2, FillTypes DEF OrdersKept, OrdersSound, ManagerInv
  <2> QED BY <1>4, <2>2, <2>4, <2>5 DEF ManagerInv, TypeOK, OrdersKept
<1>5. ASSUME CancelReturns(t) PROVE ManagerInv'
  <2>1. Idle.upto = 0 /\ Idle.pc = "idle"
    BY DEF Idle
  <2> QED BY <1>4, <1>5, <2>1, IdleType
          DEF CancelReturns, Done, brokerVars, histories, ManagerInv, TypeOK
<1>6. ASSUME KillContinues(t) PROVE ManagerInv'
  <2>1. /\ task[t].pc = "answered" /\ order' = AfterCancel(t)
        /\ UNCHANGED <<book, seenRequest, seenFill, position, running, broker, fills,
                       doubtful>>
    BY <1>6 DEF KillContinues, brokerVars
  <2>2. Idle.upto = 0 /\ Idle.pc = "idle"
    BY DEF Idle
  <2>3. CASE Done(t) /\ UNCHANGED closed
    BY <1>4, <2>1, <2>2, <2>3, IdleType DEF Done, ManagerInv, TypeOK
  <2>4. CASE Iterate(t, AfterCancel(t), task[t].at, task[t].aim)
    <3>1. task[t].at \in Nat /\ task[t].aim \in SUBSET OrderIds
      BY <1>0 DEF TaskStates
    <3>2. AfterCancel(t) \in [OrderIds -> Orders \cup {NoOrder}]
      BY <2>1, AfterCancelSound
    <3>3. PICK x \in TaskStates :
            /\ task' = [task EXCEPT ![t] = x]
            /\ x.upto = 0
            /\ x = Idle \/ (x.pc = "cancel" /\ x.order \in OrderIds
                            /\ x.req = None /\ AfterCancel(t)[x.order] \in Orders
                            /\ AfterCancel(t)[x.order].linked)
            /\ closed' \subseteq OrderIds
      BY <2>4, <3>1, <3>2, IterateSound DEF ManagerInv
    <3> QED BY <1>4, <2>1, <2>2, <3>3
  <2> QED BY <1>6, <2>3, <2>4 DEF KillContinues
<1> QED BY <1>1, <1>2, <1>3, <1>5, <1>6

\* Every step of the manager and its broker keeps the invariant.
LEMMA StepManagerInv == ManagerInv /\ [Next]_vars => ManagerInv'
<1> SUFFICES ASSUME ManagerInv, [Next]_vars PROVE ManagerInv'
  OBVIOUS
<1>1. CASE UNCHANGED vars
  BY <1>1 DEF vars, ManagerInv, TypeOK, TasksSound, OrdersSound
<1>2. CASE Next
  BY <1>2, SubmitStepsSound, FillStepsSound, CancelStepsSound DEF Next, Step
<1> QED BY <1>1, <1>2

\* Type correctness of the manager, its tasks and the broker.
THEOREM ManagerTypeCorrect == Spec => []TypeOK
<1>1. ManagerInv => TypeOK
  BY DEF ManagerInv
<1> QED BY <1>1, InitManagerInv, StepManagerInv, PTL DEF Spec

\* No order is filled beyond its quantity, even by a broker that overfills and
\* however callbacks and reconciliations of many tasks interleave
\* (execution/order_manager/manager.py:205-215).
THEOREM ManagerNeverOverfills == Spec => []FilledWithinQuantity
<1>1. ManagerInv => FilledWithinQuantity
  BY DEF ManagerInv, TypeOK, OrdersSound, FilledWithinQuantity
<1> QED BY <1>1, InitManagerInv, StepManagerInv, PTL DEF Spec
-----------------------------------------------------------------------------
(* One order per request, when no request is submitted twice at a time and *)
(* no call to the broker raises after it took effect.                      *)

Submitting == {"risk", "sending", "sent"}

\* A request has one task; while that submits it, the request has no result and
\* the broker none of its orders until the task itself has sent one.
SerialInv ==
  /\ \A t, u \in Tasks : task[t].req # None /\ task[t].req = task[u].req => t = u
  /\ \A t \in Tasks : task[t].pc \in Submitting => seenRequest[task[t].req] = None
  /\ \A t \in Tasks : task[t].pc = "sending" => broker[task[t].order].state = "none"
  /\ \A o \in OrderIds : broker[o].state # "none" =>
       \/ seenRequest[order[o].req] = o
       \/ \E t \in Tasks : task[t].pc = "sent" /\ task[t].order = o

LEMMA InitSerialInv == Init => SerialInv
  BY DEF Init, SerialInv, Idle, Submitting

\* A step that submits nothing: results, requests of orders and what the broker
\* has stay as they are, and the task it moves is not, or no more, submitting.
LEMMA QuietStep ==
  ASSUME ManagerInv, SerialInv, UNCHANGED seenRequest,
         \A o \in OrderIds : order[o] \in Orders => order'[o].req = order[o].req,
         \A o \in OrderIds : broker'[o].state # "none" <=> broker[o].state # "none",
         NEW t \in Tasks, NEW x \in TaskStates,
         x.pc \notin Submitting, x.req \in {None, task[t].req},
         task' = task \/ (task' = [task EXCEPT ![t] = x] /\ task[t].pc # "sent")
  PROVE  SerialInv'
<1>1. CASE task' = task
  <2>1. \A o \in OrderIds : broker'[o].state # "none" => order'[o].req = order[o].req
    BY DEF ManagerInv, OrdersSound
  <2>2. \A u \in Tasks : task[u].pc = "sending" => task[u].order \in OrderIds
    BY DEF ManagerInv, TasksSound, SoundAt
  <2> QED BY <1>1, <2>1, <2>2 DEF SerialInv
<1>2. CASE task' = [task EXCEPT ![t] = x] /\ task[t].pc # "sent"
  <2>1. task'[t] = x /\ \A u \in Tasks : u # t => task'[u] = task[u]
    BY <1>2 DEF ManagerInv, TypeOK
  <2>2. \A u, v \in Tasks : task'[u].req # None /\ task'[u].req = task'[v].req => u = v
    BY <2>1 DEF SerialInv
  <2>3. \A u \in Tasks :
          /\ task'[u].pc \in Submitting => seenRequest'[task'[u].req] = None
          /\ task'[u].pc = "sending" => broker'[task'[u].order].state = "none"
    <3>1. \A u \in Tasks : task[u].pc = "sending" => task[u].order \in OrderIds
      BY DEF ManagerInv, TasksSound, SoundAt
    <3> QED BY <2>1, <3>1 DEF SerialInv, Submitting
  <2>4. ASSUME NEW o \in OrderIds, broker'[o].state # "none"
        PROVE  \/ seenRequest'[order'[o].req] = o
               \/ \E u \in Tasks : task'[u].pc = "sent" /\ task'[u].order = o
    <3>1. order'[o].req = order[o].req /\ broker[o].state # "none"
      BY <2>4 DEF ManagerInv, OrdersSound
    <3>2. CASE seenRequest[order[o].req] = o
      BY <3>1, <3>2
    <3>3. ASSUME NEW u \in Tasks, task[u].pc = "sent", task[u].order = o
          PROVE  task'[u].pc = "sent" /\ task'[u].order = o
      BY <1>2, <2>1, <3>3
    <3> QED BY <3>1, <3>2, <3>3 DEF SerialInv
  <2> QED BY <2>2, <2>3, <2>4 DEF SerialInv
<1> QED BY <1>1, <1>2

\* What submits, to the result, keeps the invariant.
LEMMA SubmitStepsSerial ==
  ASSUME ManagerInv, SerialInv, Concurrent = FALSE, Timeouts = FALSE, NEW t \in Tasks,
         \/ \E r \in Requests : Submit(t, r)
         \/ RiskRefuses(t)
         \/ \E o \in OrderIds : RiskAccepts(t, o)
         \/ Submitted(t)
         \/ SubmitRaises(t)
         \/ BrokerAccepts(t)
  PROVE  SerialInv'
<1> USE DEF At
<1>0. /\ task \in [Tasks -> TaskStates] /\ order \in [OrderIds -> Orders \cup {NoOrder}]
      /\ \A u \in Tasks : SoundAt(task[u], order, Len(fills))
      /\ Idle.pc = "idle" /\ Idle.req = None
  BY DEF ManagerInv, TasksSound, TypeOK, Idle
<1>1. ASSUME NEW r \in Requests, Submit(t, r) PROVE SerialInv'
  <2> DEFINE x == [Idle EXCEPT !.pc = "risk", !.req = r]
  <2>1. x.pc = "risk" /\ x.req = r
    BY DEF Idle
  <2>2. /\ task' = [task EXCEPT ![t] = x] /\ task[t].pc = "idle"
        /\ seenRequest[r] = None /\ \A u \in Tasks : task[u].req # r
        /\ UNCHANGED <<order, seenRequest, broker>>
    BY <1>1 DEF Submit, managerVars, brokerVars
  <2> HIDE DEF x
  <2>3. task'[t] = x /\ \A u \in Tasks : u # t => task'[u] = task[u]
    BY <1>0, <2>2
  <2>4. \A u \in Tasks : task[u].pc = "sent" => u # t
    BY <2>2
  <2>5. \A u, v \in Tasks : task'[u].req # None /\ task'[u].req = task'[v].req => u = v
    BY <2>1, <2>2, <2>3 DEF SerialInv
  <2>6. \A u \in Tasks :
          /\ task'[u].pc \in Submitting => seenRequest'[task'[u].req] = None
          /\ task'[u].pc = "sending" => broker'[task'[u].order].state = "none"
    BY <2>1, <2>2, <2>3 DEF SerialInv
  <2> QED BY <2>2, <2>3, <2>4, <2>5, <2>6 DEF SerialInv
<1>2. ASSUME RiskRefuses(t) PROVE SerialInv'
  BY <1>0, <1>2, IdleType, QuietStep
  DEF RiskRefuses, Done, managerVars, brokerVars, Submitting
<1>3. ASSUME NEW o \in OrderIds, RiskAccepts(t, o) PROVE SerialInv'
  <2> DEFINE x == [task[t] EXCEPT !.pc = "sending", !.order = o]
  <2>1. x.pc = "sending" /\ x.order = o /\ x.req = task[t].req
    BY <1>0 DEF TaskStates
  <2>2. /\ task' = [task EXCEPT ![t] = x] /\ task[t].pc = "risk"
        /\ broker[o].state = "none"
        /\ UNCHANGED <<seenRequest, broker>>
        /\ \A q \in OrderIds : q # o => order'[q] = order[q]
    BY <1>0, <1>3, NoOrderIsNone
    DEF RiskAccepts, brokerVars, ManagerInv, OrdersSound
  <2> HIDE DEF x
  <2>3. task'[t] = x /\ \A u \in Tasks : u # t => task'[u] = task[u]
    BY <1>0, <2>2
  <2>4. \A q \in OrderIds : broker'[q].state # "none" => order'[q] = order[q]
    BY <2>2
  <2>5. \A u, v \in Tasks : task'[u].req # None /\ task'[u].req = task'[v].req => u = v
    BY <2>1, <2>3 DEF SerialInv
  <2>6. \A u \in Tasks :
          /\ task'[u].pc \in Submitting => seenRequest'[task'[u].req] = None
          /\ task'[u].pc = "sending" => broker'[task'[u].order].state = "none"
    BY <2>1, <2>2, <2>3 DEF SerialInv, Submitting
  <2>7. \A u \in Tasks : task[u].pc = "sent" => u # t
    BY <2>2
  <2> QED BY <2>2, <2>3, <2>4, <2>5, <2>6, <2>7 DEF SerialInv
<1>4. ASSUME Submitted(t) PROVE SerialInv'
  <2> DEFINE o == task[t].order
             r == task[t].req
  <2>1. /\ o \in OrderIds /\ order[o].req = r /\ r \in Requests /\ r # None
        /\ task[t].pc = "sent" /\ seenRequest[r] = None
    BY <1>0, <1>4, NoneAssumption DEF Submitted, SoundAt, SerialInv, Submitting
  <2>2. /\ task' = [task EXCEPT ![t] = Idle] /\ UNCHANGED broker
        /\ seenRequest' = [seenRequest EXCEPT ![r] = o]
        /\ order' = [order EXCEPT ![o] = [order[o] EXCEPT !.linked = TRUE]]
    BY <1>4 DEF Submitted, Done, Remembered, brokerVars
  <2>3. \A q \in OrderIds : broker'[q].state # "none" => order'[q].req = order[q].req
    BY <1>0, <2>1, <2>2 DEF ManagerInv, OrdersSound, Orders
  <2> HIDE DEF o, r
  <2>4. /\ task'[t] = Idle /\ \A u \in Tasks : u # t => task'[u] = task[u]
        /\ seenRequest'[r] = o
        /\ \A s \in Requests : s # r => seenRequest'[s] = seenRequest[s]
    BY <1>0, <2>1, <2>2 DEF ManagerInv, TypeOK
  <2>5. \A u \in Tasks : u # t => task[u].req # r
    BY <2>1 DEF SerialInv, r
  <2>6. \A u, v \in Tasks : task'[u].req # None /\ task'[u].req = task'[v].req => u = v
    BY <1>0, <2>4 DEF SerialInv
  <2>7. \A u \in Tasks :
          /\ task'[u].pc \in Submitting => seenRequest'[task'[u].req] = None
          /\ task'[u].pc = "sending" => broker'[task'[u].order].state = "none"
    BY <1>0, <2>2, <2>4, <2>5 DEF SerialInv, Submitting, SoundAt
  <2>8. ASSUME NEW q \in OrderIds, broker'[q].state # "none"
        PROVE  \/ seenRequest'[order'[q].req] = q
               \/ \E u \in Tasks : task'[u].pc = "sent" /\ task'[u].order = q
    <3>1. /\ order'[q].req = order[q].req /\ broker[q].state # "none"
          /\ order[q].req \in Requests
      BY <2>2, <2>3, <2>8 DEF ManagerInv, OrdersSound, Orders
    <3>2. CASE q = o
      BY <2>1, <2>4, <3>1, <3>2
    <3>3. CASE q # o
      <4>1. CASE seenRequest[order[q].req] = q
        <5>1. order[q].req # r
          BY <2>1, <4>1, NoneAssumption
        <5> QED BY <2>4, <3>1, <4>1, <5>1
      <4>2. ASSUME NEW u \in Tasks, task[u].pc = "sent", task[u].order = q
            PROVE task'[u].pc = "sent" /\ task'[u].order = q
        BY <2>4, <3>3, <4>2 DEF o
      <4> QED BY <3>1, <4>1, <4>2 DEF SerialInv
    <3> QED BY <3>2, <3>3
  <2> QED BY <2>6, <2>7, <2>8 DEF SerialInv
<1>5. ASSUME SubmitRaises(t) PROVE SerialInv'
  <2>1. /\ task[t].pc = "sending" /\ task' = [task EXCEPT ![t] = Idle]
        /\ order' = [order EXCEPT ![task[t].order].status = "rejected"]
        /\ UNCHANGED <<seenRequest, broker>>
    BY <1>5 DEF SubmitRaises, Done, brokerVars
  <2>2. \A q \in OrderIds : order[q] \in Orders => order'[q].req = order[q].req
    BY <1>0, <2>1 DEF Orders
  <2>3. /\ \A q \in OrderIds : broker'[q].state # "none" <=> broker[q].state # "none"
        /\ task[t].pc # "sent" /\ Idle.pc \notin Submitting
        /\ Idle.req \in {None, task[t].req}
    BY <1>0, <2>1 DEF Submitting
  <2> QED BY <2>1, <2>2, <2>3, IdleType, QuietStep
<1>6. ASSUME BrokerAccepts(t) PROVE SerialInv'
  <2> DEFINE o == task[t].order
             x == [task[t] EXCEPT !.pc = "sent"]
  <2>1. /\ o \in OrderIds /\ order[o].req = task[t].req /\ task[t].req \in Requests
        /\ task[t].pc = "sending" /\ task[t].req # None
    BY <1>0, <1>6, NoneAssumption DEF BrokerAccepts, SoundAt
  <2>2. x.pc = "sent" /\ x.order = o /\ x.req = task[t].req
    BY <1>0 DEF TaskStates
  <2>3. /\ task' = [task EXCEPT ![t] = x] /\ UNCHANGED <<order, seenRequest>>
        /\ \A q \in OrderIds : q # o => broker'[q] = broker[q]
    BY <1>6, <2>1 DEF BrokerAccepts, Goto, managerVars, ManagerInv, TypeOK
  <2> HIDE DEF x
  <2>4. task'[t] = x /\ \A u \in Tasks : u # t => task'[u] = task[u]
    BY <1>0, <2>3
  <2>5. \A u, v \in Tasks : task'[u].req # None /\ task'[u].req = task'[v].req => u = v
    BY <2>2, <2>4 DEF SerialInv
  <2>6. \A u \in Tasks : task'[u].pc \in Submitting => seenRequest'[task'[u].req] = None
    BY <2>1, <2>2, <2>3, <2>4 DEF SerialInv, Submitting
  <2>7. ASSUME NEW u \in Tasks, task'[u].pc = "sending"
        PROVE broker'[task'[u].order].state = "none"
    <3>1. u # t /\ task[u].pc = "sending" /\ task'[u] = task[u]
      BY <2>2, <2>4, <2>7
    <3>2. task[u].req # task[t].req
      BY <2>1, <3>1 DEF SerialInv
    <3>3. task[u].order \in OrderIds /\ order[task[u].order].req = task[u].req
      BY <1>0, <3>1 DEF SoundAt
    <3> QED BY <2>1, <2>3, <3>1, <3>2, <3>3 DEF SerialInv
  <2>8. ASSUME NEW q \in OrderIds, broker'[q].state # "none"
        PROVE  \/ seenRequest'[order'[q].req] = q
               \/ \E u \in Tasks : task'[u].pc = "sent" /\ task'[u].order = q
    <3>1. CASE q = o
      BY <2>2, <2>4, <3>1
    <3>2. CASE q # o
      <4>1. \A u \in Tasks : task[u].pc = "sent" => task'[u] = task[u]
        BY <2>1, <2>4
      <4> QED BY <2>3, <2>8, <3>2, <4>1 DEF SerialInv
    <3> QED BY <3>1, <3>2
  <2> QED BY <2>5, <2>6, <2>7, <2>8 DEF SerialInv
<1> QED BY <1>1, <1>2, <1>3, <1>4, <1>5, <1>6

\* Fills, reconciliations and cancellations keep it as well.
LEMMA OtherStepsSerial ==
  ASSUME ManagerInv, SerialInv,
         \/ \E i \in 1..MaxFills : OnFill(i)
         \/ \E o \in OrderIds : CancelLands(o)
         \/ \E o \in OrderIds, q \in FillSizes : BrokerFills(o, q)
         \/ \E t \in Tasks :
              \/ \E kill \in BOOLEAN : Reconcile(t, kill)
              \/ GetFills(t) \/ ApplyFill(t) \/ ReconcileEnds(t)
              \/ \E o \in OrderIds : Cancel(t, o)
              \/ BrokerCancels(t) \/ CancelReturns(t) \/ KillContinues(t) \/ CancelRaises(t),
         Tasks # {}
  PROVE  SerialInv'
<1> USE DEF At
<1>0. /\ task \in [Tasks -> TaskStates] /\ order \in [OrderIds -> Orders \cup {NoOrder}]
      /\ TypeOK /\ OrdersSound
      /\ Idle.pc = "idle" /\ Idle.req = None /\ Idle \in TaskStates
  BY IdleType DEF ManagerInv, TypeOK, Idle
<1>1. ASSUME UNCHANGED <<task, seenRequest>>,
             \A o \in OrderIds : order[o] \in Orders => order'[o].req = order[o].req,
             \A o \in OrderIds : broker'[o].state # "none" <=> broker[o].state # "none"
      PROVE SerialInv'
  <2>1. PICK t \in Tasks : TRUE
    OBVIOUS
  <2> QED BY <1>0, <1>1, <2>1, QuietStep DEF Submitting
<1>2. ASSUME NEW i \in 1..MaxFills, OnFill(i) PROVE SerialInv'
  <2>1. \A o \in OrderIds : order[o] \in Orders => order'[o].req = order[o].req
    BY <1>0, <1>2, TakeFillSound DEF OnFill
  <2> QED BY <1>1, <1>2, <2>1 DEF OnFill, TakeFill, brokerVars
<1>3. ASSUME NEW o \in OrderIds, NEW q \in FillSizes, BrokerFills(o, q) PROVE SerialInv'
  <2>1. /\ broker[o].state = "working" /\ broker'[o].state \in {"working", "done"}
        /\ \A p \in OrderIds : p # o => broker'[p] = broker[p]
    BY <1>0, <1>3 DEF BrokerFills, TypeOK
  <2> QED BY <1>1, <1>3, <2>1 DEF BrokerFills, managerVars
<1>4. ASSUME NEW t \in Tasks, NEW x \in TaskStates,
             x.pc \notin Submitting, x.req \in {None, task[t].req},
             task' = [task EXCEPT ![t] = x], task[t].pc # "sent",
             UNCHANGED <<order, seenRequest, broker>>
      PROVE SerialInv'
  BY <1>4, QuietStep
<1>5. ASSUME NEW t \in Tasks, NEW kill \in BOOLEAN, Reconcile(t, kill) PROVE SerialInv'
  <2> DEFINE x == [Idle EXCEPT !.pc = "asking", !.kill = kill]
  <2>1. x \in TaskStates /\ x.pc \notin Submitting /\ x.req = None
    BY DEF Idle, TaskStates, Places, Submitting
  <2>2. task' = [task EXCEPT ![t] = x]
    BY <1>5 DEF Reconcile
  <2> HIDE DEF x
  <2> QED BY <1>4, <1>5, <2>1, <2>2 DEF Reconcile, managerVars, brokerVars
<1>6. ASSUME NEW t \in Tasks, GetFills(t) PROVE SerialInv'
  <2> DEFINE x == [task[t] EXCEPT !.pc = "apply", !.upto = Len(fills)]
  <2>1. x \in TaskStates /\ x.pc \notin Submitting /\ x.req = task[t].req
    <3>1. Len(fills) \in Nat
      BY <1>0 DEF TypeOK
    <3> QED BY <1>0, <3>1 DEF TaskStates, Places, Submitting
  <2>2. task' = [task EXCEPT ![t] = x]
    BY <1>0, <1>6 DEF GetFills, AllFills
  <2> HIDE DEF x
  <2> QED BY <1>4, <1>6, <2>1, <2>2 DEF GetFills, managerVars, brokerVars
<1>7. ASSUME NEW t \in Tasks, ApplyFill(t) PROVE SerialInv'
  <2> DEFINE i == task[t].at + 1
             x == [task[t] EXCEPT !.at = i]
  <2>1. i \in 1..Len(fills) /\ i \in Nat
    <3>1. task[t] \in TaskStates /\ Len(fills) \in Nat
      BY <1>0 DEF TypeOK
    <3>2. task[t].at \in Nat /\ task[t].upto \in Nat
      BY <3>1 DEF TaskStates
    <3>3. task[t].upto <= Len(fills)
      BY <1>0 DEF ManagerInv, TasksSound, SoundAt
    <3> QED BY <1>7, <3>1, <3>2, <3>3 DEF ApplyFill
  <2>2. /\ x \in TaskStates /\ x.pc \notin Submitting /\ x.req = task[t].req
        /\ task' = [task EXCEPT ![t] = x] /\ task[t].pc # "sent"
    BY <1>0, <1>7, <2>1 DEF ApplyFill, TaskStates, Submitting
  <2>3. /\ UNCHANGED <<seenRequest, broker>>
        /\ \A o \in OrderIds : order[o] \in Orders => order'[o].req = order[o].req
    <3>1. CASE TakeFill(i)
      BY <1>0, <1>7, <2>1, <3>1, TakeFillSound DEF ApplyFill, TakeFill, brokerVars
    <3>2. CASE UNCHANGED managerVars
      BY <1>7, <3>2 DEF ApplyFill, managerVars, brokerVars
    <3> QED BY <1>7, <3>1, <3>2 DEF ApplyFill
  <2> HIDE DEF x, i
  <2> QED BY <2>2, <2>3, QuietStep
<1>8. ASSUME NEW t \in Tasks, ReconcileEnds(t) PROVE SerialInv'
  <2>1. CASE task[t].kill
    <3>1. Iterate(t, order, 0, Linked) /\ Linked \in SUBSET OrderIds
      BY <1>8, <2>1 DEF ReconcileEnds, Linked
    <3>2. PICK x \in TaskStates :
            /\ task' = [task EXCEPT ![t] = x]
            /\ x = Idle \/ (x.pc = "cancel" /\ x.req = None)
      BY <1>0, <3>1, IterateSound
    <3> QED BY <1>0, <1>4, <1>8, <3>2 DEF ReconcileEnds, Submitting, managerVars, brokerVars
  <2>2. CASE ~task[t].kill
    BY <1>0, <1>4, <1>8, <2>2 DEF ReconcileEnds, Done, Submitting, managerVars, brokerVars
  <2> QED BY <2>1, <2>2
<1>9. ASSUME NEW t \in Tasks, NEW o \in OrderIds, Cancel(t, o) PROVE SerialInv'
  <2> DEFINE x == [Idle EXCEPT !.pc = "cancel", !.order = o]
  <2>1. x \in TaskStates /\ x.pc \notin Submitting /\ x.req = None
    BY DEF Idle, TaskStates, Places, Submitting
  <2>2. task' = [task EXCEPT ![t] = x]
    BY <1>9 DEF Cancel
  <2> HIDE DEF x
  <2> QED BY <1>4, <1>9, <2>1, <2>2 DEF Cancel, managerVars, brokerVars
<1>10. ASSUME NEW t \in Tasks, BrokerCancels(t) PROVE SerialInv'
  <2>0. PICK yes \in BOOLEAN, done \in BOOLEAN :
          /\ done => broker[task[t].order].state = "working"
          /\ task' = [task EXCEPT ![t].pc = "answered", ![t].reply = yes]
          /\ broker' = IF done THEN [broker EXCEPT ![task[t].order].state = "cancelled"]
                       ELSE broker
    BY <1>10 DEF BrokerCancels, Answers
  <2> DEFINE x == [task[t] EXCEPT !.pc = "answered", !.reply = yes]
  <2>1. /\ x \in TaskStates /\ x.pc \notin Submitting /\ x.req = task[t].req
        /\ task' = [task EXCEPT ![t] = x] /\ task[t].pc # "sent"
    BY <1>0, <1>10, <2>0 DEF BrokerCancels, TaskStates, Places, Submitting
  <2>2. task[t].order \in OrderIds
    BY <1>10 DEF BrokerCancels, ManagerInv, TasksSound, SoundAt
  <2>3. \A q \in OrderIds : broker'[q].state # "none" <=> broker[q].state # "none"
    <3>1. CASE done
      <4>1. broker' = [broker EXCEPT ![task[t].order].state = "cancelled"]
        BY <2>0, <3>1
      <4> QED BY <1>0, <2>0, <2>2, <3>1, <4>1 DEF TypeOK
    <3>2. CASE ~done
      BY <2>0, <3>2
    <3> QED BY <3>1, <3>2
  <2> HIDE DEF x
  <2> QED BY <1>10, <2>1, <2>3, QuietStep DEF BrokerCancels, managerVars
<1>11. ASSUME NEW t \in Tasks, NEW x \in TaskStates, task[t].pc = "answered",
              order' = AfterCancel(t), task' = [task EXCEPT ![t] = x],
              x = Idle \/ (x.pc = "cancel" /\ x.req = None),
              UNCHANGED <<seenRequest, broker>>
       PROVE SerialInv'
  <2>1. \A o \in OrderIds : order[o] \in Orders => order'[o].req = order[o].req
    BY <1>11, AfterCancelSound
  <2> QED BY <1>0, <1>11, <2>1, QuietStep DEF Submitting
<1>12. ASSUME NEW t \in Tasks, CancelReturns(t) PROVE SerialInv'
  BY <1>0, <1>11, <1>12 DEF CancelReturns, Done, brokerVars
<1>13. ASSUME NEW t \in Tasks, KillContinues(t) PROVE SerialInv'
  <2>1. /\ task[t].pc = "answered" /\ order' = AfterCancel(t)
        /\ UNCHANGED <<seenRequest, broker>>
    BY <1>13 DEF KillContinues, brokerVars
  <2>2. CASE Done(t)
    BY <1>0, <1>11, <2>1, <2>2 DEF Done
  <2>3. CASE Iterate(t, AfterCancel(t), task[t].at, task[t].aim)
    <3>1. /\ task[t].at \in Nat /\ task[t].aim \in SUBSET OrderIds
          /\ AfterCancel(t) \in [OrderIds -> Orders \cup {NoOrder}]
      BY <1>0, <2>1, AfterCancelSound DEF TaskStates
    <3>2. PICK x \in TaskStates :
            /\ task' = [task EXCEPT ![t] = x]
            /\ x = Idle \/ (x.pc = "cancel" /\ x.req = None)
      BY <1>0, <2>3, <3>1, IterateSound
    <3> QED BY <1>11, <2>1, <3>2
  <2> QED BY <1>13, <2>2, <2>3 DEF KillContinues
<1>14. ASSUME NEW t \in Tasks, CancelRaises(t) PROVE SerialInv'
  BY <1>0, <1>4, <1>14 DEF CancelRaises, Done, Submitting, managerVars, brokerVars
<1>15. ASSUME NEW o \in OrderIds, CancelLands(o) PROVE SerialInv'
  <2>1. /\ broker[o].state = "working" /\ broker' = [broker EXCEPT ![o].state = "cancelled"]
        /\ UNCHANGED <<task, seenRequest, order>>
    BY <1>15 DEF CancelLands, managerVars
  <2>2. \A p \in OrderIds : broker'[p].state # "none" <=> broker[p].state # "none"
    BY <1>0, <2>1 DEF TypeOK
  <2> QED BY <1>1, <2>1, <2>2
<1> QED BY <1>2, <1>3, <1>5, <1>6, <1>7, <1>8, <1>9, <1>10, <1>12, <1>13, <1>14, <1>15

\* At most one order of a request reaches the broker, for any number of tasks
\* and retries, if a request is submitted by one task at a time and no call to
\* the broker raises after it took effect (manager.py:46-53, 113-120).
THEOREM RequestsOrderOnce ==
  ASSUME Concurrent = FALSE, Timeouts = FALSE, Tasks # {}
  PROVE  Spec => []OneOrderPerRequest
<1> DEFINE Inv == ManagerInv /\ SerialInv
<1>1. Init => Inv
  BY InitManagerInv, InitSerialInv
<1>2. Inv /\ [Next]_vars => Inv'
  <2> SUFFICES ASSUME Inv, [Next]_vars PROVE SerialInv'
    BY StepManagerInv
  <2>1. CASE UNCHANGED vars
    BY <2>1 DEF vars, SerialInv
  <2>2. CASE Next
    BY <2>2, SubmitStepsSerial, OtherStepsSerial DEF Next, Step
  <2> QED BY <2>1, <2>2
<1>3. Inv => OneOrderPerRequest
  <2> SUFFICES ASSUME Inv, NEW o \in OrderIds, NEW p \in OrderIds,
                      broker[o].state # "none", broker[p].state # "none",
                      order[o].req = order[p].req
               PROVE o = p
    BY DEF OneOrderPerRequest
  <2> DEFINE r == order[o].req
  <2>1. \A q \in {o, p} :
          seenRequest[r] = q \/ \E t \in Tasks : task[t].pc = "sent" /\ task[t].order = q
    BY DEF SerialInv
  <2>2. \A t \in Tasks : task[t].pc = "sent" /\ task[t].order \in {o, p} =>
          task[t].req = r /\ r # None /\ seenRequest[r] = None
    BY NoneAssumption DEF ManagerInv, TasksSound, SoundAt, SerialInv, Submitting
  <2>3. o # None /\ p # None
    BY NoneAssumption
  <2> HIDE DEF r
  <2> QED BY <2>1, <2>2, <2>3 DEF SerialInv
<1> QED BY <1>1, <1>2, <1>3, PTL DEF Spec

-----------------------------------------------------------------------------
(* What the manager has counted and what the broker has filled *)

\* The broker's fills of an order that the manager has not seen, and their lots.
Waiting(o) == {i \in 1..Len(fills) : i \notin seenFill /\ fills[i].order = o}
Sizes == [i \in 1..Len(fills) |-> fills[i].qty]
WaitingLots(o) == SumFunctionOnSet(Sizes, Waiting(o))

\* Each fill is counted once: with those still to be seen, an order claims no
\* more than the broker filled.
BackInv ==
  /\ seenFill \subseteq 1..Len(fills)
  /\ \A o \in OrderIds : order[o].filled + WaitingLots(o) <= broker[o].filled

\* The orders there are.
Known == {o \in OrderIds : order[o] # NoOrder}

\* They are finitely many, and the position is their signed sum.
PositionInv == IsFiniteSet(Known) /\ PositionExplained

\* What these invariants see of a state stays as it was.
SameCounts ==
  /\ UNCHANGED <<seenFill, position, fills>>
  /\ \A o \in OrderIds :
       /\ order'[o].filled = order[o].filled /\ broker'[o].filled = broker[o].filled
       /\ order'[o] # NoOrder <=> order[o] # NoOrder
       /\ order[o] # NoOrder => order'[o].req = order[o].req

\* Lots of orders and of waiting fills are natural numbers.
LEMMA LotsTypes ==
  ASSUME TypeOK, NEW o \in OrderIds
  PROVE  /\ order[o].filled \in Nat /\ broker[o].filled \in Nat
         /\ Len(fills) \in Nat
         /\ IsFiniteSet(Waiting(o)) /\ Waiting(o) \subseteq 1..Len(fills)
         /\ \A i \in 1..Len(fills) : Sizes[i] = fills[i].qty /\ fills[i].qty \in Nat
         /\ WaitingLots(o) \in Nat
<1>1. order[o].filled \in Nat /\ broker[o].filled \in Nat /\ Len(fills) \in Nat
  BY DEF TypeOK, Orders, NoOrder
<1>2. IsFiniteSet(Waiting(o)) /\ Waiting(o) \subseteq 1..Len(fills)
  <2>1. IsFiniteSet(1..Len(fills))
    BY <1>1, FS_Interval
  <2> QED
    BY <2>1, FS_Subset DEF Waiting
<1>3. \A i \in 1..Len(fills) : Sizes[i] = fills[i].qty /\ fills[i].qty \in Nat
  BY FillTypes DEF Sizes
<1>4. \A i \in Waiting(o) : Sizes[i] \in Nat
  BY <1>2, <1>3
<1> QED
  BY <1>1, <1>2, <1>3, <1>4, SumOfNats DEF WaitingLots

\* The lots of the orders that a set names are an integer.
LEMMA SideType ==
  ASSUME TypeOK, IsFiniteSet(Known), NEW S \in {Bought, Sold}
  PROVE  /\ IsFiniteSet(S) /\ S \subseteq OrderIds
         /\ \A o \in OrderIds : Filled[o] = order[o].filled /\ order[o].filled \in Nat
         /\ SumFunctionOnSet(Filled, S) \in Int
<1>1. IsFiniteSet(S) /\ S \subseteq OrderIds
  <2>1. S \subseteq Known
    BY DEF Bought, Sold, Known
  <2> QED
    BY <2>1, FS_Subset DEF Known
<1>2. \A o \in OrderIds : Filled[o] = order[o].filled /\ order[o].filled \in Nat
  BY LotsTypes DEF Filled
<1>3. \A o \in S : Filled[o] \in Int
  BY <1>1, <1>2
<1> QED
  BY <1>1, <1>2, <1>3, SumOfInts

\* At first there is nothing to count.
LEMMA InitBackInv == Init => BackInv /\ PositionInv
<1> SUFFICES ASSUME Init PROVE BackInv /\ PositionInv
  OBVIOUS
<1>1. /\ seenFill = {} /\ Len(fills) = 0 /\ position = 0
      /\ \A o \in OrderIds : order[o] = NoOrder /\ broker[o].filled = 0
  BY DEF Init
<1>2. ASSUME NEW o \in OrderIds PROVE WaitingLots(o) = 0
  <2>1. Waiting(o) = {}
    BY <1>1 DEF Waiting
  <2> QED
    BY <2>1, SumOverNone DEF WaitingLots
<1>3. Known = {} /\ Bought = {} /\ Sold = {}
  BY <1>1 DEF Known, Bought, Sold
<1> QED
  BY <1>1, <1>2, <1>3, SumOverNone, FS_EmptySet
  DEF BackInv, PositionInv, PositionExplained, NoOrder

\* A step that leaves the counts alone keeps what relates them.
LEMMA SameCountsBack ==
  ASSUME TypeOK, BackInv, PositionInv, SameCounts
  PROVE  BackInv' /\ PositionInv'
<1>1. BackInv'
  BY DEF BackInv, SameCounts, WaitingLots, Waiting, Sizes
<1>2. Known' = Known /\ Bought' = Bought /\ Sold' = Sold
  BY DEF SameCounts, Known, Bought, Sold
<1>3. Filled' = Filled
  BY DEF SameCounts, Filled
<1> QED
  BY <1>1, <1>2, <1>3 DEF PositionInv, PositionExplained, SameCounts

\* A new order has been filled nothing.
LEMMA AcceptBack ==
  ASSUME TypeOK, BackInv, PositionInv, NEW t \in Tasks, NEW o \in OrderIds, RiskAccepts(t, o)
  PROVE  BackInv' /\ PositionInv'
<1> DEFINE new == [req |-> task[t].req, status |-> "submitted", filled |-> 0, linked |-> FALSE]
<1>1. /\ order[o] = NoOrder /\ order' = [order EXCEPT ![o] = new]
      /\ UNCHANGED <<seenFill, position, broker, fills>>
      /\ new.filled = 0 /\ new # NoOrder
  BY DEF RiskAccepts, brokerVars, NoOrder
<1>2. order'[o] = new /\ \A q \in OrderIds : q # o => order'[q] = order[q]
  BY <1>1 DEF TypeOK
<1> HIDE DEF new
<1>3. \A q \in OrderIds : order'[q].filled = order[q].filled
  BY <1>1, <1>2 DEF NoOrder
<1>4. BackInv'
  BY <1>1, <1>3 DEF BackInv, WaitingLots, Waiting, Sizes
<1>5. Filled' = Filled
  BY <1>3 DEF Filled
<1>6. Known' = Known \cup {o} /\ o \notin Known
  BY <1>1, <1>2 DEF Known
<1>7. IsFiniteSet(Known')
  BY <1>6, FS_AddElement DEF PositionInv
<1>8. ASSUME NEW S \in {Bought, Sold}, NEW T, T = S \/ T = S \cup {o}, o \notin S
      PROVE  SumFunctionOnSet(Filled, T) = SumFunctionOnSet(Filled, S)
  <2>1. /\ IsFiniteSet(S) /\ S \subseteq OrderIds /\ SumFunctionOnSet(Filled, S) \in Int
        /\ \A q \in OrderIds : Filled[q] = order[q].filled /\ order[q].filled \in Nat
    BY SideType DEF PositionInv
  <2>2. Filled[o] = 0 /\ \A q \in S : Filled[q] \in Int
    BY <1>1, <2>1 DEF NoOrder
  <2> DEFINE F == Filled
  <2> HIDE DEF F
  <2>3. CASE T = S \cup {o}
    <3>1. DifferAt(o, F, S, F, T)
      BY <2>1, <2>2, <2>3 DEF DifferAt, F
    <3>2. SumFunctionOnSet(F, T) = SumFunctionOnSet(F, S) + F[o]
      BY <1>8, <3>1, SumMoves
    <3> QED
      BY <2>1, <2>2, <3>2 DEF F
  <2> QED
    BY <1>8, <2>3
<1>9. /\ Bought' = Bought \/ Bought' = Bought \cup {o}
      /\ Sold' = Sold \/ Sold' = Sold \cup {o}
      /\ o \notin Bought /\ o \notin Sold
  BY <1>1, <1>2 DEF Bought, Sold
<1>10. /\ SumFunctionOnSet(Filled, Bought') = SumFunctionOnSet(Filled, Bought)
       /\ SumFunctionOnSet(Filled, Sold') = SumFunctionOnSet(Filled, Sold)
  BY <1>8, <1>9
<1> QED
  BY <1>1, <1>4, <1>5, <1>7, <1>10 DEF PositionInv, PositionExplained

\* A fill the manager takes no longer waits; what it adds to its order, it
\* takes from the lots that wait, and it moves the position by as much.
LEMMA TakeFillBack ==
  ASSUME TypeOK, OrdersSound, BackInv, PositionInv, NEW i \in 1..Len(fills), New(i),
         TakeFill(i), UNCHANGED <<broker, fills>>
  PROVE  BackInv' /\ PositionInv'
<1> DEFINE f == fills[i]
           rec == order[f.order]
<1>1. /\ f \in [order : OrderIds, qty : FillSizes] /\ f.order \in OrderIds /\ f.qty \in Nat
      /\ rec \in Orders /\ rec # NoOrder
      /\ i \notin seenFill /\ seenFill' = seenFill \cup {i}
  <2>1. f \in [order : OrderIds, qty : FillSizes] /\ fills \in Seq([order : OrderIds, qty : FillSizes])
    BY SeqElement DEF TypeOK
  <2>2. f.order \in OrderIds /\ f.qty \in Nat
    BY FillTypes
  <2> QED
    BY <2>1, <2>2, NoOrderIsNone DEF TakeFill, New, OrdersSound
<1>2. ASSUME NEW o \in OrderIds
      PROVE  WaitingLots(o)' = WaitingLots(o) - (IF o = f.order THEN f.qty ELSE 0)
  <2> DEFINE S == Waiting(o)
             T == Waiting(o)'
             F == Sizes
  <2>1. /\ IsFiniteSet(S) /\ WaitingLots(o) \in Nat /\ F[i] = f.qty
        /\ \A j \in S : F[j] \in Int
    <3>1. /\ IsFiniteSet(S) /\ S \subseteq 1..Len(fills) /\ WaitingLots(o) \in Nat
          /\ \A j \in 1..Len(fills) : F[j] = fills[j].qty /\ fills[j].qty \in Nat
      BY LotsTypes
    <3> HIDE DEF S, F
    <3> QED
      BY <3>1
  <2>2. WaitingLots(o)' = SumFunctionOnSet(F, T) /\ WaitingLots(o) = SumFunctionOnSet(F, S)
    BY DEF WaitingLots, Sizes
  <2>3. CASE o = f.order
    <3>1. i \in S /\ T = S \ {i}
      BY <1>1, <2>3 DEF Waiting
    <3> HIDE DEF S, T, F
    <3>2. SumFunctionOnSet(F, S) = F[i] + SumFunctionOnSet(F, S \ {i})
      BY <2>1, <3>1, SumWithout
    <3>3. IsFiniteSet(S \ {i}) /\ \A j \in S \ {i} : F[j] \in Int
      BY <2>1, FS_Subset
    <3>4. SumFunctionOnSet(F, S \ {i}) \in Int
      BY <3>3, SumOfInts
    <3> QED
      BY <1>1, <2>1, <2>2, <2>3, <3>1, <3>2, <3>4
  <2>4. CASE o # f.order
    <3>1. T = S
      BY <1>1, <2>4 DEF Waiting
    <3> QED
      BY <2>1, <2>2, <2>4, <3>1
  <2> QED
    BY <2>3, <2>4
<1>3. \A o \in OrderIds : order[o].filled \in Nat /\ broker[o].filled \in Nat /\ WaitingLots(o) \in Nat
  BY LotsTypes
<1>4. CASE UNCHANGED <<order, position>>
  <2>1. BackInv'
    <3>1. seenFill' \subseteq 1..Len(fills)'
      BY <1>1 DEF BackInv
    <3>2. ASSUME NEW o \in OrderIds
          PROVE  order'[o].filled + WaitingLots(o)' <= broker'[o].filled
      <4>1. order'[o] = order[o] /\ broker'[o] = broker[o]
        BY <1>4
      <4>2. WaitingLots(o)' \in Int /\ WaitingLots(o)' <= WaitingLots(o)
        BY <1>1, <1>2, <1>3
      <4>3. order[o].filled + WaitingLots(o) <= broker[o].filled
        BY DEF BackInv
      <4> QED
        BY <1>3, <4>1, <4>2, <4>3
    <3> QED
      BY <3>1, <3>2 DEF BackInv
  <2>2. PositionInv'
    BY <1>4 DEF PositionInv, PositionExplained, Known, Bought, Sold, Filled
  <2> QED
    BY <2>1, <2>2
<1>5. CASE /\ order' = [order EXCEPT ![f.order] = FilledBy(rec, f)]
           /\ position' = position + Moved(rec, f)
  <2>0. PICK o \in OrderIds : o = f.order
    BY <1>1
  <2>1. /\ order'[o].filled = order[o].filled + f.qty /\ order'[o].req = order[o].req
        /\ order'[o] # NoOrder
        /\ \A q \in OrderIds : q # o => order'[q] = order[q]
    <3>1. /\ FilledBy(rec, f) \in Orders /\ FilledBy(rec, f).filled = rec.filled + f.qty
          /\ FilledBy(rec, f).req = rec.req
      BY <1>1, FilledByType
    <3> QED
      BY <1>1, <1>5, <2>0, <3>1, NoOrderIsNone DEF TypeOK
  <2>2. BackInv'
    <3>1. ASSUME NEW p \in OrderIds
          PROVE  order'[p].filled + WaitingLots(p)' <= broker'[p].filled
      <4> DEFINE a == order[p].filled
                 w == WaitingLots(p)
                 b == broker[p].filled
                 a1 == order'[p].filled
                 w1 == WaitingLots(p)'
                 d == IF p = o THEN f.qty ELSE 0
      <4>1. a \in Nat /\ w \in Nat /\ b \in Nat /\ d \in Nat /\ a + w <= b
        BY <1>1, <1>3 DEF BackInv
      <4>2. w1 = w - d
        BY <1>2, <2>0
      <4>3. a1 = a + d
        BY <1>3, <2>1
      <4>4. broker'[p].filled = b
        OBVIOUS
      <4> HIDE DEF a, w, b, a1, w1, d
      <4>5. a1 + w1 <= b
        BY <4>1, <4>2, <4>3
      <4> QED
        BY <4>4, <4>5 DEF a1, w1
    <3>2. seenFill' \subseteq 1..Len(fills')
      BY <1>1 DEF BackInv
    <3> QED
      BY <3>1, <3>2 DEF BackInv
  <2>3. Known' = Known /\ Bought' = Bought /\ Sold' = Sold
    BY <1>1, <2>0, <2>1 DEF Known, Bought, Sold
  <2>4. ASSUME NEW S \in {Bought, Sold}
        PROVE  /\ SumFunctionOnSet(Filled, S) \in Int
               /\ o \in S => SumFunctionOnSet(Filled', S) = SumFunctionOnSet(Filled, S) + f.qty
               /\ o \notin S => SumFunctionOnSet(Filled', S) = SumFunctionOnSet(Filled, S)
    <3> DEFINE F == Filled
               G == Filled'
               d == f.qty
    <3>1. /\ IsFiniteSet(S) /\ S \subseteq OrderIds /\ SumFunctionOnSet(F, S) \in Int
          /\ \A q \in OrderIds : F[q] = order[q].filled /\ order[q].filled \in Nat
      BY SideType DEF PositionInv
    <3>2. /\ \A q \in S : F[q] \in Int
          /\ F[o] \in Int /\ d \in Int /\ G[o] = F[o] + d
          /\ \A q \in S \ {o} : G[q] = F[q]
      <4>1. \A q \in OrderIds : G[q] = order'[q].filled
        BY DEF Filled
      <4> HIDE DEF F, G
      <4> QED
        BY <1>1, <2>1, <3>1, <4>1
    <3> HIDE DEF F, G, d
    <3>3. ASSUME o \in S PROVE SumFunctionOnSet(G, S) = SumFunctionOnSet(F, S) + d
      <4>1. S = S \cup {o}
        BY <3>3
      <4>2. MovedBy(d, o, F, S, G, S)
        BY <3>1, <3>2, <3>3, <4>1 DEF MovedBy
      <4> QED
        BY <4>2, SumMovedBy
    <3>4. ASSUME o \notin S PROVE SumFunctionOnSet(G, S) = SumFunctionOnSet(F, S)
      <4>1. \A q \in S : G[q] = F[q]
        BY <3>2, <3>4
      <4> QED
        BY <3>1, <4>1, SumUnchanged
    <3> QED
      BY <3>1, <3>3, <3>4 DEF F, G, d
  <2>5. PositionInv'
    <3>1. o \in Bought \/ o \in Sold
      BY <1>1, <2>0 DEF Bought, Sold
    <3>2. o \in Bought <=> order[o].req \in Buys
      BY <1>1, <2>0 DEF Bought
    <3>3. o \in Sold <=> order[o].req \notin Buys
      BY <1>1, <2>0 DEF Sold
    <3>4. position' = position + (IF order[o].req \in Buys THEN f.qty ELSE -f.qty)
      BY <1>5, <2>0 DEF Moved
    <3> DEFINE b == SumFunctionOnSet(Filled, Bought)
               s == SumFunctionOnSet(Filled, Sold)
               b1 == SumFunctionOnSet(Filled', Bought)
               s1 == SumFunctionOnSet(Filled', Sold)
    <3>5. /\ b \in Int /\ s \in Int
          /\ b1 = b + (IF order[o].req \in Buys THEN f.qty ELSE 0)
          /\ s1 = s + (IF order[o].req \in Buys THEN 0 ELSE f.qty)
      BY <2>4, <3>2, <3>3
    <3>6. position = b - s
      BY DEF PositionInv, PositionExplained
    <3> HIDE DEF b, s, b1, s1
    <3>7. position' = b1 - s1
      BY <1>1, <3>4, <3>5, <3>6
    <3> QED
      BY <2>3, <3>7 DEF PositionInv, PositionExplained, b1, s1
  <2> QED
    BY <2>2, <2>5
<1> QED
  BY <1>4, <1>5 DEF TakeFill

\* The broker fills: the fill waits until the manager has seen it.
LEMMA BrokerFillsBack ==
  ASSUME TypeOK, BackInv, PositionInv, NEW o \in OrderIds, NEW q \in FillSizes,
         BrokerFills(o, q)
  PROVE  BackInv' /\ PositionInv'
<1> DEFINE new == [order |-> o, qty |-> q]
           n == Len(fills) + 1
<1>1. /\ q \in Nat /\ fills' = Append(fills, new)
      /\ fills \in Seq([order : OrderIds, qty : FillSizes]) /\ Len(fills) \in Nat
      /\ UNCHANGED <<order, seenFill, position>>
      /\ broker'[o].filled = broker[o].filled + q
      /\ \A p \in OrderIds : p # o => broker'[p] = broker[p]
      /\ new.order = o /\ new.qty = q
  BY FillsAssumption DEF BrokerFills, managerVars, TypeOK
<1> HIDE DEF new
<1>2. /\ Len(fills') = n /\ \A i \in 1..Len(fills) : fills'[i] = fills[i]
      /\ fills'[n] = new /\ n \notin 1..Len(fills) /\ 1..n = 1..Len(fills) \cup {n}
      /\ n \notin seenFill
  BY <1>1 DEF BackInv
<1> HIDE DEF n
<1>3. ASSUME NEW p \in OrderIds
      PROVE  WaitingLots(p)' = WaitingLots(p) + (IF p = o THEN q ELSE 0)
  <2> DEFINE S == Waiting(p)
             T == Waiting(p)'
             F == Sizes
             G == Sizes'
  <2>1. /\ IsFiniteSet(S) /\ WaitingLots(p) \in Nat /\ n \notin S
        /\ \A j \in S : F[j] \in Int /\ G[j] = F[j]
        /\ G[n] = q
    <3>1. /\ IsFiniteSet(S) /\ S \subseteq 1..Len(fills) /\ WaitingLots(p) \in Nat
          /\ \A j \in 1..Len(fills) : F[j] = fills[j].qty /\ fills[j].qty \in Nat
      BY LotsTypes
    <3>2. \A j \in 1..n : G[j] = fills'[j].qty
      BY <1>2 DEF Sizes
    <3> HIDE DEF S, F, G
    <3> QED
      BY <1>1, <1>2, <3>1, <3>2
  <2>2. WaitingLots(p)' = SumFunctionOnSet(G, T) /\ WaitingLots(p) = SumFunctionOnSet(F, S)
    BY DEF WaitingLots
  <2>3. CASE p = o
    <3>1. T = S \cup {n}
      BY <1>1, <1>2, <2>3 DEF Waiting
    <3> HIDE DEF S, T, F, G
    <3>2. DifferAt(n, F, S, G, T)
      BY <1>1, <2>1, <3>1 DEF DifferAt
    <3>3. SumFunctionOnSet(G, T) = SumFunctionOnSet(F, S) + G[n]
      BY <2>1, <3>2, SumMoves
    <3> QED
      BY <2>1, <2>2, <2>3, <3>3
  <2>4. CASE p # o
    <3>1. T = S
      BY <1>1, <1>2, <2>4 DEF Waiting
    <3> HIDE DEF S, T, F, G
    <3>2. SumFunctionOnSet(F, S) = SumFunctionOnSet(G, S)
      BY <2>1, SumUnchanged
    <3> QED
      BY <2>1, <2>2, <2>4, <3>1, <3>2
  <2> QED
    BY <2>3, <2>4
<1>4. BackInv'
  <2>1. \A p \in OrderIds : order[p].filled \in Nat /\ broker[p].filled \in Nat /\ WaitingLots(p) \in Nat
    BY LotsTypes
  <2>2. seenFill' \subseteq 1..Len(fills')
    BY <1>1, <1>2 DEF BackInv
  <2>3. ASSUME NEW p \in OrderIds
        PROVE  order'[p].filled + WaitingLots(p)' <= broker'[p].filled
    <3> DEFINE a == order[p].filled
               w == WaitingLots(p)
               b == broker[p].filled
               w1 == WaitingLots(p)'
               b1 == broker'[p].filled
               d == IF p = o THEN q ELSE 0
    <3>1. a \in Nat /\ w \in Nat /\ b \in Nat /\ d \in Nat /\ a + w <= b
      BY <1>1, <2>1 DEF BackInv
    <3>2. w1 = w + d
      BY <1>3
    <3>3. b1 = b + d
      BY <1>1, <2>1
    <3>4. order'[p].filled = a
      BY <1>1
    <3> HIDE DEF a, w, b, w1, b1, d
    <3>5. a + w1 <= b1
      BY <3>1, <3>2, <3>3
    <3> QED
      BY <3>4, <3>5 DEF w1, b1
  <2> QED
    BY <2>2, <2>3 DEF BackInv
<1>5. PositionInv'
  BY <1>1 DEF PositionInv, PositionExplained, Known, Bought, Sold, Filled
<1> QED
  BY <1>4, <1>5

\* The broker's answers change what an order is, not what it was filled.
LEMMA BrokerMoves ==
  ASSUME TypeOK, NEW o \in OrderIds, NEW st, broker' = [broker EXCEPT ![o].state = st]
  PROVE  /\ broker'[o].state = st /\ broker'[o].filled = broker[o].filled
         /\ \A p \in OrderIds : p # o => broker'[p] = broker[p]
         /\ \A p \in OrderIds : broker'[p].filled = broker[p].filled
<1>1. /\ broker'[o] = [broker[o] EXCEPT !.state = st]
      /\ \A p \in OrderIds : p # o => broker'[p] = broker[p]
  BY DEF TypeOK
<1>2. broker[o] \in [state : {"none", "working", "done", "cancelled"}, filled : Nat]
  BY DEF TypeOK
<1>3. broker'[o].state = st /\ broker'[o].filled = broker[o].filled
  BY <1>1, <1>2
<1> QED
  BY <1>1, <1>3

\* Every step of the manager and of the broker keeps both.
LEMMA StepBack ==
  ASSUME ManagerInv, BackInv, PositionInv, [Next]_vars
  PROVE  BackInv' /\ PositionInv'
<1> USE DEF At
<1>0. TypeOK /\ OrdersSound /\ TasksSound
  BY DEF ManagerInv
<1>1. ASSUME SameCounts PROVE BackInv' /\ PositionInv'
  BY <1>0, <1>1, SameCountsBack
<1>2. ASSUME UNCHANGED <<order, seenFill, position, broker, fills>> PROVE SameCounts
  BY <1>2 DEF SameCounts
<1>3. CASE UNCHANGED vars
  BY <1>1, <1>2, <1>3 DEF vars
<1>4. CASE \E i \in 1..MaxFills : OnFill(i)
  BY <1>0, <1>4, TakeFillBack DEF OnFill, brokerVars
<1>5. CASE \E o \in OrderIds, q \in FillSizes : BrokerFills(o, q)
  BY <1>0, <1>5, BrokerFillsBack
<1>13. CASE \E o \in OrderIds : CancelLands(o)
  <2>1. PICK o \in OrderIds : CancelLands(o)
    BY <1>13
  <2>2. \A p \in OrderIds : broker'[p].filled = broker[p].filled
    BY <1>0, <2>1, BrokerMoves DEF CancelLands
  <2> QED
    BY <1>1, <2>1, <2>2 DEF CancelLands, managerVars, SameCounts
<1>6. ASSUME NEW t \in Tasks,
             \/ \E r \in Requests : Submit(t, r)
             \/ \E kill \in BOOLEAN : Reconcile(t, kill)
             \/ \E o \in OrderIds : Cancel(t, o)
             \/ RiskRefuses(t) \/ GetFills(t) \/ ReconcileEnds(t) \/ CancelRaises(t)
      PROVE  BackInv' /\ PositionInv'
  BY <1>1, <1>2, <1>6
  DEF Submit, Reconcile, Cancel, RiskRefuses, GetFills, ReconcileEnds, CancelRaises,
      managerVars, brokerVars
<1>7. ASSUME NEW t \in Tasks, NEW o \in OrderIds, RiskAccepts(t, o)
      PROVE  BackInv' /\ PositionInv'
  BY <1>0, <1>7, AcceptBack
<1>8. ASSUME NEW o \in OrderIds, NEW rec, order[o] \in Orders, rec \in Orders,
             rec.req = order[o].req, rec.filled = order[o].filled,
             order' = [order EXCEPT ![o] = rec],
             UNCHANGED <<seenFill, position, broker, fills>>
      PROVE  BackInv' /\ PositionInv'
  <2>1. order'[o] = rec /\ \A q \in OrderIds : q # o => order'[q] = order[q]
    BY <1>0, <1>8 DEF TypeOK
  <2>2. SameCounts
    BY <1>8, <2>1, NoOrderIsNone DEF SameCounts
  <2> QED
    BY <1>1, <2>2
<1>9. ASSUME NEW t \in Tasks, Submitted(t) \/ SubmitRaises(t)
      PROVE  BackInv' /\ PositionInv'
  <2> DEFINE o == task[t].order
             linked == [order[o] EXCEPT !.linked = TRUE]
             rejected == [order[o] EXCEPT !.status = "rejected"]
  <2>1. o \in OrderIds /\ order[o] \in Orders
    BY <1>0, <1>9 DEF Submitted, SubmitRaises, TasksSound, SoundAt
  <2>2. \A rec \in {linked, rejected} :
          rec \in Orders /\ rec.req = order[o].req /\ rec.filled = order[o].filled
    BY <2>1 DEF Orders, Status
  <2>3. order' = [order EXCEPT ![o] = linked] \/ order' = [order EXCEPT ![o] = rejected]
    BY <1>9 DEF Submitted, SubmitRaises
  <2>4. UNCHANGED <<seenFill, position, broker, fills>>
    BY <1>9 DEF Submitted, SubmitRaises, brokerVars
  <2> HIDE DEF o, linked, rejected
  <2> QED
    BY <1>8, <2>1, <2>2, <2>3, <2>4
<1>10. ASSUME NEW t \in Tasks, CancelReturns(t) \/ KillContinues(t)
       PROVE  BackInv' /\ PositionInv'
  <2>1. /\ task[t].pc = "answered" /\ order' = AfterCancel(t)
        /\ UNCHANGED <<seenFill, position, broker, fills>>
    BY <1>10 DEF CancelReturns, KillContinues, brokerVars
  <2>2. \A o \in OrderIds :
          /\ order'[o] \in Orders <=> order[o] \in Orders
          /\ order'[o].req = order[o].req /\ order'[o].filled = order[o].filled
    BY <2>1, AfterCancelSound
  <2>3. order' \in [OrderIds -> Orders \cup {NoOrder}] /\ order \in [OrderIds -> Orders \cup {NoOrder}]
    BY <1>0, <2>1, AfterCancelSound DEF TypeOK
  <2>4. SameCounts
    BY <2>1, <2>2, <2>3, NoOrderIsNone DEF SameCounts
  <2> QED
    BY <1>1, <2>4
<1>11. ASSUME NEW t \in Tasks, BrokerAccepts(t) \/ BrokerCancels(t)
       PROVE  BackInv' /\ PositionInv'
  <2>1. task[t].order \in OrderIds
    BY <1>0, <1>11 DEF BrokerAccepts, BrokerCancels, TasksSound, SoundAt
  <2>2. /\ UNCHANGED <<order, seenFill, position, fills>>
        /\ \A o \in OrderIds : broker'[o].filled = broker[o].filled
    <3>1. UNCHANGED <<order, seenFill, position, fills>>
      BY <1>11 DEF BrokerAccepts, BrokerCancels, managerVars
    <3>2. \/ broker' = broker
          \/ \E st \in {"working", "cancelled"} :
               broker' = [broker EXCEPT ![task[t].order].state = st]
      BY <1>11 DEF BrokerAccepts, BrokerCancels
    <3>3. ASSUME NEW st \in {"working", "cancelled"}, NEW o \in OrderIds,
                 broker' = [broker EXCEPT ![task[t].order].state = st]
          PROVE  broker'[o].filled = broker[o].filled
      BY <1>0, <2>1, <3>3, BrokerMoves
    <3> QED
      BY <3>1, <3>2, <3>3
  <2>3. SameCounts
    BY <2>2 DEF SameCounts
  <2> QED
    BY <1>1, <2>3
<1>12. ASSUME NEW t \in Tasks, ApplyFill(t) PROVE BackInv' /\ PositionInv'
  <2> DEFINE i == task[t].at + 1
  <2>1. i \in 1..Len(fills)
    <3>1. /\ task[t].at \in Nat /\ task[t].upto \in Nat
          /\ task[t].upto <= Len(fills) /\ Len(fills) \in Nat
      BY <1>0 DEF TaskStates, TasksSound, SoundAt, TypeOK
    <3> QED
      BY <1>12, <3>1 DEF ApplyFill
  <2>2. /\ (New(i) /\ TakeFill(i)) \/ UNCHANGED managerVars
        /\ UNCHANGED <<broker, fills>>
    BY <1>12 DEF ApplyFill, brokerVars
  <2> HIDE DEF i
  <2>3. CASE New(i) /\ TakeFill(i)
    BY <1>0, <2>1, <2>2, <2>3, TakeFillBack
  <2>4. CASE UNCHANGED managerVars
    BY <1>1, <1>2, <2>2, <2>4 DEF managerVars
  <2> QED
    BY <2>2, <2>3, <2>4
<1> QED
  BY <1>3, <1>4, <1>5, <1>6, <1>7, <1>9, <1>10, <1>11, <1>12, <1>13 DEF Next, Step

\* However callbacks, reconciliations, answers and failures interleave, and
\* whatever the broker reports twice, no order of the manager claims lots that
\* the broker did not fill (manager.py:199-201).
THEOREM FillsCountOnce == Spec => []FilledIsBacked
<1> DEFINE Inv == ManagerInv /\ BackInv /\ PositionInv
<1>1. Init => Inv
  BY InitManagerInv, InitBackInv
<1>2. Inv /\ [Next]_vars => Inv'
  BY StepManagerInv, StepBack
<1>3. Inv => FilledIsBacked
  <2> SUFFICES ASSUME Inv, NEW o \in OrderIds PROVE order[o].filled <= broker[o].filled
    BY DEF FilledIsBacked
  <2> DEFINE a == order[o].filled
             w == WaitingLots(o)
             b == broker[o].filled
  <2>1. a \in Nat /\ w \in Nat /\ b \in Nat /\ a + w <= b
    BY LotsTypes DEF ManagerInv, BackInv
  <2> HIDE DEF a, w, b
  <2>2. a <= b
    BY <2>1
  <2> QED
    BY <2>2 DEF a, b
<1> QED
  BY <1>1, <1>2, <1>3, PTL DEF Spec

\* The position is what the orders were filled, buys less sells, through every
\* partial, repeated and refused fill (inventory.py:23-79).
THEOREM PositionTellsOfOrders == Spec => []PositionExplained
<1> DEFINE Inv == ManagerInv /\ BackInv /\ PositionInv
<1>1. Init => Inv
  BY InitManagerInv, InitBackInv
<1>2. Inv /\ [Next]_vars => Inv'
  BY StepManagerInv, StepBack
<1>3. Inv => PositionExplained
  BY DEF PositionInv
<1> QED
  BY <1>1, <1>2, <1>3, PTL DEF Spec

-----------------------------------------------------------------------------
(* What a status says of the broker's side *)

\* The states of a task in which its order is on the way to the broker.
Sends(x, o) == x.pc \in {"sending", "sent"} /\ x.order = o

\* One task sends an order, which the broker has as soon as it was sent.
SendInv ==
  \A t \in Tasks, o \in OrderIds :
    Sends(task[t], o) =>
      /\ ~order[o].linked /\ order[o].status # "rejected"
      /\ task[t].pc = "sending" <=> broker[o].state = "none"
      /\ \A u \in Tasks : Sends(task[u], o) => u = t

\* An order that works and that no adapter has been asked in vain to cancel.
Stands(o) == broker[o].state = "working" /\ o \notin doubtful

\* An order the broker still works or cancelled lacks lots; one with a broker id
\* is the broker's; one called filled or rejected is just that, and one called
\* cancelled was asked to be.
StatusTrue(o) ==
  /\ broker[o].state = "none" => broker[o].filled = 0
  /\ broker[o].state \in {"working", "cancelled"} =>
       broker[o].filled < Quantity[order[o].req]
  /\ order[o].linked => broker[o].state # "none"
  /\ order[o].status = "cancelled" => order[o].linked /\ ~ Stands(o)
  /\ order[o].status = "filled" => order[o].filled >= Quantity[order[o].req]
  /\ order[o].status = "rejected" => ~order[o].linked

StatusInv == \A o \in OrderIds : StatusTrue(o)

\* Adapters that say yes to no cancellation but one they carried out.
Careful == Adapters \subseteq {"paper", "ccxt"}

\* The broker's yes to a cancellation stays true until it is read.
AnswerTrue(x) ==
  x.pc = "answered" /\ x.reply =>
    ~ Stands(x.order) /\ (Careful => broker[x.order].state = "cancelled")

AnswerInv == \A t \in Tasks : AnswerTrue(task[t])

CareInv == SendInv /\ StatusInv /\ AnswerInv

\* At first no order is on its way.
LEMMA InitCareInv == Init => CareInv
  BY DEF Init, CareInv, SendInv, Sends, StatusInv, StatusTrue, AnswerInv, AnswerTrue,
         Idle, NoOrder

\* An order of which neither side changed keeps its true status.
LEMMA StatusStays ==
  ASSUME NEW o \in OrderIds, StatusTrue(o), order'[o] = order[o], broker'[o] = broker[o],
         o \in doubtful => o \in doubtful'
  PROVE  StatusTrue(o)'
  BY DEF StatusTrue, Stands

\* The tasks that send after a step sent before it, orders nobody disturbed.
LEMMA SendStays ==
  ASSUME SendInv,
         \A u \in Tasks, o \in OrderIds :
           Sends(task'[u], o) =>
             /\ task'[u] = task[u]
             /\ ~order'[o].linked /\ order'[o].status # "rejected"
             /\ broker'[o].state = "none" <=> broker[o].state = "none"
  PROVE  SendInv'
  BY DEF SendInv, Sends

\* Nothing ends the broker's cancellation of an order.
LEMMA AnswerStays ==
  ASSUME TasksSound, AnswerInv,
         \A o \in Linked :
           /\ broker[o].state = "cancelled" => broker'[o].state = "cancelled"
           /\ ~ Stands(o) => ~ Stands(o)',
         \A u \in Tasks : task'[u] = task[u] \/ task'[u].pc # "answered"
  PROVE  AnswerInv'
<1> SUFFICES ASSUME NEW u \in Tasks, task'[u].pc = "answered", task'[u].reply
             PROVE  /\ ~ Stands(task[u].order)'
                    /\ Careful => broker'[task'[u].order].state = "cancelled"
  BY DEF AnswerInv, AnswerTrue, Careful
<1>1. task'[u] = task[u]
  OBVIOUS
<1>2. PICK o \in Linked : o = task[u].order
  BY <1>1 DEF TasksSound, SoundAt, Linked
<1>3. ~ Stands(o) /\ (Careful => broker[o].state = "cancelled")
  BY <1>1, <1>2 DEF AnswerInv, AnswerTrue
<1>4. ~ Stands(o)' /\ (Careful => broker'[o].state = "cancelled")
  BY <1>2, <1>3 DEF Stands
<1> QED
  BY <1>1, <1>2, <1>4 DEF Stands

\* A step that leaves the orders alone and sends none of them.
LEMMA QuietCare ==
  ASSUME TasksSound, CareInv, UNCHANGED <<order, broker, doubtful>>,
         \A u \in Tasks : task'[u] = task[u] \/ task'[u].pc \notin {"sending", "sent", "answered"}
  PROVE  CareInv'
<1>1. SendInv'
  <2>1. \A u \in Tasks, o \in OrderIds : Sends(task'[u], o) =>
          task'[u] = task[u] /\ Sends(task[u], o)
    BY DEF Sends
  <2> QED
    BY <2>1, SendStays DEF CareInv, SendInv
<1>2. StatusInv'
  BY StatusStays DEF CareInv, StatusInv
<1>3. AnswerInv'
  BY AnswerStays DEF CareInv, Stands, Linked
<1> QED
  BY <1>1, <1>2, <1>3 DEF CareInv

\* A changed record of one order, sent by nobody who stays.
LEMMA RecordCare ==
  ASSUME ManagerInv, CareInv, NEW o \in OrderIds, NEW rec,
         order' = [order EXCEPT ![o] = rec], UNCHANGED <<broker, doubtful>>,
         StatusTrue(o)',
         \A u \in Tasks : task'[u] = task[u] \/ task'[u].pc \notin {"sending", "sent", "answered"},
         \/ \A u \in Tasks : ~ Sends(task'[u], o)
         \/ rec.linked = order[o].linked /\ rec.status # "rejected"
  PROVE  CareInv'
<1>1. order'[o] = rec /\ \A q \in OrderIds : q # o => order'[q] = order[q]
  BY DEF ManagerInv, TypeOK
<1>2. SendInv'
  <2>1. \A u \in Tasks, q \in OrderIds : Sends(task'[u], q) =>
          task'[u] = task[u] /\ Sends(task[u], q)
    BY DEF Sends
  <2> QED
    BY <1>1, <2>1, SendStays DEF CareInv, SendInv
<1>3. StatusInv'
  BY <1>1, StatusStays DEF CareInv, StatusInv
<1>4. AnswerInv'
  BY AnswerStays DEF CareInv, ManagerInv, Stands, Linked
<1> QED
  BY <1>2, <1>3, <1>4 DEF CareInv

\* The steps of submit.
LEMMA SubmitCare ==
  ASSUME ManagerInv, CareInv, NEW t \in Tasks,
         \/ \E o \in OrderIds : RiskAccepts(t, o)
         \/ Submitted(t) \/ SubmitRaises(t) \/ BrokerAccepts(t)
  PROVE  CareInv'
<1> USE DEF At
<1>0. /\ TypeOK /\ OrdersSound /\ TasksSound /\ SoundAt(task[t], order, Len(fills))
      /\ task[t] \in TaskStates /\ Idle.pc = "idle"
      /\ task \in [Tasks -> TaskStates] /\ order \in [OrderIds -> Orders \cup {NoOrder}]
  BY DEF ManagerInv, TasksSound, TypeOK, Idle
<1>1. ASSUME NEW o \in OrderIds, RiskAccepts(t, o) PROVE CareInv'
  <2> DEFINE new == [req |-> task[t].req, status |-> "submitted", filled |-> 0,
                     linked |-> FALSE]
             x == [task[t] EXCEPT !.pc = "sending", !.order = o]
  <2>1. /\ order' = [order EXCEPT ![o] = new] /\ order[o] = NoOrder
        /\ task' = [task EXCEPT ![t] = x] /\ UNCHANGED <<broker, doubtful>>
    BY <1>0, <1>1 DEF RiskAccepts, brokerVars, histories
  <2>2. x.pc = "sending" /\ x.order = o
    BY <1>0 DEF TaskStates
  <2>3. new.status = "submitted" /\ ~new.linked
    OBVIOUS
  <2> HIDE DEF new, x
  <2>4. /\ order'[o] = new /\ \A q \in OrderIds : q # o => order'[q] = order[q]
        /\ task'[t] = x /\ \A u \in Tasks : u # t => task'[u] = task[u]
    BY <1>0, <2>1
  <2>5. broker[o].state = "none" /\ \A u \in Tasks : ~ Sends(task[u], o)
    BY <1>0, <2>1, NoOrderIsNone DEF OrdersSound, TasksSound, SoundAt, Sends
  <2>6. SendInv'
    <3>1. \A q \in OrderIds : Sends(task'[t], q) => q = o
      BY <2>2, <2>4 DEF Sends
    <3>2. \A u \in Tasks : ~ Sends(task'[u], o) \/ u = t
      BY <2>4, <2>5
    <3> QED
      BY <2>1, <2>2, <2>3, <2>4, <2>5, <3>1, <3>2 DEF CareInv, SendInv
  <2>7. StatusTrue(o)'
    BY <2>1, <2>3, <2>4, <2>5 DEF CareInv, StatusInv, StatusTrue
  <2>8. StatusInv'
    BY <2>1, <2>4, <2>7, StatusStays DEF CareInv, StatusInv
  <2>9. AnswerInv'
    BY <1>0, <2>1, <2>2, <2>4, AnswerStays DEF CareInv, Stands, Linked
  <2> QED
    BY <2>6, <2>8, <2>9 DEF CareInv
<1>2. ASSUME Submitted(t) \/ SubmitRaises(t) PROVE CareInv'
  <2> DEFINE linked == [order[task[t].order] EXCEPT !.linked = TRUE]
             rejected == [order[task[t].order] EXCEPT !.status = "rejected"]
  <2>1. PICK o \in OrderIds : o = task[t].order /\ order[o] \in Orders /\ Sends(task[t], o)
    BY <1>0, <1>2 DEF Submitted, SubmitRaises, SoundAt, Sends
  <2>2. /\ linked.linked = TRUE /\ linked.status = order[o].status
        /\ linked.filled = order[o].filled /\ linked.req = order[o].req
        /\ rejected.linked = order[o].linked /\ rejected.status = "rejected"
        /\ rejected.filled = order[o].filled /\ rejected.req = order[o].req
    BY <2>1 DEF Orders
  <2>9. ~ order[o].linked /\ (task[t].pc = "sent" => broker[o].state # "none")
    BY <2>1 DEF CareInv, SendInv, Sends
  <2>10. linked # rejected
    BY <2>2, <2>9
  <2>3. PICK rec \in {linked, rejected} :
          /\ order' = [order EXCEPT ![o] = rec]
          /\ rec = linked => task[t].pc = "sent"
    BY <1>2, <2>1, <2>10 DEF Submitted, SubmitRaises
  <2>4. task' = [task EXCEPT ![t] = Idle] /\ UNCHANGED <<broker, doubtful>>
    BY <1>2 DEF Submitted, SubmitRaises, Done, brokerVars, histories
  <2> HIDE DEF linked, rejected
  <2>5. order'[o] = rec /\ task'[t] = Idle /\ \A u \in Tasks : u # t => task'[u] = task[u]
    BY <1>0, <2>3, <2>4
  <2>6. StatusTrue(o)'
    BY <2>1, <2>2, <2>3, <2>4, <2>5, <2>9
    DEF CareInv, SendInv, StatusInv, StatusTrue, Stands
  <2>7. \A u \in Tasks : ~ Sends(task'[u], o)
    BY <1>0, <2>1, <2>5 DEF CareInv, SendInv, Sends
  <2> QED
    BY <1>0, <2>3, <2>4, <2>5, <2>6, <2>7, RecordCare
<1>3. ASSUME BrokerAccepts(t) PROVE CareInv'
  <2> DEFINE x == [task[t] EXCEPT !.pc = "sent"]
  <2>1. PICK o \in OrderIds : o = task[t].order /\ order[o] \in Orders /\ Sends(task[t], o)
    BY <1>0, <1>3 DEF BrokerAccepts, SoundAt, Sends
  <2>2. /\ broker' = [broker EXCEPT ![o].state = "working"]
        /\ task' = [task EXCEPT ![t] = x] /\ UNCHANGED <<order, doubtful>>
        /\ task[t].pc = "sending"
    BY <1>0, <1>3, <2>1 DEF BrokerAccepts, Goto, managerVars, histories
  <2>3. x.pc = "sent" /\ x.order = o
    BY <1>0, <2>1 DEF TaskStates
  <2> HIDE DEF x
  <2>4. /\ broker'[o].state = "working" /\ broker'[o].filled = broker[o].filled
        /\ \A q \in OrderIds : q # o => broker'[q] = broker[q]
    BY <1>0, <2>2, BrokerMoves
  <2>5. task'[t] = x /\ \A u \in Tasks : u # t => task'[u] = task[u]
    BY <1>0, <2>2
  <2>6. /\ broker[o].state = "none" /\ ~order[o].linked /\ order[o].status # "rejected"
        /\ \A u \in Tasks : Sends(task[u], o) => u = t
    BY <2>1, <2>2 DEF CareInv, SendInv
  <2>7. SendInv'
    <3>1. \A q \in OrderIds : Sends(task'[t], q) => q = o
      BY <2>3, <2>5 DEF Sends
    <3>2. \A u \in Tasks : ~ Sends(task'[u], o) \/ u = t
      BY <2>5, <2>6
    <3> QED
      BY <2>2, <2>3, <2>4, <2>5, <2>6, <3>1, <3>2 DEF CareInv, SendInv
  <2>8. Quantity[order[o].req] \in Nat \ {0}
    BY <2>1, QuantityAssumption DEF Orders
  <2>9. StatusTrue(o)'
    BY <2>2, <2>4, <2>6, <2>8 DEF CareInv, StatusInv, StatusTrue
  <2>10. StatusInv'
    BY <2>2, <2>4, <2>9, StatusStays DEF CareInv, StatusInv
  <2>11. AnswerInv'
    BY <1>0, <2>2, <2>3, <2>4, <2>5, <2>6, AnswerStays DEF CareInv, Stands, Linked
  <2> QED
    BY <2>7, <2>10, <2>11 DEF CareInv
<1> QED
  BY <1>1, <1>2, <1>3

\* A fill, counted or refused.
LEMMA TakeFillCare ==
  ASSUME ManagerInv, CareInv, NEW i \in 1..Len(fills), TakeFill(i),
         UNCHANGED <<broker, doubtful>>,
         \A u \in Tasks : task'[u] = task[u] \/ task'[u].pc \notin {"sending", "sent", "answered"}
  PROVE  CareInv'
<1> DEFINE f == fills[i]
           rec == order[f.order]
<1>1. f \in [order : OrderIds, qty : FillSizes] /\ f.order \in OrderIds /\ f.qty \in Nat
      /\ rec \in Orders
  <2>1. f \in [order : OrderIds, qty : FillSizes] /\ fills \in Seq([order : OrderIds, qty : FillSizes])
    BY SeqElement DEF ManagerInv, TypeOK
  <2> QED
    BY <2>1, FillTypes DEF ManagerInv, OrdersSound
<1>2. CASE UNCHANGED order
  BY <1>2, QuietCare DEF ManagerInv
<1>3. CASE order' = [order EXCEPT ![f.order] = FilledBy(rec, f)]
  <2>1. PICK o \in OrderIds : o = f.order
    BY <1>1
  <2>2. PICK new : new = FilledBy(rec, f)
    OBVIOUS
  <2>3. /\ new.linked = order[o].linked /\ new.req = order[o].req
        /\ new.filled = order[o].filled + f.qty
        /\ new.status = IF order[o].filled + f.qty >= Quantity[order[o].req]
                          THEN "filled" ELSE "partially_filled"
    BY <1>1, <2>1, <2>2 DEF FilledBy, Orders
  <2>4. order' = [order EXCEPT ![o] = new] /\ order'[o] = new
    BY <1>3, <2>1, <2>2 DEF ManagerInv, TypeOK
  <2>5. StatusTrue(o)'
    BY <2>3, <2>4 DEF CareInv, StatusInv, StatusTrue
  <2> QED
    BY <2>3, <2>4, <2>5, RecordCare
<1> QED
  BY <1>2, <1>3 DEF TakeFill

\* The broker's fill completes an order or leaves lots to be filled.
LEMMA BrokerFillsCare ==
  ASSUME ManagerInv, CareInv, NEW o \in OrderIds, NEW q \in FillSizes, BrokerFills(o, q)
  PROVE  CareInv'
<1> DEFINE all == broker[o].filled + q
           ordered == Quantity[order[o].req]
           st == IF all >= ordered THEN "done" ELSE broker[o].state
           new == [broker[o] EXCEPT !.filled = all, !.state = st]
<1>1. /\ broker[o].state = "working" /\ UNCHANGED <<order, task>>
      /\ broker' = [broker EXCEPT ![o] = new]
      /\ broker[o] \in [state : {"none", "working", "done", "cancelled"}, filled : Nat]
  BY DEF BrokerFills, managerVars, ManagerInv, TypeOK
<1>12. doubtful' = IF all >= ordered THEN doubtful \ {o} ELSE doubtful
  BY DEF BrokerFills
<1>2. order[o] \in Orders
  BY <1>1 DEF ManagerInv, OrdersSound
<1>3. ordered \in Nat /\ all \in Nat
  <2>1. order[o].req \in Requests
    BY <1>2 DEF Orders
  <2> QED
    BY <1>1, <2>1, QuantityAssumption, FillsAssumption
<1>4. new.filled = all /\ new.state = st
  BY <1>1
<1>5. st = IF all >= ordered THEN "done" ELSE "working"
  BY <1>1
<1> HIDE DEF new, all, ordered, st
<1>6. broker'[o] = new /\ \A p \in OrderIds : p # o => broker'[p] = broker[p]
  BY <1>1 DEF ManagerInv, TypeOK
<1>7. new.state \in {"done", "working"} /\ (new.state = "working" => new.filled < ordered)
  BY <1>3, <1>4, <1>5
<1>13. /\ \A p \in OrderIds : ~ Stands(p) => ~ Stands(p)'
       /\ \A p \in OrderIds : p # o /\ p \in doubtful => p \in doubtful'
  BY <1>1, <1>4, <1>5, <1>6, <1>12 DEF Stands
<1>8. StatusTrue(o)'
  BY <1>1, <1>6, <1>7, <1>13 DEF CareInv, StatusInv, StatusTrue, ordered
<1>9. SendInv'
  BY <1>1, <1>6, <1>7, SendStays DEF CareInv, SendInv
<1>10. StatusInv'
  BY <1>1, <1>6, <1>8, <1>13, StatusStays DEF CareInv, StatusInv
<1>11. AnswerInv'
  BY <1>1, <1>6, <1>13, AnswerStays DEF CareInv, ManagerInv, Linked
<1> QED
  BY <1>9, <1>10, <1>11 DEF CareInv

\* A cancellation that lands ends an order whose cancellation was asked.
LEMMA CancelLandsCare ==
  ASSUME ManagerInv, CareInv, NEW o \in OrderIds, CancelLands(o)
  PROVE  CareInv'
<1>1. /\ broker[o].state = "working" /\ UNCHANGED <<order, task>>
      /\ broker' = [broker EXCEPT ![o].state = "cancelled"]
      /\ doubtful' = doubtful \ {o}
  BY DEF CancelLands, managerVars
<1>2. /\ broker'[o].state = "cancelled" /\ broker'[o].filled = broker[o].filled
      /\ \A p \in OrderIds : p # o => broker'[p] = broker[p]
  BY <1>1, BrokerMoves DEF ManagerInv
<1>3. \A p \in OrderIds : ~ Stands(p) => ~ Stands(p)'
  BY <1>1, <1>2 DEF Stands
<1>4. SendInv'
  BY <1>1, <1>2, SendStays DEF CareInv, SendInv
<1>5. StatusInv'
  <2>1. StatusTrue(o)'
    BY <1>1, <1>2, <1>3 DEF CareInv, StatusInv, StatusTrue
  <2> QED
    BY <1>1, <1>2, <2>1, StatusStays DEF CareInv, StatusInv
<1>6. AnswerInv'
  BY <1>1, <1>2, <1>3, AnswerStays DEF CareInv, ManagerInv, Linked
<1> QED
  BY <1>4, <1>5, <1>6 DEF CareInv

\* The adapter does with the order what it does, and the task has its answer.
LEMMA BrokerCancelsDoes ==
  ASSUME ManagerInv, NEW t \in Tasks, BrokerCancels(t)
  PROVE  \E o \in OrderIds, x \in TaskStates :
           /\ o = task[t].order /\ order[o].linked /\ UNCHANGED order
           /\ task' = [task EXCEPT ![t] = x] /\ task[t].pc = "cancel"
           /\ x.pc = "answered" /\ x.order = o /\ x.aim = task[t].aim /\ x.at = task[t].at
           /\ x.reply /\ Careful => broker'[o].state = "cancelled"
           /\ \A p \in OrderIds : p # o =>
                broker'[p] = broker[p] /\ (p \in doubtful' <=> p \in doubtful)
           /\ broker'[o].filled = broker[o].filled
           /\ broker[o].state # "working" => broker'[o] = broker[o]
           /\ broker[o].state = "working" => broker'[o].state \in {"working", "cancelled"}
           /\ ~ Stands(o)'
<1>1. PICK o \in OrderIds : o = task[t].order
  BY DEF BrokerCancels, ManagerInv, TasksSound, SoundAt
<1> DEFINE works == broker[o].state = "working"
<1>2. PICK a \in Adapters, yes \in BOOLEAN, done \in BOOLEAN :
        /\ Answers(a, works, yes, done)
        /\ task' = [task EXCEPT ![t].pc = "answered", ![t].reply = yes]
        /\ broker' = IF done THEN [broker EXCEPT ![o].state = "cancelled"] ELSE broker
        /\ doubtful' = IF works /\ ~done THEN doubtful \cup {o} ELSE doubtful \ {o}
  BY <1>1 DEF BrokerCancels
<1> DEFINE x == [task[t] EXCEPT !.pc = "answered", !.reply = yes]
<1>3. /\ task \in [Tasks -> TaskStates] /\ task[t].pc = "cancel" /\ order[o].linked
      /\ UNCHANGED order
  BY <1>1 DEF BrokerCancels, managerVars, ManagerInv, TypeOK, TasksSound, SoundAt
<1>4. /\ x \in TaskStates /\ x.pc = "answered" /\ x.order = o /\ x.reply = yes
      /\ x.aim = task[t].aim /\ x.at = task[t].at /\ task' = [task EXCEPT ![t] = x]
  BY <1>1, <1>2, <1>3 DEF TaskStates, Places
<1>5. done => works
  BY <1>2 DEF Answers
<1>6. Careful /\ yes => done
  BY <1>2, <1>5 DEF Answers, Careful
<1>7. CASE done
  <2>1. /\ broker'[o].state = "cancelled" /\ broker'[o].filled = broker[o].filled
        /\ \A p \in OrderIds : p # o => broker'[p] = broker[p]
    BY <1>2, <1>7, BrokerMoves DEF ManagerInv
  <2>2. broker[o].state = "working" /\ doubtful' = doubtful \ {o}
    BY <1>2, <1>5, <1>7
  <2>3. ~ Stands(o)'
    BY <2>1 DEF Stands
  <2> HIDE DEF x
  <2> QED
    BY <1>1, <1>3, <1>4, <2>1, <2>2, <2>3
<1>8. CASE ~ done
  <2> HIDE DEF x
  <2> QED
    BY <1>1, <1>2, <1>3, <1>4, <1>6, <1>8 DEF Stands
<1> QED
  BY <1>7, <1>8

\* Whatever it is, no order that did not stand comes to stand.
LEMMA BrokerCancelsCare ==
  ASSUME ManagerInv, CareInv, NEW t \in Tasks, BrokerCancels(t)
  PROVE  CareInv'
<1>0. /\ TypeOK /\ OrdersSound /\ TasksSound /\ task[t] \in TaskStates
      /\ task \in [Tasks -> TaskStates]
  BY DEF ManagerInv, TypeOK
<1>1. PICK o \in OrderIds, x \in TaskStates :
        /\ o = task[t].order /\ order[o].linked /\ UNCHANGED order
        /\ task' = [task EXCEPT ![t] = x] /\ task[t].pc = "cancel"
        /\ x.pc = "answered" /\ x.order = o
        /\ x.reply /\ Careful => broker'[o].state = "cancelled"
        /\ \A p \in OrderIds : p # o =>
             broker'[p] = broker[p] /\ (p \in doubtful' <=> p \in doubtful)
        /\ broker'[o].filled = broker[o].filled
        /\ broker[o].state # "working" => broker'[o] = broker[o]
        /\ broker[o].state = "working" => broker'[o].state \in {"working", "cancelled"}
        /\ ~ Stands(o)'
  BY BrokerCancelsDoes
<1>5. task'[t] = x /\ \A u \in Tasks : u # t => task'[u] = task[u]
  BY <1>0, <1>1
<1>6. \A p \in OrderIds : ~ Stands(p) => ~ Stands(p)'
  BY <1>1 DEF Stands
<1>7. SendInv'
  <2>1. \A u \in Tasks, q \in OrderIds : Sends(task'[u], q) =>
          task'[u] = task[u] /\ Sends(task[u], q)
    BY <1>1, <1>5 DEF Sends
  <2>2. \A q \in OrderIds : broker'[q].state = "none" <=> broker[q].state = "none"
    BY <1>1
  <2> QED
    BY <1>1, <2>1, <2>2, SendStays DEF CareInv, SendInv
<1>8. StatusInv'
  <2>1. StatusTrue(o)'
    BY <1>1 DEF CareInv, StatusInv, StatusTrue
  <2> QED
    BY <1>1, <2>1, StatusStays DEF CareInv, StatusInv
<1>9. AnswerInv'
  <2>1. ASSUME NEW u \in Tasks, u # t, task[u].pc = "answered", task[u].reply
        PROVE  /\ ~ Stands(task[u].order)'
               /\ Careful => broker'[task'[u].order].state = "cancelled"
    <3>1. PICK p \in OrderIds : p = task[u].order
      BY <1>0, <2>1 DEF TasksSound, SoundAt
    <3>2. ~ Stands(p) /\ (Careful => broker[p].state = "cancelled")
      BY <2>1, <3>1 DEF CareInv, AnswerInv, AnswerTrue
    <3>3. ~ Stands(p)' /\ (Careful => broker'[p].state = "cancelled")
      BY <1>1, <1>6, <3>2
    <3>4. task'[u].order = p
      BY <1>5, <2>1, <3>1
    <3> QED
      BY <3>3, <3>4 DEF Stands
  <2>2. x.reply => ~ Stands(task[t].order)' /\ (Careful => broker'[task'[t].order].state = "cancelled")
    BY <1>1, <1>5 DEF Stands
  <2> QED
    BY <1>5, <2>1, <2>2 DEF AnswerInv, AnswerTrue, Careful, Stands
<1> QED
  BY <1>7, <1>8, <1>9 DEF CareInv

\* An answer read changes the status of its order at most, and truly so.
LEMMA AfterCancelCare ==
  ASSUME ManagerInv, CareInv, NEW t \in Tasks, task[t].pc = "answered",
         order' = AfterCancel(t), UNCHANGED <<broker, doubtful>>,
         \A u \in Tasks : task'[u] = task[u] \/ task'[u].pc \notin {"sending", "sent", "answered"}
  PROVE  CareInv' /\ Linked' = Linked
<1>1. PICK o \in OrderIds : o = task[t].order /\ order[o] \in Orders /\ order[o].linked
  BY DEF ManagerInv, TasksSound, SoundAt
<1>2. CASE ~ task[t].reply
  BY <1>2, QuietCare DEF AfterCancel, ManagerInv, Linked
<1>3. CASE task[t].reply
  <2> DEFINE new == [order[o] EXCEPT !.status = "cancelled"]
  <2>1. /\ new.linked = order[o].linked /\ new.req = order[o].req
        /\ new.filled = order[o].filled /\ new.status = "cancelled"
    BY <1>1 DEF Orders
  <2>2. order' = [order EXCEPT ![o] = new]
    BY <1>1, <1>3 DEF AfterCancel
  <2> HIDE DEF new
  <2>3. order'[o] = new /\ \A q \in OrderIds : q # o => order'[q] = order[q]
    BY <2>2 DEF ManagerInv, TypeOK
  <2>4. ~ Stands(o)
    BY <1>1, <1>3 DEF CareInv, AnswerInv, AnswerTrue
  <2>5. StatusTrue(o)'
    BY <1>1, <2>1, <2>3, <2>4 DEF CareInv, StatusInv, StatusTrue, Stands
  <2>6. Linked' = Linked
    BY <2>1, <2>3 DEF Linked
  <2> QED
    BY <2>1, <2>2, <2>5, <2>6, RecordCare
<1> QED
  BY <1>2, <1>3

\* Where a step of one task takes it.
LEMMA OneTaskMoves ==
  ASSUME NEW t \in Tasks, NEW x, task \in [Tasks -> TaskStates],
         task' = [task EXCEPT ![t] = x], x.pc \notin {"sending", "sent", "answered"}
  PROVE  \A u \in Tasks : task'[u] = task[u] \/ task'[u].pc \notin {"sending", "sent", "answered"}
  OBVIOUS

\* Every step of the manager and of the broker keeps all of it.
LEMMA StepCare ==
  ASSUME ManagerInv, CareInv, [Next]_vars
  PROVE  CareInv'
<1> USE DEF At
<1>0. /\ TypeOK /\ TasksSound /\ task \in [Tasks -> TaskStates]
      /\ order \in [OrderIds -> Orders \cup {NoOrder}]
      /\ Idle.pc = "idle"
  BY DEF ManagerInv, TypeOK, Idle
<1>1. ASSUME NEW t \in Tasks, NEW x, task' = [task EXCEPT ![t] = x],
             x.pc \notin {"sending", "sent", "answered"}, UNCHANGED <<order, broker, doubtful>>
      PROVE  CareInv'
  BY <1>0, <1>1, OneTaskMoves, QuietCare
<1>2. CASE UNCHANGED vars
  BY <1>0, <1>2, QuietCare DEF vars
<1>3. CASE \E i \in 1..MaxFills : OnFill(i)
  BY <1>3, TakeFillCare DEF OnFill, brokerVars, histories
<1>4. CASE \E o \in OrderIds, q \in FillSizes : BrokerFills(o, q)
  BY <1>4, BrokerFillsCare
<1>17. CASE \E o \in OrderIds : CancelLands(o)
  BY <1>17, CancelLandsCare
<1>5. ASSUME NEW t \in Tasks, \E r \in Requests : Submit(t, r) PROVE CareInv'
  <2>1. PICK r \in Requests : Submit(t, r)
    BY <1>5
  <2> DEFINE x == [Idle EXCEPT !.pc = "risk", !.req = r]
  <2>2. x.pc = "risk" /\ task' = [task EXCEPT ![t] = x] /\ UNCHANGED <<order, broker, doubtful>>
    BY <2>1 DEF Submit, Idle, managerVars, brokerVars, histories
  <2> HIDE DEF x
  <2> QED
    BY <1>1, <2>2
<1>6. ASSUME NEW t \in Tasks, \E kill \in BOOLEAN : Reconcile(t, kill) PROVE CareInv'
  <2>1. PICK kill \in BOOLEAN : Reconcile(t, kill)
    BY <1>6
  <2> DEFINE x == [Idle EXCEPT !.pc = "asking", !.kill = kill]
  <2>2. x.pc = "asking" /\ task' = [task EXCEPT ![t] = x] /\ UNCHANGED <<order, broker, doubtful>>
    BY <2>1 DEF Reconcile, Idle, managerVars, brokerVars, histories
  <2> HIDE DEF x
  <2> QED
    BY <1>1, <2>2
<1>7. ASSUME NEW t \in Tasks, \E o \in OrderIds : Cancel(t, o) PROVE CareInv'
  <2>1. PICK o \in OrderIds : Cancel(t, o)
    BY <1>7
  <2> DEFINE x == [Idle EXCEPT !.pc = "cancel", !.order = o]
  <2>2. x.pc = "cancel" /\ task' = [task EXCEPT ![t] = x] /\ UNCHANGED <<order, broker, doubtful>>
    BY <2>1 DEF Cancel, Idle, managerVars, brokerVars, histories
  <2> HIDE DEF x
  <2> QED
    BY <1>1, <2>2
<1>8. ASSUME NEW t \in Tasks, RiskRefuses(t) \/ CancelRaises(t) PROVE CareInv'
  BY <1>0, <1>1, <1>8 DEF RiskRefuses, CancelRaises, Done, managerVars, brokerVars, histories
<1>9. ASSUME NEW t \in Tasks, GetFills(t) PROVE CareInv'
  <2> DEFINE x == [task[t] EXCEPT !.pc = "apply", !.upto = AllFills]
  <2>1. /\ x.pc = "apply" /\ task' = [task EXCEPT ![t] = x] /\ UNCHANGED <<order, broker, doubtful>>
    BY <1>0, <1>9 DEF GetFills, TaskStates, managerVars, brokerVars, histories
  <2> HIDE DEF x
  <2> QED
    BY <1>1, <2>1
<1>10. ASSUME NEW t \in Tasks, ApplyFill(t) PROVE CareInv'
  <2> DEFINE i == task[t].at + 1
             x == [task[t] EXCEPT !.at = i]
  <2>1. i \in 1..Len(fills)
    <3>1. /\ task[t].at \in Nat /\ task[t].upto \in Nat
          /\ task[t].upto <= Len(fills) /\ Len(fills) \in Nat
      BY <1>0 DEF TaskStates, TasksSound, SoundAt, TypeOK
    <3> QED
      BY <1>10, <3>1 DEF ApplyFill
  <2>2. /\ x.pc = "apply" /\ task' = [task EXCEPT ![t] = x] /\ UNCHANGED <<broker, doubtful>>
        /\ TakeFill(i) \/ UNCHANGED managerVars
    BY <1>0, <1>10 DEF ApplyFill, TaskStates, brokerVars, histories
  <2> HIDE DEF i, x
  <2>3. CASE TakeFill(i)
    BY <1>0, <2>1, <2>2, <2>3, OneTaskMoves, TakeFillCare
  <2>4. CASE UNCHANGED managerVars
    BY <1>1, <2>2, <2>4 DEF managerVars
  <2> QED
    BY <2>2, <2>3, <2>4
<1>11. ASSUME NEW t \in Tasks, ReconcileEnds(t) PROVE CareInv'
  <2>1. UNCHANGED <<order, broker, doubtful>>
    BY <1>11 DEF ReconcileEnds, managerVars, brokerVars, histories
  <2>2. CASE task[t].kill
    <3>1. Iterate(t, order, 0, Linked) /\ Linked \in SUBSET OrderIds
      BY <1>11, <2>2 DEF ReconcileEnds, Linked
    <3>2. PICK x \in TaskStates :
            task' = [task EXCEPT ![t] = x] /\ (x = Idle \/ x.pc = "cancel")
      BY <1>0, <3>1, IterateSound
    <3> QED
      BY <1>0, <1>1, <2>1, <3>2
  <2>3. CASE ~ task[t].kill
    BY <1>0, <1>1, <1>11, <2>1, <2>3 DEF ReconcileEnds, Done
  <2> QED
    BY <2>2, <2>3
<1>12. ASSUME NEW t \in Tasks, CancelReturns(t) PROVE CareInv'
  <2>1. /\ task[t].pc = "answered" /\ order' = AfterCancel(t) /\ UNCHANGED <<broker, doubtful>>
        /\ task' = [task EXCEPT ![t] = Idle]
    BY <1>12 DEF CancelReturns, Done, brokerVars, histories
  <2> QED
    BY <1>0, <2>1, OneTaskMoves, AfterCancelCare
<1>13. ASSUME NEW t \in Tasks, KillContinues(t) PROVE CareInv'
  <2>1. task[t].pc = "answered" /\ order' = AfterCancel(t) /\ UNCHANGED <<broker, doubtful>>
    BY <1>13 DEF KillContinues, brokerVars, histories
  <2>2. PICK x : task' = [task EXCEPT ![t] = x] /\ (x = Idle \/ x.pc = "cancel")
    <3>1. CASE Done(t)
      BY <3>1 DEF Done
    <3>2. CASE Iterate(t, AfterCancel(t), task[t].at, task[t].aim)
      <4>1. /\ task[t].at \in Nat /\ task[t].aim \in SUBSET OrderIds
            /\ AfterCancel(t) \in [OrderIds -> Orders \cup {NoOrder}]
        BY <1>0, <2>1, AfterCancelSound DEF TaskStates
      <4> QED
        BY <1>0, <3>2, <4>1, IterateSound
    <3> QED
      BY <1>13, <3>1, <3>2 DEF KillContinues
  <2> QED
    BY <1>0, <2>1, <2>2, OneTaskMoves, AfterCancelCare
<1>14. ASSUME NEW t \in Tasks,
              \/ \E o \in OrderIds : RiskAccepts(t, o)
              \/ Submitted(t) \/ SubmitRaises(t) \/ BrokerAccepts(t)
       PROVE  CareInv'
  BY <1>14, SubmitCare
<1>15. ASSUME NEW t \in Tasks, BrokerCancels(t) PROVE CareInv'
  BY <1>15, BrokerCancelsCare
<1>16. ASSUME NEW t \in Tasks, Step(t) PROVE CareInv'
  BY <1>8, <1>9, <1>10, <1>11, <1>12, <1>13, <1>14, <1>15, <1>16 DEF Step
<1> QED
  BY <1>2, <1>3, <1>4, <1>5, <1>6, <1>7, <1>16, <1>17 DEF Next

-----------------------------------------------------------------------------
(* kill_all *)

\* An order kill_all answers for does not stand, comes later in the loop, or is
\* the one whose cancellation the task awaits.
Answered(x, o) ==
  \/ ~ Stands(o)
  \/ \E k \in 1..Len(book) : k > x.at /\ book[k] = o
  \/ x.pc = "cancel" /\ x.order = o

\* A task answers for linked orders, and only while its loop runs.
KillSound(x) ==
  /\ x.aim \subseteq Linked
  /\ x.aim # {} => x.pc \in {"cancel", "answered"}
  /\ \A o \in x.aim : Answered(x, o)

\* The iteration misses no order, and what was closed stays closed.
KillInv ==
  /\ \A o \in OrderIds : order[o] # NoOrder => \E k \in 1..Len(book) : book[k] = o
  /\ closed \subseteq Linked /\ KilledAreClosed
  /\ \A t \in Tasks : KillSound(task[t])

\* A linked order stays linked and never comes to stand; _orders only grows, at
\* its end.
Steady ==
  /\ Linked \subseteq Linked'
  /\ \A o \in Linked : ~ Stands(o) => ~ Stands(o)'
  /\ Len(book) \in Nat /\ Len(book') \in Nat /\ Len(book) <= Len(book')
  /\ \A k \in 1..Len(book) : book'[k] = book[k]
  /\ \A o \in OrderIds :
       order'[o] # NoOrder => order[o] # NoOrder \/ \E k \in 1..Len(book') : book'[k] = o

\* Nothing to answer for at first.
LEMMA InitKillInv == Init => KillInv
  BY DEF Init, KillInv, KilledAreClosed, KillSound, Idle, Linked, NoOrder

\* An order that is not open, but linked, does not stand at the broker.
LEMMA NotOpenNotWorking ==
  ASSUME ManagerInv, BackInv, CareInv, NEW o \in OrderIds, order[o].linked, ~ IsOpen(order[o])
  PROVE  ~ Stands(o)
<1> SUFFICES ASSUME Stands(o), broker[o].state = "working" PROVE FALSE
  BY DEF Stands
<1>1. order[o] \in Orders /\ order[o].status \in Status
  BY NoOrderIsNone DEF ManagerInv, TypeOK, Orders
<1>2. order[o].status \in {"filled", "cancelled", "rejected"}
  BY <1>1 DEF IsOpen, Status
<1>3. StatusTrue(o)
  BY DEF CareInv, StatusInv
<1>4. order[o].status = "filled"
  BY <1>2, <1>3 DEF StatusTrue
<1> DEFINE a == order[o].filled
           w == WaitingLots(o)
           b == broker[o].filled
           q == Quantity[order[o].req]
<1>5. a \in Nat /\ w \in Nat /\ b \in Nat /\ a + w <= b
  BY LotsTypes DEF ManagerInv, BackInv
<1>6. q \in Nat
  BY <1>1, QuantityAssumption DEF Orders
<1>7. b < q /\ a >= q
  BY <1>3, <1>4 DEF StatusTrue
<1> HIDE DEF a, w, b, q
<1> QED
  BY <1>5, <1>6, <1>7

\* So it is after a step as well.
LEMMA KilledOrderDone ==
  ASSUME ManagerInv', BackInv', CareInv', NEW o \in OrderIds, order'[o].linked,
         ~ IsOpen(order'[o])
  PROVE  ~ Stands(o)'
<1>1. (ManagerInv /\ BackInv /\ CareInv /\ order[o].linked /\ ~ IsOpen(order[o])
        => ~ Stands(o))'
  BY NotOpenNotWorking, PTL
<1> QED
  BY <1>1 DEF IsOpen

\* What a task answers for, it answers for after a steady step.
LEMMA KillSoundStays ==
  ASSUME Steady, NEW x, KillSound(x)
  PROVE  KillSound(x)'
<1>1. ASSUME NEW o \in x.aim PROVE Answered(x, o)'
  BY DEF Steady, KillSound, Answered
<1> QED
  BY <1>1 DEF Steady, KillSound

\* A steady step of one task that closes no order it should not.
LEMMA KillKept ==
  ASSUME KillInv, Steady, NEW t \in Tasks, NEW x, task \in [Tasks -> TaskStates],
         task' = [task EXCEPT ![t] = x], KillSound(x)',
         closed' \subseteq Linked', \A o \in closed' \ closed : ~ Stands(o)'
  PROVE  KillInv'
<1>1. \A o \in OrderIds : order'[o] # NoOrder => \E k \in 1..Len(book') : book'[k] = o
  BY DEF KillInv, Steady
<1>2. KilledAreClosed'
  <2>1. ASSUME NEW o \in closed' PROVE ~ Stands(o)'
    <3>1. CASE o \in closed
      BY <3>1 DEF KillInv, KilledAreClosed, Stands, Steady
    <3>2. CASE o \notin closed
      BY <3>2
    <3> QED
      BY <3>1, <3>2
  <2> QED
    BY <2>1 DEF KilledAreClosed, Stands
<1>3. ASSUME NEW u \in Tasks PROVE KillSound(task[u])'
  <2>1. CASE u = t
    <3>1. task'[u] = x
      BY <2>1
    <3> QED
      BY <3>1 DEF KillSound, Answered
  <2>2. CASE u # t
    <3>1. PICK y : y = task[u]
      OBVIOUS
    <3>2. KillSound(y)'
      BY <3>1, KillSoundStays DEF KillInv
    <3>3. task'[u] = y
      BY <2>2, <3>1
    <3> QED
      BY <3>2, <3>3 DEF KillSound, Answered
  <2> QED
    BY <2>1, <2>2
<1> QED
  BY <1>1, <1>2, <1>3 DEF KillInv

\* A task that answers for nothing is sound.
LEMMA NothingToAnswer ==
  ASSUME NEW x, x.aim = {}
  PROVE  KillSound(x)'
  BY DEF KillSound

\* A task that is not in kill_all's loop has nothing to answer for.
LEMMA OutsideKill ==
  ASSUME KillInv, NEW t \in Tasks, task[t].pc \notin {"cancel", "answered"}
  PROVE  task[t].aim = {}
  BY DEF KillInv, KillSound

\* The orders of a step that rewrites one record and keeps its broker id.
LEMMA RecordSteady ==
  ASSUME ManagerInv, NEW o \in OrderIds, NEW rec, order[o] \in Orders,
         order' = [order EXCEPT ![o] = rec], order[o].linked => rec.linked,
         rec.linked \in BOOLEAN, UNCHANGED <<book, broker, doubtful>>
  PROVE  Steady
<1>1. order'[o] = rec /\ \A q \in OrderIds : q # o => order'[q] = order[q]
  BY DEF ManagerInv, TypeOK
<1>2. Linked \subseteq Linked'
  BY <1>1 DEF Linked
<1>3. \A q \in OrderIds : order'[q] # NoOrder => order[q] # NoOrder
  BY <1>1, NoOrderIsNone
<1>4. Len(book) \in Nat
  BY DEF ManagerInv, TypeOK
<1> QED
  BY <1>2, <1>3, <1>4 DEF Steady, Linked, Stands

\* So is a step that leaves the orders alone and starts none that is linked.
LEMMA QuietSteady ==
  ASSUME ManagerInv, UNCHANGED <<order, book>>,
         \A o \in Linked : ~ Stands(o) => ~ Stands(o)'
  PROVE  Steady
<1>1. Len(book) \in Nat
  BY DEF ManagerInv, TypeOK
<1> QED
  BY <1>1 DEF Steady, Linked

\* Every step is steady.
LEMMA StepSteady ==
  ASSUME ManagerInv, CareInv, [Next]_vars
  PROVE  Steady
<1> USE DEF At
<1>0. /\ TypeOK /\ OrdersSound /\ TasksSound
      /\ order \in [OrderIds -> Orders \cup {NoOrder}]
  BY DEF ManagerInv, TypeOK
<1>1. ASSUME UNCHANGED <<order, book, broker, doubtful>> PROVE Steady
  BY <1>1, QuietSteady DEF Linked, Stands
<1>2. CASE UNCHANGED vars
  BY <1>1, <1>2 DEF vars
<1>3. ASSUME NEW i \in 1..Len(fills), TakeFill(i), UNCHANGED <<broker, doubtful>>
      PROVE  Steady
  <2> DEFINE f == fills[i]
             rec == FilledBy(order[f.order], f)
  <2>1. CASE UNCHANGED order
    BY <1>1, <1>3, <2>1 DEF TakeFill
  <2>2. CASE order' = [order EXCEPT ![f.order] = rec]
    <3>1. f.order \in OrderIds /\ order[f.order] \in Orders
      BY <1>0, FillTypes DEF OrdersSound
    <3>2. rec.linked = order[f.order].linked /\ rec.linked \in BOOLEAN
      BY <3>1 DEF FilledBy, Orders
    <3>3. PICK o, new : o \in OrderIds /\ o = f.order /\ new = rec
      BY <3>1
    <3> HIDE DEF rec
    <3> QED
      BY <1>3, <2>2, <3>1, <3>2, <3>3, RecordSteady DEF TakeFill
  <2> QED
    BY <1>3, <2>1, <2>2 DEF TakeFill
<1>4. CASE \E i \in 1..MaxFills : OnFill(i)
  BY <1>3, <1>4 DEF OnFill, brokerVars, histories
<1>5. CASE \E o \in OrderIds, q \in FillSizes : BrokerFills(o, q)
  <2>1. PICK o \in OrderIds, q \in FillSizes : BrokerFills(o, q)
    BY <1>5
  <2>2. /\ broker[o].state = "working" /\ UNCHANGED <<order, book>>
        /\ \A p \in OrderIds : p # o => broker'[p] = broker[p]
        /\ o \in doubtful /\ broker'[o].state = "working" => o \in doubtful'
        /\ \A p \in OrderIds : p # o /\ p \in doubtful => p \in doubtful'
    BY <1>0, <2>1 DEF BrokerFills, managerVars, TypeOK
  <2> QED
    BY <2>2, QuietSteady DEF Linked, Stands
<1>13. CASE \E o \in OrderIds : CancelLands(o)
  <2>1. PICK o \in OrderIds : CancelLands(o)
    BY <1>13
  <2>2. broker'[o].state = "cancelled" /\ \A p \in OrderIds : p # o => broker'[p] = broker[p]
    BY <1>0, <2>1, BrokerMoves DEF CancelLands
  <2> QED
    BY <2>1, <2>2, QuietSteady DEF CancelLands, managerVars, Linked, Stands
<1>6. ASSUME NEW t \in Tasks,
             \/ \E r \in Requests : Submit(t, r)
             \/ \E kill \in BOOLEAN : Reconcile(t, kill)
             \/ \E o \in OrderIds : Cancel(t, o)
             \/ RiskRefuses(t) \/ GetFills(t) \/ ReconcileEnds(t) \/ CancelRaises(t)
      PROVE  Steady
  BY <1>1, <1>6
  DEF Submit, Reconcile, Cancel, RiskRefuses, GetFills, ReconcileEnds, CancelRaises,
      managerVars, brokerVars, histories
<1>7. ASSUME NEW t \in Tasks, NEW o \in OrderIds, RiskAccepts(t, o) PROVE Steady
  <2> DEFINE new == [req |-> task[t].req, status |-> "submitted", filled |-> 0,
                     linked |-> FALSE]
  <2>1. /\ order' = [order EXCEPT ![o] = new] /\ order[o] = NoOrder
        /\ book' = Append(book, o) /\ UNCHANGED <<broker, doubtful>>
    BY <1>7 DEF RiskAccepts, brokerVars, histories
  <2> HIDE DEF new
  <2>2. \A q \in OrderIds : q # o => order'[q] = order[q]
    BY <1>0, <2>1
  <2>3. /\ Len(book) \in Nat /\ Len(book') = Len(book) + 1
        /\ book'[Len(book) + 1] = o /\ \A k \in 1..Len(book) : book'[k] = book[k]
    BY <1>0, <2>1 DEF TypeOK
  <2>4. Linked \subseteq Linked'
    BY <2>1, <2>2, NoOrderIsNone DEF Linked
  <2>5. \A q \in OrderIds :
          order'[q] # NoOrder => order[q] # NoOrder \/ \E k \in 1..Len(book') : book'[k] = q
    BY <2>2, <2>3
  <2> QED
    BY <2>1, <2>3, <2>4, <2>5 DEF Steady, Linked, Stands
<1>8. ASSUME NEW t \in Tasks, Submitted(t) \/ SubmitRaises(t) PROVE Steady
  <2> DEFINE linked == [order[task[t].order] EXCEPT !.linked = TRUE]
             rejected == [order[task[t].order] EXCEPT !.status = "rejected"]
  <2>1. PICK o \in OrderIds : o = task[t].order /\ order[o] \in Orders
    BY <1>0, <1>8 DEF Submitted, SubmitRaises, TasksSound, SoundAt
  <2>2. linked.linked = TRUE /\ rejected.linked = order[o].linked /\ order[o].linked \in BOOLEAN
    BY <2>1 DEF Orders
  <2>3. /\ \E rec \in {linked, rejected} : order' = [order EXCEPT ![o] = rec]
        /\ UNCHANGED <<book, broker, doubtful>>
    BY <1>8, <2>1 DEF Submitted, SubmitRaises, brokerVars, histories
  <2> HIDE DEF linked, rejected
  <2> QED
    BY <2>1, <2>2, <2>3, RecordSteady
<1>9. ASSUME NEW t \in Tasks, CancelReturns(t) \/ KillContinues(t) PROVE Steady
  <2>1. /\ task[t].pc = "answered" /\ order' = AfterCancel(t)
        /\ UNCHANGED <<book, broker, doubtful>>
    BY <1>9 DEF CancelReturns, KillContinues, brokerVars, histories
  <2>2. PICK o \in OrderIds : o = task[t].order /\ order[o] \in Orders
    BY <1>0, <2>1 DEF TasksSound, SoundAt
  <2> DEFINE new == [order[o] EXCEPT !.status = "cancelled"]
  <2>3. new.linked = order[o].linked /\ order[o].linked \in BOOLEAN
    BY <2>2 DEF Orders
  <2>4. order' = order \/ order' = [order EXCEPT ![o] = new]
    BY <2>1, <2>2 DEF AfterCancel
  <2> HIDE DEF new
  <2> QED
    BY <1>1, <2>1, <2>2, <2>3, <2>4, RecordSteady
<1>10. ASSUME NEW t \in Tasks, BrokerAccepts(t) PROVE Steady
  <2>1. PICK o \in OrderIds : o = task[t].order
    BY <1>0, <1>10 DEF BrokerAccepts, TasksSound, SoundAt
  <2>2. /\ broker' = [broker EXCEPT ![o].state = "working"] /\ UNCHANGED <<order, book, doubtful>>
        /\ Sends(task[t], o)
    BY <1>10, <2>1 DEF BrokerAccepts, managerVars, histories, Sends
  <2>3. \A p \in OrderIds : p # o => broker'[p] = broker[p]
    BY <1>0, <2>2, BrokerMoves
  <2>4. o \notin Linked
    BY <2>2 DEF CareInv, SendInv, Linked
  <2> QED
    BY <2>2, <2>3, <2>4, QuietSteady DEF Linked, Stands
<1>11. ASSUME NEW t \in Tasks, BrokerCancels(t) PROVE Steady
  <2>1. PICK o \in OrderIds :
          /\ \A p \in OrderIds : p # o =>
               broker'[p] = broker[p] /\ (p \in doubtful' <=> p \in doubtful)
          /\ ~ Stands(o)'
    BY <1>11, BrokerCancelsDoes
  <2>2. UNCHANGED <<order, book>>
    BY <1>11 DEF BrokerCancels, managerVars
  <2> QED
    BY <2>1, <2>2, QuietSteady DEF Linked, Stands
<1>12. ASSUME NEW t \in Tasks, ApplyFill(t) PROVE Steady
  <2> DEFINE i == task[t].at + 1
  <2>1. i \in 1..Len(fills)
    <3>1. /\ task[t].at \in Nat /\ task[t].upto \in Nat
          /\ task[t].upto <= Len(fills) /\ Len(fills) \in Nat
      BY <1>0 DEF TaskStates, TasksSound, SoundAt, TypeOK
    <3> QED
      BY <1>12, <3>1 DEF ApplyFill
  <2>2. (TakeFill(i) \/ UNCHANGED managerVars) /\ UNCHANGED <<broker, doubtful>>
    BY <1>12 DEF ApplyFill, brokerVars, histories
  <2> HIDE DEF i
  <2> QED
    BY <1>1, <1>3, <2>1, <2>2 DEF managerVars
<1> QED
  BY <1>2, <1>4, <1>5, <1>6, <1>7, <1>8, <1>9, <1>10, <1>11, <1>12, <1>13 DEF Next, Step

\* The loop goes on to the next order it finds open or, when none is left, has
\* closed all it answers for.
LEMMA IterateKills ==
  ASSUME ManagerInv, ManagerInv', BackInv', CareInv', KillInv, Steady, Linked' = Linked,
         NEW t \in Tasks, NEW i \in Nat, NEW aim \in SUBSET Linked,
         Iterate(t, order', i, aim), UNCHANGED <<book, broker, doubtful>>,
         \A o \in aim : \/ ~ Stands(o)
                        \/ \E k \in 1..Len(book) : k > i /\ book[k] = o
  PROVE  KillInv'
<1>0. task \in [Tasks -> TaskStates] /\ book \in Seq(OrderIds) /\ Len(book) \in Nat
  BY DEF ManagerInv, TypeOK
<1>1. ASSUME NEW k \in 1..Len(book), k > i, book[k] \in aim, k \notin ToCancel(order', i)
      PROVE  ~ Stands(book[k])
  <2>1. book[k] \in OrderIds /\ order'[book[k]].linked
    BY <1>0, <1>1 DEF Linked
  <2>2. ~ IsOpen(order'[book[k]])
    BY <1>0, <1>1, <2>1 DEF ToCancel
  <2> DEFINE o == book[k]
  <2>3. PICK q \in OrderIds : q = book[k]
    BY <2>1
  <2>4. ~ Stands(q)'
    BY <2>1, <2>2, <2>3, KilledOrderDone
  <2> QED
    BY <2>3, <2>4 DEF Stands
<1>2. CASE /\ ToCancel(order', i) = {} /\ Done(t) /\ closed' = closed \cup aim
  <2>1. \A o \in aim : ~ Stands(o)
    BY <1>1, <1>2
  <2>2. KillSound(Idle)'
    BY NothingToAnswer DEF Idle
  <2>3. closed' \subseteq Linked' /\ \A o \in closed' \ closed : ~ Stands(o)'
    BY <1>2, <2>1 DEF KillInv, Stands
  <2> QED
    BY <1>0, <1>2, <2>2, <2>3, KillKept DEF Done
<1>3. ASSUME NEW j \in ToCancel(order', i), \A k \in ToCancel(order', i) : j <= k,
             UNCHANGED closed,
             task' = [task EXCEPT ![t] =
               [Idle EXCEPT !.pc = "cancel", !.kill = TRUE, !.order = book[j],
                            !.at = j, !.size = Len(book), !.aim = aim]]
      PROVE  KillInv'
  <2> DEFINE y == [Idle EXCEPT !.pc = "cancel", !.kill = TRUE, !.order = book[j],
                               !.at = j, !.size = Len(book), !.aim = aim]
  <2>1. PICK x : /\ x = y /\ x.pc = "cancel" /\ x.order = book[j]
                 /\ x.at = j /\ x.aim = aim
    <3>1. y.pc = "cancel" /\ y.order = book[j] /\ y.at = j /\ y.aim = aim
      BY DEF Idle
    <3> HIDE DEF y
    <3> QED
      BY <3>1
  <2>2. task' = [task EXCEPT ![t] = x]
    BY <1>3, <2>1
  <2> HIDE DEF y
  <2>3. j \in 1..Len(book) /\ j \in Nat
    BY <1>0 DEF ToCancel
  <2>4. ASSUME NEW o \in aim, Stands(o), x.order # o
        PROVE  \E k \in 1..Len(book) : k > x.at /\ book[k] = o
    <3>1. PICK k \in 1..Len(book) : k > i /\ book[k] = o
      BY <2>4
    <3>2. k \in ToCancel(order', i)
      BY <1>1, <2>4, <3>1
    <3>3. j <= k /\ j # k
      BY <1>3, <2>1, <2>4, <3>1, <3>2
    <3> QED
      BY <1>0, <2>1, <2>3, <3>1, <3>3
  <2>5. KillSound(x)'
    <3>1. \A o \in aim : Answered(x, o)'
      BY <2>1, <2>4 DEF Answered, Stands
    <3>2. aim \subseteq Linked'
      OBVIOUS
    <3> QED
      BY <2>1, <3>1, <3>2 DEF KillSound
  <2>6. closed' \subseteq Linked' /\ \A o \in closed' \ closed : ~ Stands(o)'
    BY <1>3 DEF KillInv
  <2> QED
    BY <1>0, <2>2, <2>5, <2>6, KillKept
<1> QED
  BY <1>2, <1>3 DEF Iterate

\* Every step keeps what kill_all relies on.
LEMMA StepKill ==
  ASSUME ManagerInv, BackInv, CareInv, KillInv, [Next]_vars,
         ManagerInv', BackInv', CareInv', Steady
  PROVE  KillInv'
<1> USE DEF At
<1>0. /\ TypeOK /\ TasksSound /\ task \in [Tasks -> TaskStates] /\ Idle.aim = {}
      /\ Idle.pc = "idle"
  BY DEF ManagerInv, TypeOK, Idle
<1>1. ASSUME NEW t \in Tasks, NEW x, task' = [task EXCEPT ![t] = x], x.aim = {},
             UNCHANGED closed
      PROVE  KillInv'
  <2>1. closed' \subseteq Linked' /\ \A o \in closed' \ closed : ~ Stands(o)'
    BY <1>1 DEF KillInv, Steady
  <2> QED
    BY <1>0, <1>1, <2>1, NothingToAnswer, KillKept
<1>2. ASSUME UNCHANGED <<task, closed>> PROVE KillInv'
  <2>1. CASE Tasks = {}
    <3>1. \A o \in closed' : ~ Stands(o)'
      BY <1>2 DEF KillInv, KilledAreClosed, Steady, Stands
    <3> QED
      BY <1>2, <2>1, <3>1 DEF KillInv, KilledAreClosed, Steady, Stands
  <2>2. CASE Tasks # {}
    <3>1. PICK t, x : t \in Tasks /\ x = task[t]
      BY <2>2
    <3>2. KillSound(x)'
      BY <3>1, KillSoundStays DEF KillInv
    <3>3. task' = [task EXCEPT ![t] = x]
      BY <1>0, <1>2, <3>1
    <3>4. closed' \subseteq Linked' /\ \A o \in closed' \ closed : ~ Stands(o)'
      BY <1>2 DEF KillInv, Steady
    <3> QED
      BY <1>0, <3>1, <3>2, <3>3, <3>4, KillKept
  <2> QED
    BY <2>1, <2>2
<1>3. CASE UNCHANGED vars
  BY <1>2, <1>3 DEF vars
<1>4. CASE \E i \in 1..MaxFills : OnFill(i)
  BY <1>2, <1>4 DEF OnFill, histories
<1>5. CASE \E o \in OrderIds, q \in FillSizes : BrokerFills(o, q)
  BY <1>2, <1>5 DEF BrokerFills
<1>16. CASE \E o \in OrderIds : CancelLands(o)
  BY <1>2, <1>16 DEF CancelLands
<1>6. ASSUME NEW t \in Tasks, \E r \in Requests : Submit(t, r) PROVE KillInv'
  <2>1. PICK r \in Requests : Submit(t, r)
    BY <1>6
  <2> DEFINE x == [Idle EXCEPT !.pc = "risk", !.req = r]
  <2>2. x.aim = {} /\ task' = [task EXCEPT ![t] = x] /\ UNCHANGED closed
    BY <2>1 DEF Submit, histories, Idle
  <2> HIDE DEF x
  <2> QED
    BY <1>1, <2>2
<1>7. ASSUME NEW t \in Tasks, \E kill \in BOOLEAN : Reconcile(t, kill) PROVE KillInv'
  <2>1. PICK kill \in BOOLEAN : Reconcile(t, kill)
    BY <1>7
  <2> DEFINE x == [Idle EXCEPT !.pc = "asking", !.kill = kill]
  <2>2. x.aim = {} /\ task' = [task EXCEPT ![t] = x] /\ UNCHANGED closed
    BY <2>1 DEF Reconcile, histories, Idle
  <2> HIDE DEF x
  <2> QED
    BY <1>1, <2>2
<1>8. ASSUME NEW t \in Tasks, \E o \in OrderIds : Cancel(t, o) PROVE KillInv'
  <2>1. PICK o \in OrderIds : Cancel(t, o)
    BY <1>8
  <2> DEFINE x == [Idle EXCEPT !.pc = "cancel", !.order = o]
  <2>2. x.aim = {} /\ task' = [task EXCEPT ![t] = x] /\ UNCHANGED closed
    BY <2>1 DEF Cancel, histories, Idle
  <2> HIDE DEF x
  <2> QED
    BY <1>1, <2>2
<1>9. ASSUME NEW t \in Tasks,
             RiskRefuses(t) \/ Submitted(t) \/ SubmitRaises(t) \/ CancelReturns(t) \/ CancelRaises(t)
      PROVE  KillInv'
  BY <1>0, <1>1, <1>9
  DEF RiskRefuses, Submitted, SubmitRaises, CancelReturns, CancelRaises, Done, histories
<1>10. ASSUME NEW t \in Tasks, NEW o \in OrderIds, RiskAccepts(t, o) PROVE KillInv'
  <2> DEFINE x == [task[t] EXCEPT !.pc = "sending", !.order = o]
  <2>1. task[t].aim = {}
    BY <1>10, OutsideKill DEF RiskAccepts
  <2>2. x.aim = {} /\ task' = [task EXCEPT ![t] = x] /\ UNCHANGED closed
    BY <1>0, <1>10, <2>1 DEF RiskAccepts, histories, TaskStates
  <2> HIDE DEF x
  <2> QED
    BY <1>1, <2>2
<1>11. ASSUME NEW t \in Tasks, BrokerAccepts(t) \/ GetFills(t) \/ ApplyFill(t)
       PROVE  KillInv'
  <2> DEFINE sent == [task[t] EXCEPT !.pc = "sent"]
             got == [task[t] EXCEPT !.pc = "apply", !.upto = AllFills]
             next == [task[t] EXCEPT !.at = task[t].at + 1]
  <2>1. task[t].aim = {}
    BY <1>11, OutsideKill DEF BrokerAccepts, GetFills, ApplyFill
  <2>2. sent.aim = {} /\ got.aim = {} /\ next.aim = {}
    BY <1>0, <2>1 DEF TaskStates
  <2>3. /\ \E x \in {sent, got, next} : task' = [task EXCEPT ![t] = x]
        /\ UNCHANGED closed
    BY <1>0, <1>11 DEF BrokerAccepts, GetFills, ApplyFill, Goto, histories
  <2> HIDE DEF sent, got, next
  <2> QED
    BY <1>1, <2>2, <2>3
<1>12. ASSUME NEW t \in Tasks, BrokerCancels(t) PROVE KillInv'
  <2>1. PICK x : x = task[t]
    OBVIOUS
  <2>2. PICK o \in OrderIds, y \in TaskStates :
          /\ o = x.order /\ task' = [task EXCEPT ![t] = y] /\ x.pc = "cancel"
          /\ y.pc = "answered" /\ y.aim = x.aim /\ y.at = x.at
          /\ ~ Stands(o)'
    BY <1>12, <2>1, BrokerCancelsDoes
  <2>3. UNCHANGED <<order, book, closed>>
    BY <1>12 DEF BrokerCancels, managerVars
  <2>6. KillSound(x)'
    BY <2>1, KillSoundStays DEF KillInv
  <2>8. KillSound(y)'
    BY <2>2, <2>6 DEF KillSound, Answered
  <2>9. closed' \subseteq Linked' /\ \A p \in closed' \ closed : ~ Stands(p)'
    BY <2>3 DEF KillInv, Steady
  <2> QED
    BY <1>0, <2>2, <2>8, <2>9, KillKept
<1>13. ASSUME NEW t \in Tasks, ReconcileEnds(t) PROVE KillInv'
  <2>1. UNCHANGED <<order, book, broker, doubtful>>
    BY <1>13 DEF ReconcileEnds, managerVars, brokerVars
  <2>2. CASE ~ task[t].kill
    BY <1>0, <1>1, <1>13, <2>2 DEF ReconcileEnds, Done
  <2>3. CASE task[t].kill
    <3>1. Iterate(t, order', 0, Linked)
      BY <1>13, <2>1, <2>3 DEF ReconcileEnds
    <3>2. PICK aim \in SUBSET Linked : aim = Linked
      OBVIOUS
    <3>3. \A o \in aim : \E k \in 1..Len(book) : k > 0 /\ book[k] = o
      <4>1. Len(book) \in Nat
        BY <1>0 DEF TypeOK
      <4>2. \A o \in aim : \E k \in 1..Len(book) : book[k] = o
        BY <3>2, NoOrderIsNone DEF KillInv, Linked
      <4>3. \A k \in 1..Len(book) : k > 0
        BY <4>1
      <4> QED
        BY <4>2, <4>3
    <3>4. Linked' = Linked
      BY <2>1 DEF Linked
    <3> QED
      BY <2>1, <3>1, <3>2, <3>3, <3>4, IterateKills
  <2> QED
    BY <2>2, <2>3
<1>14. ASSUME NEW t \in Tasks, KillContinues(t) PROVE KillInv'
  <2>1. /\ task[t].pc = "answered" /\ order' = AfterCancel(t)
        /\ UNCHANGED <<book, broker, doubtful>>
    BY <1>14 DEF KillContinues, brokerVars
  <2>2. CASE Done(t) /\ UNCHANGED closed
    BY <1>0, <1>1, <2>2 DEF Done
  <2>3. CASE Iterate(t, AfterCancel(t), task[t].at, task[t].aim)
    <3>1. /\ task[t].at \in Nat /\ task[t].aim \in SUBSET Linked
          /\ AfterCancel(t) \in [OrderIds -> Orders \cup {NoOrder}]
          /\ \A o \in task[t].aim : \/ ~ Stands(o)
                                    \/ \E k \in 1..Len(book) : k > task[t].at /\ book[k] = o
      BY <1>0, <2>1, AfterCancelSound DEF TaskStates, KillInv, KillSound, Answered
    <3>2. \A u \in Tasks : task'[u] = task[u] \/ task'[u].pc \notin {"sending", "sent", "answered"}
      <4>1. task[t].aim \in SUBSET OrderIds
        BY <3>1 DEF Linked
      <4>2. PICK x : task' = [task EXCEPT ![t] = x] /\ (x = Idle \/ x.pc = "cancel")
        BY <1>0, <2>3, <3>1, <4>1, IterateSound
      <4> QED
        BY <1>0, <4>2, OneTaskMoves
    <3>3. Linked' = Linked
      BY <2>1, <3>2, AfterCancelCare
    <3>4. PICK i \in Nat, aim \in SUBSET Linked : i = task[t].at /\ aim = task[t].aim
      BY <3>1
    <3> QED
      BY <2>1, <2>3, <3>1, <3>3, <3>4, IterateKills
  <2> QED
    BY <1>14, <2>2, <2>3 DEF KillContinues
<1>15. ASSUME NEW t \in Tasks, Step(t) PROVE KillInv'
  BY <1>9, <1>10, <1>11, <1>12, <1>13, <1>14, <1>15 DEF Step
<1> QED
  BY <1>3, <1>4, <1>5, <1>6, <1>7, <1>8, <1>15, <1>16 DEF Next

\* When kill_all ends without raising, every order that had its broker id when
\* its loop began has stopped working at the broker or was one an adapter had
\* answered a cancellation of and left working: whatever adapters, other tasks,
\* fills and answers came in between, the loop passes over none (manager.py:185-195).
THEOREM KillAllCloses == Spec => []KilledAreClosed
<1> DEFINE Inv == ManagerInv /\ BackInv /\ PositionInv /\ CareInv /\ KillInv
<1>1. Init => Inv
  BY InitManagerInv, InitBackInv, InitCareInv, InitKillInv
<1>2. Inv /\ [Next]_vars => Inv'
  BY StepManagerInv, StepBack, StepCare, StepSteady, StepKill
<1>3. Inv => KilledAreClosed
  BY DEF KillInv
<1> QED
  BY <1>1, <1>2, <1>3, PTL DEF Spec

NoneDoubtful == doubtful = {}

\* A paper broker refuses no cancellation of an order that works.
LEMMA PaperNeverDoubts ==
  ASSUME Adapters \subseteq {"paper"}
  PROVE  Spec => []NoneDoubtful
<1>1. Init => NoneDoubtful
  BY DEF Init, NoneDoubtful
<1>2. NoneDoubtful /\ [Next]_vars => NoneDoubtful'
  <2> SUFFICES ASSUME doubtful = {}, [Next]_vars PROVE doubtful' = {}
    BY DEF NoneDoubtful
  <2>1. CASE UNCHANGED doubtful
    BY <2>1
  <2>2. CASE \E o \in OrderIds : CancelLands(o) \/ \E q \in FillSizes : BrokerFills(o, q)
    BY <2>2 DEF CancelLands, BrokerFills
  <2>3. ASSUME NEW t \in Tasks, BrokerCancels(t) PROVE doubtful' = {}
    BY <2>3 DEF BrokerCancels, Answers
  <2>4. ASSUME NEW t \in Tasks,
               \/ \E r \in Requests : Submit(t, r)
               \/ \E kill \in BOOLEAN : Reconcile(t, kill)
               \/ \E o \in OrderIds : Cancel(t, o) \/ RiskAccepts(t, o)
               \/ RiskRefuses(t) \/ Submitted(t) \/ SubmitRaises(t) \/ BrokerAccepts(t)
               \/ GetFills(t) \/ ApplyFill(t) \/ ReconcileEnds(t)
               \/ CancelReturns(t) \/ KillContinues(t) \/ CancelRaises(t)
        PROVE  UNCHANGED doubtful
    BY <2>4
    DEF Submit, Reconcile, Cancel, RiskAccepts, RiskRefuses, Submitted, SubmitRaises,
        BrokerAccepts, GetFills, ApplyFill, ReconcileEnds, CancelReturns, KillContinues,
        CancelRaises, histories
  <2>5. (\E i \in 1..MaxFills : OnFill(i)) \/ UNCHANGED vars => UNCHANGED doubtful
    BY DEF OnFill, histories, vars
  <2> QED
    BY <2>1, <2>2, <2>3, <2>4, <2>5 DEF Next, Step
<1> QED
  BY <1>1, <1>2, PTL DEF Spec

\* In front of a paper broker, when kill_all ends without raising, none of the
\* orders that had its broker id when its loop began works any more
\* (manager.py:185-195; brokers/paper.py:143-153).
THEOREM KillAllClosesOnPaper ==
  ASSUME Adapters \subseteq {"paper"}
  PROVE  Spec => [](\A o \in closed : broker[o].state # "working")
<1>1. KilledAreClosed /\ NoneDoubtful => \A o \in closed : broker[o].state # "working"
  BY DEF KilledAreClosed, NoneDoubtful
<1> QED
  BY <1>1, KillAllCloses, PaperNeverDoubts, PTL

-----------------------------------------------------------------------------
(* The status of a filled order *)

\* A full order is called filled.
FullInv ==
  \A o \in OrderIds :
    order[o] # NoOrder /\ order[o].filled = Quantity[order[o].req]
      => order[o].status = "filled"

\* An order whose record is as before keeps a true name.
LEMMA FullStays ==
  ASSUME FullInv, NEW o \in OrderIds, NEW rec, order \in [OrderIds -> Orders \cup {NoOrder}],
         order' = [order EXCEPT ![o] = rec],
         rec.filled = Quantity[rec.req] => rec.status = "filled"
  PROVE  FullInv'
<1>1. order'[o] = rec /\ \A q \in OrderIds : q # o => order'[q] = order[q]
  OBVIOUS
<1> QED
  BY <1>1 DEF FullInv

\* Without timeouts no late answer writes over a fill: a refused order was not
\* filled, and an order the broker cancelled lacks lots.
LEMMA StepFull ==
  ASSUME Timeouts = FALSE, Careful, ManagerInv, BackInv, CareInv, FullInv, [Next]_vars
  PROVE  FullInv'
<1> USE DEF At
<1>0. /\ TypeOK /\ OrdersSound /\ TasksSound
      /\ order \in [OrderIds -> Orders \cup {NoOrder}]
  BY DEF ManagerInv, TypeOK
<1>1. ASSUME UNCHANGED order PROVE FullInv'
  BY <1>1 DEF FullInv
<1>2. ASSUME NEW o \in OrderIds, order[o] \in Orders
      PROVE  /\ Quantity[order[o].req] \in Nat \ {0}
             /\ order[o].filled \in Nat /\ broker[o].filled \in Nat
             /\ order[o].filled <= broker[o].filled
  <2> DEFINE a == order[o].filled
             w == WaitingLots(o)
             b == broker[o].filled
  <2>1. a \in Nat /\ w \in Nat /\ b \in Nat /\ a + w <= b
    BY <1>0, LotsTypes DEF BackInv
  <2>2. Quantity[order[o].req] \in Nat \ {0}
    BY <1>2, QuantityAssumption DEF Orders
  <2> HIDE DEF a, w, b
  <2>3. a <= b
    BY <2>1
  <2> QED
    BY <2>1, <2>2, <2>3 DEF a, b
<1>3. ASSUME NEW i \in 1..Len(fills), TakeFill(i) PROVE FullInv'
  <2> DEFINE f == fills[i]
             rec == FilledBy(order[f.order], f)
  <2>1. CASE UNCHANGED order
    BY <1>1, <2>1
  <2>2. CASE order' = [order EXCEPT ![f.order] = rec]
    <3>1. f.order \in OrderIds /\ order[f.order] \in Orders /\ f.qty \in Nat
      BY <1>0, FillTypes DEF OrdersSound
    <3>2. PICK o, new : o \in OrderIds /\ o = f.order /\ new = rec
      BY <3>1
    <3>3. /\ new.filled = order[o].filled + f.qty /\ new.req = order[o].req
          /\ new.status = IF order[o].filled + f.qty >= Quantity[order[o].req]
                            THEN "filled" ELSE "partially_filled"
      BY <3>1, <3>2 DEF FilledBy, Orders
    <3>4. new.filled = Quantity[new.req] => new.status = "filled"
      BY <1>2, <3>1, <3>2, <3>3
    <3> HIDE DEF rec
    <3> QED
      BY <1>0, <2>2, <3>2, <3>4, FullStays
  <2> QED
    BY <1>3, <2>1, <2>2 DEF TakeFill
<1>4. CASE UNCHANGED vars
  BY <1>1, <1>4 DEF vars
<1>5. CASE \E i \in 1..MaxFills : OnFill(i)
  BY <1>3, <1>5 DEF OnFill
<1>6. CASE \E o \in OrderIds : CancelLands(o) \/ \E q \in FillSizes : BrokerFills(o, q)
  BY <1>1, <1>6 DEF CancelLands, BrokerFills, managerVars
<1>7. ASSUME NEW t \in Tasks,
             \/ \E r \in Requests : Submit(t, r)
             \/ \E kill \in BOOLEAN : Reconcile(t, kill)
             \/ \E o \in OrderIds : Cancel(t, o)
             \/ RiskRefuses(t) \/ GetFills(t) \/ ReconcileEnds(t) \/ CancelRaises(t)
             \/ BrokerAccepts(t) \/ BrokerCancels(t)
      PROVE  FullInv'
  BY <1>1, <1>7
  DEF Submit, Reconcile, Cancel, RiskRefuses, GetFills, ReconcileEnds, CancelRaises,
      BrokerAccepts, BrokerCancels, managerVars
<1>8. ASSUME NEW t \in Tasks, NEW o \in OrderIds, RiskAccepts(t, o) PROVE FullInv'
  <2> DEFINE new == [req |-> task[t].req, status |-> "submitted", filled |-> 0,
                     linked |-> FALSE]
  <2>1. order' = [order EXCEPT ![o] = new]
    BY <1>8 DEF RiskAccepts
  <2>2. task[t].req \in Requests
    BY <1>0, <1>8 DEF RiskAccepts, TasksSound, SoundAt
  <2>3. new.filled # Quantity[new.req]
    BY <2>2, QuantityAssumption
  <2> HIDE DEF new
  <2> QED
    BY <1>0, <2>1, <2>3, FullStays
<1>9. ASSUME NEW t \in Tasks, Submitted(t) PROVE FullInv'
  <2> DEFINE new == [order[task[t].order] EXCEPT !.linked = TRUE]
  <2>1. PICK o \in OrderIds : o = task[t].order /\ order[o] \in Orders
    BY <1>0, <1>9 DEF Submitted, TasksSound, SoundAt
  <2>2. /\ new.filled = order[o].filled /\ new.status = order[o].status
        /\ new.req = order[o].req
    BY <2>1 DEF Orders
  <2>3. order' = [order EXCEPT ![o] = new]
    BY <1>9, <2>1 DEF Submitted
  <2> HIDE DEF new
  <2>4. new.filled = Quantity[new.req] => new.status = "filled"
    BY <2>1, <2>2, NoOrderIsNone DEF FullInv
  <2> QED
    BY <1>0, <2>3, <2>4, FullStays
<1>10. ASSUME NEW t \in Tasks, SubmitRaises(t) PROVE FullInv'
  <2> DEFINE new == [order[task[t].order] EXCEPT !.status = "rejected"]
  <2>1. PICK o \in OrderIds : o = task[t].order /\ order[o] \in Orders /\ task[t].pc = "sending"
    BY <1>0, <1>10 DEF SubmitRaises, TasksSound, SoundAt
  <2>2. new.filled = order[o].filled /\ new.req = order[o].req
    BY <2>1 DEF Orders
  <2>3. order' = [order EXCEPT ![o] = new]
    BY <1>10, <2>1 DEF SubmitRaises
  <2> HIDE DEF new
  <2>4. broker[o].filled = 0
    <3>1. broker[o].state = "none"
      BY <2>1 DEF CareInv, SendInv, Sends
    <3> QED
      BY <3>1 DEF CareInv, StatusInv, StatusTrue
  <2>5. new.filled # Quantity[new.req]
    BY <1>2, <2>1, <2>2, <2>4
  <2> QED
    BY <1>0, <2>3, <2>5, FullStays
<1>11. ASSUME NEW t \in Tasks, CancelReturns(t) \/ KillContinues(t) PROVE FullInv'
  <2> DEFINE new == [order[task[t].order] EXCEPT !.status = "cancelled"]
  <2>1. task[t].pc = "answered" /\ order' = AfterCancel(t)
    BY <1>11 DEF CancelReturns, KillContinues
  <2>2. PICK o \in OrderIds : o = task[t].order /\ order[o] \in Orders
    BY <1>0, <2>1 DEF TasksSound, SoundAt
  <2>3. new.filled = order[o].filled /\ new.req = order[o].req
    BY <2>2 DEF Orders
  <2>4. CASE ~ task[t].reply
    BY <1>1, <2>1, <2>4 DEF AfterCancel
  <2>5. CASE task[t].reply
    <3>1. order' = [order EXCEPT ![o] = new]
      BY <2>1, <2>2, <2>5 DEF AfterCancel
    <3> HIDE DEF new
    <3>2. broker[o].filled < Quantity[order[o].req]
      <4>1. broker[o].state = "cancelled"
        BY <2>1, <2>2, <2>5 DEF CareInv, AnswerInv, AnswerTrue, Careful
      <4> QED
        BY <4>1 DEF CareInv, StatusInv, StatusTrue
    <3>3. new.filled # Quantity[new.req]
      BY <1>2, <2>2, <2>3, <3>2
    <3> QED
      BY <1>0, <3>1, <3>3, FullStays
  <2> QED
    BY <2>4, <2>5
<1>12. ASSUME NEW t \in Tasks, ApplyFill(t) PROVE FullInv'
  <2> DEFINE i == task[t].at + 1
  <2>1. i \in 1..Len(fills)
    <3>1. /\ task[t].at \in Nat /\ task[t].upto \in Nat
          /\ task[t].upto <= Len(fills) /\ Len(fills) \in Nat
      BY <1>0 DEF TaskStates, TasksSound, SoundAt, TypeOK
    <3> QED
      BY <1>12, <3>1 DEF ApplyFill
  <2>2. TakeFill(i) \/ UNCHANGED managerVars
    BY <1>12 DEF ApplyFill
  <2> HIDE DEF i
  <2> QED
    BY <1>1, <1>3, <2>1, <2>2 DEF managerVars
<1> QED
  BY <1>4, <1>5, <1>6, <1>7, <1>8, <1>9, <1>10, <1>11, <1>12 DEF Next, Step

\* An order is called filled exactly when it is filled in full: no answer to
\* submit or cancel, however late, writes over a fill, provided no call to the
\* broker raises after it took effect and the adapter says yes to no cancellation
\* but one it carried out, as paper and ccxt do (manager.py:101-105, 171-173).
THEOREM StatusTellsFills ==
  ASSUME Timeouts = FALSE, Adapters \subseteq {"paper", "ccxt"}
  PROVE  Spec => []FilledMeansFilled
<1> DEFINE Inv == ManagerInv /\ BackInv /\ PositionInv /\ CareInv /\ FullInv
<1>1. Init => Inv
  <2>1. Init => FullInv
    BY DEF Init, FullInv
  <2> QED
    BY <2>1, InitManagerInv, InitBackInv, InitCareInv
<1>2. Inv /\ [Next]_vars => Inv'
  BY StepManagerInv, StepBack, StepCare, StepFull DEF Careful
<1>3. Inv => FilledMeansFilled
  <2> SUFFICES ASSUME Inv, NEW o \in OrderIds, order[o] # NoOrder,
                      order[o].status = "filled"
               PROVE  order[o].filled = Quantity[order[o].req]
    BY DEF FullInv, FilledMeansFilled
  <2>1. order[o] \in Orders /\ order[o].filled \in Nat /\ Quantity[order[o].req] \in Nat
    BY QuantityAssumption DEF ManagerInv, TypeOK, Orders
  <2>2. order[o].filled <= Quantity[order[o].req]
    BY <2>1 DEF ManagerInv, OrdersSound
  <2>3. order[o].filled >= Quantity[order[o].req]
    BY DEF CareInv, StatusInv, StatusTrue
  <2> QED
    BY <2>1, <2>2, <2>3
<1> QED
  BY <1>1, <1>2, <1>3, PTL DEF Spec
=============================================================================
