---------------------------- MODULE OrderManager ----------------------------
(***************************************************************************)
(* OrderManager (execution/order_manager/manager.py) and the position of   *)
(* InventoryTracker (inventory.py), in front of a broker.                  *)
(*                                                                         *)
(* Tasks are coroutines of one event loop: a task runs alone up to its     *)
(* next await on the risk gate or the broker, where others may run.  Every *)
(* action below is such a stretch; the loop over the broker's fills, which *)
(* has no await that yields, keeps the event loop (running) throughout.    *)
(* Quantities are lots of one instrument; a request of no quantity or a    *)
(* malformed one raises before any state changes and is left out.          *)
(***************************************************************************)
EXTENDS Integers, Sequences, FiniteSets, Functions

CONSTANTS
  Tasks,        \* coroutines that call the manager
  Requests,     \* request_id values
  OrderIds,     \* uuid4 supply for order_id
  Quantity,     \* lots each request asks for
  Buys,         \* the requests that buy
  FillSizes,    \* lots the broker may fill at a time
  MaxFills,     \* bound: fills the broker makes
  None,
  Concurrent,   \* may two submits of one request be under way at once?
  Timeouts,     \* may a call to the broker raise after it took effect?
  Overfill,     \* may the broker fill more than was ordered?
  Adapters      \* the adapters of execution/brokers a cancellation may meet

ASSUME QuantityAssumption == Quantity \in [Requests -> Nat \ {0}]
ASSUME FillsAssumption == FillSizes \subseteq Nat \ {0} /\ MaxFills \in Nat
ASSUME AdaptersAssumption == Adapters \subseteq {"paper", "ccxt", "ibkr", "mt5"}
ASSUME NoneAssumption == None \notin Tasks \cup OrderIds \cup Requests
ASSUME FlagAssumption ==
  Concurrent \in BOOLEAN /\ Timeouts \in BOOLEAN /\ Overfill \in BOOLEAN

VARIABLES
  order,        \* _orders: order_id -> Order, NoOrder while there is none
  book,         \* _orders in insertion order, which iteration follows
  seenRequest,  \* _seen_requests: request_id -> the order of its result
  seenFill,     \* _seen_fills
  position,     \* InventoryTracker: net lots of the instrument
  task,         \* where each coroutine stands, with its locals
  running,      \* the task in its loop over fills, None otherwise
  broker,       \* external: the broker's side of each order
  fills,        \* external: the broker's fills, oldest first
  closed,       \* history: orders a kill_all that ended well answers for
  doubtful      \* history: working orders of which an adapter has answered a
                \* cancellation and left them working

managerVars == <<order, book, seenRequest, seenFill, position>>
brokerVars == <<broker, fills>>
histories == <<closed, doubtful>>
vars == <<order, book, seenRequest, seenFill, position, task, running,
          broker, fills, closed, doubtful>>

Status == {"submitted", "partially_filled", "filled", "cancelled", "rejected"}

NoOrder == [req |-> None, status |-> "none", filled |-> 0, linked |-> FALSE]

\* linked: broker_order_id is set.
Orders == [req : Requests, status : Status, filled : Nat, linked : BOOLEAN]

Idle == [pc |-> "idle", req |-> None, order |-> None, kill |-> FALSE,
         upto |-> 0, at |-> 0, size |-> 0, aim |-> {}, reply |-> FALSE]

Places == {"idle", "risk", "sending", "sent", "asking", "apply", "cancel", "answered"}

TaskStates ==
  [pc : Places, req : Requests \cup {None}, order : OrderIds \cup {None},
   kill : BOOLEAN, upto : Nat, at : Nat, size : Nat, aim : SUBSET OrderIds,
   reply : BOOLEAN]

TypeOK ==
  /\ order \in [OrderIds -> Orders \cup {NoOrder}]
  /\ book \in Seq(OrderIds)
  /\ seenRequest \in [Requests -> OrderIds \cup {None}]
  /\ seenFill \subseteq Nat
  /\ position \in Int
  /\ task \in [Tasks -> TaskStates]
  /\ running \in Tasks \cup {None}
  /\ broker \in [OrderIds -> [state : {"none", "working", "done", "cancelled"},
                              filled : Nat]]
  /\ fills \in Seq([order : OrderIds, qty : FillSizes])
  /\ closed \subseteq OrderIds
  /\ doubtful \subseteq OrderIds

Init ==
  /\ order = [o \in OrderIds |-> NoOrder]
  /\ book = << >>
  /\ seenRequest = [r \in Requests |-> None]
  /\ seenFill = {}
  /\ position = 0
  /\ task = [t \in Tasks |-> Idle]
  /\ running = None
  /\ broker = [o \in OrderIds |-> [state |-> "none", filled |-> 0]]
  /\ fills = << >>
  /\ closed = {}
  /\ doubtful = {}

\* Task t is the one the event loop resumes, at place pc.
At(t, pc) == running = None /\ task[t].pc = pc

Goto(t, pc) == task' = [task EXCEPT ![t].pc = pc]

Done(t) == task' = [task EXCEPT ![t] = Idle]

-----------------------------------------------------------------------------
(* submit *)

\* Mutant: the result is never kept.
NotRemembered(r, o) == seenRequest

\* _seen_requests[request_id] = result
Remembered(r, o) == [seenRequest EXCEPT ![r] = o]

\* A repeated request gets its old result, which changes nothing; a new one
\* goes on to the risk gate.
Submit(t, r) ==
  /\ At(t, "idle")
  /\ seenRequest[r] = None
  /\ Concurrent \/ \A u \in Tasks : task[u].req # r
  /\ task' = [task EXCEPT ![t] = [Idle EXCEPT !.pc = "risk", !.req = r]]
  /\ UNCHANGED <<managerVars, running, brokerVars, histories>>

\* The gate refuses: the result is returned and not remembered.
RiskRefuses(t) ==
  /\ At(t, "risk")
  /\ Done(t)
  /\ UNCHANGED <<managerVars, running, brokerVars, histories>>

\* The gate accepts: the order exists before the broker has heard of it.
RiskAccepts(t, o) ==
  /\ At(t, "risk")
  /\ order[o] = NoOrder
  /\ order' = [order EXCEPT ![o] = [req |-> task[t].req, status |-> "submitted",
                                    filled |-> 0, linked |-> FALSE]]
  /\ book' = Append(book, o)
  /\ task' = [task EXCEPT ![t].pc = "sending", ![t].order = o]
  /\ UNCHANGED <<seenRequest, seenFill, position, running, brokerVars, histories>>

\* The broker's answer reaches submit.
Submitted(t) ==
  LET o == task[t].order IN
  /\ At(t, "sent")
  /\ order' = [order EXCEPT ![o].linked = TRUE]
  /\ seenRequest' = Remembered(task[t].req, o)
  /\ Done(t)
  /\ UNCHANGED <<book, seenFill, position, running, brokerVars, histories>>

\* The call raises, before the broker took the order or, with Timeouts, after.
SubmitRaises(t) ==
  /\ At(t, "sending") \/ (Timeouts /\ At(t, "sent"))
  /\ order' = [order EXCEPT ![task[t].order].status = "rejected"]
  /\ Done(t)
  /\ UNCHANGED <<book, seenRequest, seenFill, position, running, brokerVars, histories>>

-----------------------------------------------------------------------------
(* on_fill *)

\* Mutant: only the incoming lots are compared.
OverfillsAlone(rec, f) == f.qty > Quantity[rec.req]

Overfills(rec, f) == rec.filled + f.qty > Quantity[rec.req]

\* Mutant: no fill is ever taken for a repeated one.
Unseen(i) == i \notin {}

New(i) == i \notin seenFill

\* Mutant: the whole filled quantity moves the position again.
MovedByTotal(rec, f) ==
  IF rec.req \in Buys THEN rec.filled + f.qty ELSE -(rec.filled + f.qty)

\* What a fill of an order does to the net position.
Moved(rec, f) == IF rec.req \in Buys THEN f.qty ELSE -f.qty

\* Mutant: the status is left as it was.
FilledKeepsStatus(rec, f) == [rec EXCEPT !.filled = @ + f.qty]

FilledBy(rec, f) ==
  [rec EXCEPT !.filled = @ + f.qty,
              !.status = IF rec.filled + f.qty >= Quantity[rec.req]
                           THEN "filled" ELSE "partially_filled"]

\* Every fill of the model is of an order in _orders, which has it before the
\* broker does; a fill of somebody else's order would be marked seen and no more.
\* A fill seen for the first time is marked seen whether or not it is counted.
TakeFill(i) ==
  LET f == fills[i]
      rec == order[f.order]
  IN
  /\ seenFill' = seenFill \cup {i}
  /\ \/ /\ Overfills(rec, f)
        /\ UNCHANGED <<order, position>>
     \/ /\ ~Overfills(rec, f)
        /\ order' = [order EXCEPT ![f.order] = FilledBy(rec, f)]
        /\ position' = position + Moved(rec, f)
  /\ UNCHANGED <<book, seenRequest>>

\* The broker's callback; a fill it repeats changes nothing.
OnFill(i) ==
  /\ running = None
  /\ i \in 1..Len(fills)
  /\ New(i)
  /\ TakeFill(i)
  /\ UNCHANGED <<task, running, brokerVars, histories>>

-----------------------------------------------------------------------------
(* reconcile, open_orders (which adds no step of its own) and kill_all *)

Reconcile(t, kill) ==
  /\ At(t, "idle")
  /\ task' = [task EXCEPT ![t] = [Idle EXCEPT !.pc = "asking", !.kill = kill]]
  /\ UNCHANGED <<managerVars, running, brokerVars, histories>>

\* Mutant: the newest fill is left out.
AllButLast == IF fills = << >> THEN 0 ELSE Len(fills) - 1

\* get_fills returns what the broker has filled by now...
AllFills == Len(fills)

GetFills(t) ==
  /\ task[t].pc = "asking"
  /\ task' = [task EXCEPT ![t].pc = "apply", ![t].upto = AllFills]
  /\ UNCHANGED <<managerVars, running, brokerVars, histories>>

\* ... and the task finds it when it runs again, maybe much later.
ApplyFill(t) ==
  LET i == task[t].at + 1
      f == fills[i]
  IN
  /\ running \in {None, t}
  /\ task[t].pc = "apply"
  /\ i <= task[t].upto
  /\ running' = t
  /\ task' = [task EXCEPT ![t].at = i]
  /\ IF New(i) /\ order[f.order].linked
       THEN TakeFill(i)
       ELSE UNCHANGED managerVars
  /\ UNCHANGED <<brokerVars, histories>>

\* Mutant: a partly filled order no longer counts as open.
IsUntouched(rec) == rec.status = "submitted"

IsOpen(rec) == rec.status \in {"submitted", "partially_filled"}

\* Places in _orders after place i of orders kill_all cancels.
ToCancel(ord, i) ==
  {j \in (i + 1)..Len(book) : IsOpen(ord[book[j]]) /\ ord[book[j]].linked}

\* kill_all's loop from place i: await the next cancellation, or end.
Iterate(t, ord, i, aim) ==
  \/ \E j \in ToCancel(ord, i) :
       /\ \A k \in ToCancel(ord, i) : j <= k
       /\ task' = [task EXCEPT ![t] =
            [Idle EXCEPT !.pc = "cancel", !.kill = TRUE, !.order = book[j],
                         !.at = j, !.size = Len(book), !.aim = aim]]
       /\ UNCHANGED closed
  \/ /\ ToCancel(ord, i) = {}
     /\ Done(t)
     /\ closed' = closed \cup aim

Linked == {o \in OrderIds : order[o].linked}

\* The reconciliation ends, well or in a logged exception.
ReconcileEnds(t) ==
  /\ \/ running \in {None, t} /\ task[t].pc = "apply" /\ task[t].at = task[t].upto
     \/ Timeouts /\ At(t, "asking")
  /\ running' = None
  /\ IF task[t].kill
       THEN Iterate(t, order, 0, Linked)
       ELSE Done(t) /\ UNCHANGED closed
  /\ UNCHANGED <<managerVars, brokerVars, doubtful>>

-----------------------------------------------------------------------------
(* cancel, alone or from kill_all *)

Cancel(t, o) ==
  /\ At(t, "idle")
  /\ order[o].linked
  /\ task' = [task EXCEPT ![t] = [Idle EXCEPT !.pc = "cancel", !.order = o]]
  /\ UNCHANGED <<managerVars, running, brokerVars, histories>>

\* The orders once the broker's answer is in: a refusal changes none.
AfterCancel(t) ==
  IF task[t].reply
    THEN [order EXCEPT ![task[t].order].status = "cancelled"]
    ELSE order

CancelReturns(t) ==
  /\ At(t, "answered")
  /\ ~task[t].kill
  /\ order' = AfterCancel(t)
  /\ Done(t)
  /\ UNCHANGED <<book, seenRequest, seenFill, position, running, brokerVars, histories>>

\* kill_all goes on from the cancelled order, unless _orders grew meanwhile:
\* then the iteration over the dictionary raises.
KillContinues(t) ==
  /\ At(t, "answered")
  /\ task[t].kill
  /\ order' = AfterCancel(t)
  /\ \/ /\ Len(book) # task[t].size
        /\ Done(t)
        /\ UNCHANGED closed
     \/ /\ Len(book) = task[t].size
        /\ Iterate(t, AfterCancel(t), task[t].at, task[t].aim)
  /\ UNCHANGED <<book, seenRequest, seenFill, position, running, brokerVars, doubtful>>

\* The broker's cancel_order raises, and with it cancel or kill_all.
CancelRaises(t) ==
  /\ Timeouts
  /\ At(t, "cancel") \/ At(t, "answered")
  /\ Done(t)
  /\ UNCHANGED <<managerVars, running, brokerVars, histories>>

-----------------------------------------------------------------------------
(* The broker *)

BrokerAccepts(t) ==
  /\ task[t].pc = "sending"
  /\ broker' = [broker EXCEPT ![task[t].order].state = "working"]
  /\ Goto(t, "sent")
  /\ UNCHANGED <<managerVars, running, fills, histories>>

BrokerFills(o, q) ==
  LET all == broker[o].filled + q
      ordered == Quantity[order[o].req]
  IN
  /\ broker[o].state = "working"
  /\ Len(fills) < MaxFills
  /\ Overfill \/ all <= ordered
  /\ fills' = Append(fills, [order |-> o, qty |-> q])
  /\ broker' = [broker EXCEPT ![o].filled = all,
                              ![o].state = IF all >= ordered THEN "done" ELSE @]
  /\ doubtful' = IF all >= ordered THEN doubtful \ {o} ELSE doubtful
  /\ UNCHANGED <<managerVars, task, running, closed>>

(* Every adapter's cancel_order.  Each call may meet another adapter of      *)
(* Adapters, which is more than any one of them does.                       *)

\* What adapter a may answer (yes) and have done about an order that works or
\* does not: paper cancels what works and refuses the rest; ccxt makes a
\* refusal of every exception, whatever became of the order; ibkr only passes
\* the request on, and says yes to an order long filled; metatrader closes the
\* position of an order that filled, also in part, and forgets the order first.
Answers(a, works, yes, done) ==
  /\ done => works
  /\ a = "paper" => yes = works /\ done = works
  /\ a = "ccxt" => (yes => done)
  /\ a = "ibkr" => (done => yes)

BrokerCancels(t) ==
  LET o == task[t].order
      works == broker[o].state = "working"
  IN
  /\ task[t].pc = "cancel"
  /\ \E a \in Adapters, yes \in BOOLEAN, done \in BOOLEAN :
       /\ Answers(a, works, yes, done)
       /\ task' = [task EXCEPT ![t].pc = "answered", ![t].reply = yes]
       /\ broker' = IF done THEN [broker EXCEPT ![o].state = "cancelled"] ELSE broker
       /\ doubtful' = IF works /\ ~done THEN doubtful \cup {o} ELSE doubtful \ {o}
  /\ UNCHANGED <<managerVars, running, fills, closed>>

\* A request that was only passed on, or whose answer was lost, is carried out.
CancelLands(o) ==
  /\ broker[o].state = "working" /\ o \in doubtful
  /\ broker' = [broker EXCEPT ![o].state = "cancelled"]
  /\ doubtful' = doubtful \ {o}
  /\ UNCHANGED <<managerVars, task, running, fills, closed>>

-----------------------------------------------------------------------------

Step(t) ==
  \/ RiskRefuses(t) \/ \E o \in OrderIds : RiskAccepts(t, o)
  \/ Submitted(t) \/ SubmitRaises(t) \/ BrokerAccepts(t)
  \/ GetFills(t) \/ ApplyFill(t) \/ ReconcileEnds(t)
  \/ BrokerCancels(t) \/ CancelReturns(t) \/ KillContinues(t) \/ CancelRaises(t)

Next ==
  \/ \E t \in Tasks :
       \/ Step(t)
       \/ \E r \in Requests : Submit(t, r)
       \/ \E kill \in BOOLEAN : Reconcile(t, kill)
       \/ \E o \in OrderIds : Cancel(t, o)
  \/ \E i \in 1..MaxFills : OnFill(i)
  \/ \E o \in OrderIds : CancelLands(o) \/ \E q \in FillSizes : BrokerFills(o, q)

\* The event loop resumes every task and the broker answers every call.
Fairness == \A t \in Tasks : WF_vars(Step(t))

Spec == Init /\ [][Next]_vars

FairSpec == Spec /\ Fairness

-----------------------------------------------------------------------------
(* Properties *)

\* No order is filled beyond its quantity, whatever the broker reports and
\* however callback and reconciliation interleave (manager.py:205-215).
FilledWithinQuantity ==
  \A o \in OrderIds :
    order[o] # NoOrder => order[o].filled <= Quantity[order[o].req]

\* The manager never counts lots the broker did not fill: a fill that comes
\* by callback and by reconciliation counts once (manager.py:199-201).
FilledIsBacked == \A o \in OrderIds : order[o].filled <= broker[o].filled

Bought == {o \in OrderIds : order[o] # NoOrder /\ order[o].req \in Buys}
Sold == {o \in OrderIds : order[o] # NoOrder /\ order[o].req \notin Buys}
Filled == [o \in OrderIds |-> order[o].filled]

\* The position is the signed sum of what the orders were filled
\* (inventory.py:23-79), through every partial and refused fill.
PositionExplained ==
  position = SumFunctionOnSet(Filled, Bought) - SumFunctionOnSet(Filled, Sold)

\* A broker whose calls do not time out sees an order of each request once
\* when no request is submitted twice at a time (manager.py:46-48).
OneOrderPerRequest ==
  \A o, p \in OrderIds :
    /\ broker[o].state # "none" /\ broker[p].state # "none"
    /\ order[o].req = order[p].req
    => o = p

\* Reported as filled exactly when filled in full: no answer that arrives
\* late, to submit or to cancel, writes over the fill (manager.py:101-105, 171-173),
\* if the adapter says yes only to a cancellation it carried out (paper, ccxt).
FilledMeansFilled ==
  \A o \in OrderIds :
    order[o] # NoOrder =>
      (order[o].status = "filled" <=> order[o].filled = Quantity[order[o].req])

\* When kill_all ends without raising, every order that had its broker id when
\* the loop began no longer works at the broker (manager.py:185-195), unless a
\* cancellation of it was answered, by yes or by no, while it went on working:
\* kill_all itself passes over none.
KilledAreClosed == \A o \in closed : broker[o].state = "working" => o \in doubtful

\* What the docstring of kill_all promises (manager.py:186): when it ends
\* without raising, no order that was in _orders when its loop began still
\* works at the broker.
KillEndsWell(t) ==
  /\ task[t].kill /\ task'[t] = Idle
  /\ task[t].pc = "apply" \/ (task[t].pc = "answered" /\ Len(book) = task[t].size)

KillAllCancelsAll ==
  [][\A t \in Tasks :
       KillEndsWell(t) => \A o \in OrderIds : broker'[o].state # "working"]_vars

\* A reconciliation that asks after a fill was made counts or refuses it,
\* provided the order has its broker id (manager.py:134-159).
ReconcileSeesFills ==
  \A t \in Tasks, i \in 1..MaxFills :
    (task[t].pc = "asking" /\ i \in 1..Len(fills) /\ order[fills[i].order].linked)
      ~> i \in seenFill
=============================================================================
