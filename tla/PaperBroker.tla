----------------------------- MODULE PaperBroker -----------------------------
(***************************************************************************)
(* The paper broker (execution/brokers/paper.py): market, limit and stop   *)
(* orders against one synthetic price, partial fills, bracket legs that    *)
(* cancel each other (OCO), amendments, cancels, flattening and the daily  *)
(* rollover.                                                               *)
(*                                                                         *)
(* The broker is driven from one event loop.  Its coroutines only let      *)
(* others run at the simulated latency in front of a submission or a       *)
(* price, so a handler is one step, but for two that are cut: the loop of  *)
(* on_price_update over the resting orders (nothing runs between its       *)
(* visits) and flatten_all, whose closing orders are submitted one by one  *)
(* and let others run in between exactly when latency is configured.       *)
(*                                                                         *)
(* A broker order id is the position of the order in `orders', as          *)
(* paper_<counter> is.  Prices and lots are small integers; slippage,      *)
(* spread and commission only change the price of a fill and are left out. *)
(***************************************************************************)
EXTENDS Integers, Sequences, FiniteSets, Functions

CONSTANTS
  Symbols,       \* instruments clients trade
  Setups,        \* brokers and their clients, see Setup
  Prices,        \* prices the market may go to
  StartPrice,
  Penetration,   \* paper_limit_penetration_ticks
  Flatteners,    \* callers of flatten_all and of rollover(auto_flatten)
  MaxSubmits,    \* bound: client submissions in a behaviour
  MaxOrders,     \* bound: orders a broker holds, bracket legs included
  MaxSession     \* bound: the last session date

NoPrice == 0     \* Python None in a price field

ASSUME PriceAssumption ==
  /\ Prices \subseteq Nat \ {NoPrice} /\ StartPrice \in Prices /\ Penetration \in Nat
Request(type, side, inst, qty, limit, stop, tp) ==
  [type |-> type, side |-> side, inst |-> inst, qty |-> qty,
   limit |-> limit, stop |-> stop, tp |-> tp]

Requests ==
  [type : {"market", "limit", "stop"}, side : {"buy", "sell"}, inst : Symbols,
   qty : Nat \ {0}, limit : Nat, stop : Nat, tp : Nat]

\* A broker with paper_partial_fill_prob > 0 or not and paper_latency_ms > 0 or
\* not, the orders its clients may submit, the <<field, value>> pairs they may
\* amend, and the orders it may hold.
Setup(partial, latency, requests, amendments, room) ==
  [partial |-> partial, latency |-> latency, requests |-> requests,
   amendments |-> amendments, room |-> room]

\* Prices of an order can be amended, and what it has left to fill.
ASSUME SetupAssumption ==
  \A s \in Setups :
    /\ s.requests \subseteq Requests
    /\ \A a \in s.amendments : \/ a[1] = "qty" /\ a[2] \in Nat \ {0}
                               \/ a[1] \in {"limit", "stop", "tp"} /\ a[2] \in Nat
    /\ s.partial \in BOOLEAN /\ s.latency \in BOOLEAN
    /\ s.room \in 1 .. MaxOrders

VARIABLES
  setup,      \* how the broker is configured and used
  orders,     \* PaperBroker._orders, in submission order
  fills,      \* PaperBroker._fills
  children,   \* PaperBroker._bracket_children: entry -> the ids of its legs
  price,      \* PaperBroker._current_price
  tick,       \* on_price_update under way: next order to visit, last one
  flatten,    \* flatten_all calls under way: the closes still to submit
  session,    \* PaperBroker._session_date, as a day number
  submits     \* number of client submissions

vars == <<setup, orders, fills, children, price, tick, flatten, session, submits>>

Idle == [next |-> 1, last |-> 0]
NoFlatten == [on |-> FALSE, closes |-> {}, roll |-> FALSE]

Init ==
  /\ setup \in Setups
  /\ orders = <<>>
  /\ fills = <<>>
  /\ children = <<>>
  /\ price = StartPrice
  /\ tick = Idle
  /\ flatten = [f \in Flatteners |-> NoFlatten]
  /\ session = 1
  /\ submits = 0

Ids == DOMAIN orders

TypeOK ==
  /\ setup \in Setups
  /\ \A o \in Ids :
       /\ orders[o].status \in {"submitted", "filled", "cancelled"}
       /\ orders[o].qty \in Nat /\ orders[o].filled \in Nat
       /\ orders[o].parent \in 0 .. Len(orders)
  /\ \A i \in DOMAIN fills : fills[i].order \in Ids /\ fills[i].qty \in Nat \ {0}
  /\ \A e \in DOMAIN children : e \in Ids /\ children[e] \subseteq Ids
  /\ price \in Prices
  /\ tick.next \in Nat /\ tick.last \in 0 .. Len(orders)

\* No other handler runs now: the loop of on_price_update is in progress, or a
\* flatten_all that never yields is.
LoopBusy == tick # Idle
FlattenBusy == ~setup.latency /\ \E f \in Flatteners : flatten[f].on

-----------------------------------------------------------------------------
(* Positions: the fills of an instrument, signed by the side of their order. *)

Signed(fl) == IF orders[fl.order].side = "buy" THEN fl.qty ELSE -fl.qty

Net(inst) ==
  SumFunctionOnSet([i \in DOMAIN fills |-> Signed(fills[i])],
                   {i \in DOMAIN fills : orders[fills[i].order].inst = inst})

Instruments == {orders[o].inst : o \in Ids}

-----------------------------------------------------------------------------
(* Fills *)

\* Would this order trade at price p?  Limits and stops need the market to go
\* Penetration ticks through their price; one without a price never trades.
Marketable(ord, p) ==
  \/ ord.type = "market"
  \/ /\ ord.type = "limit" /\ ord.limit # NoPrice
     /\ IF ord.side = "buy" THEN p <= ord.limit - Penetration
                            ELSE p >= ord.limit + Penetration
  \/ /\ ord.type = "stop" /\ ord.stop # NoPrice
     /\ IF ord.side = "buy" THEN p >= ord.stop + Penetration
                            ELSE p <= ord.stop - Penetration

\* Mutant: a partial fill may be rounded down to nothing.
FillQuantitiesFromZero(q) == IF setup.partial /\ q > 1 THEN 0 .. q ELSE {q}

\* A partial fill takes between half (rounded half up) and all of the quantity;
\* a single lot is never split.  (0.99 of a quantity rounds to all of it up to
\* fifty lots, far above the quantities checked.)  Quantities are whole lots, as
\* the producers send them; of a fraction the rounding may take more than there
\* is, 1.6 of it to 2.
FillQuantities(q) == IF setup.partial /\ q > 1 THEN ((q + 1) \div 2) .. q ELSE {q}

\* A request on the book, of its own or as the leg of an entry.  No caller sends
\* a parent_order_id of its own, which the broker would take for an entry.
NewOrder(r, parent) ==
  [type |-> r.type, side |-> r.side, inst |-> r.inst, qty |-> r.qty,
   limit |-> r.limit, stop |-> r.stop, tp |-> r.tp, asked |-> r.qty,
   filled |-> 0, status |-> "submitted", parent |-> parent]

\* _spawn_bracket: a stop leg and a take-profit leg for what the entry has left
\* before this fill is taken off; every fill of an entry spawns its own legs.
Legs(e, ent) ==
  LET side == IF ent.side = "buy" THEN "sell" ELSE "buy"
      leg(type, limit, stop) ==
        NewOrder(Request(type, side, ent.inst, ent.qty, limit, stop, NoPrice), e)
  IN IF ent.parent # 0 THEN <<>>
     ELSE (IF ent.stop # NoPrice THEN <<leg("stop", NoPrice, ent.stop)>> ELSE <<>>)
          \o (IF ent.tp # NoPrice THEN <<leg("limit", ent.tp, NoPrice)>> ELSE <<>>)

\* Mutant: the quantity still to fill is never reduced.
ReduceFilledOnly(ord, q) ==
  [ord EXCEPT !.filled = @ + q, !.status = IF q < ord.qty THEN @ ELSE "filled"]

Reduce(ord, q) ==
  [ord EXCEPT !.filled = @ + q,
              !.qty = @ - q,
              !.status = IF q < ord.qty THEN @ ELSE "filled"]

\* Mutant: the linkage is looked up under the leg's own id and finds nothing.
SiblingsOfSelf(ords, o) == IF o \in DOMAIN children THEN children[o] ELSE {}

\* The other legs the linkage knows: only those spawned by the last fill of the
\* entry, for each spawn overwrites the linkage.
Siblings(ords, o) ==
  IF ords[o].parent \in DOMAIN children THEN children[ords[o].parent] \ {o} ELSE {}

CancelSiblings(ords, o) ==
  [k \in DOMAIN ords |->
     IF k \in Siblings(ords, o) /\ ords[k].status = "submitted"
       THEN [ords[k] EXCEPT !.status = "cancelled"] ELSE ords[k]]

\* _fill: order o of ords trades q lots.
Fill(ords, o, q) ==
  LET legs == Legs(o, ords[o])
      reduced == [ords EXCEPT ![o] = Reduce(@, q)]
  IN
  /\ Len(ords) + Len(legs) <= setup.room
  /\ orders' = CancelSiblings(reduced, o) \o legs
  /\ fills' = Append(fills, [order |-> o, qty |-> q])
  /\ children' =
       IF legs = <<>> THEN children
       ELSE [e \in DOMAIN children \cup {o} |->
               IF e = o THEN (Len(ords) + 1) .. (Len(ords) + Len(legs)) ELSE children[e]]

-----------------------------------------------------------------------------
(* Submission: the order gets the next id and trades at once if it can. *)

Accept(r) ==
  LET ord == NewOrder(r, 0)
      ords == Append(orders, ord)
  IN
  /\ Len(ords) <= setup.room
  /\ IF Marketable(ord, price)
       THEN \E q \in FillQuantities(ord.qty) : Fill(ords, Len(ords), q)
       ELSE orders' = ords /\ UNCHANGED <<fills, children>>

SubmitOrder(r) ==
  /\ ~LoopBusy /\ ~FlattenBusy
  /\ submits < MaxSubmits
  /\ submits' = submits + 1
  /\ Accept(r)
  /\ UNCHANGED <<setup, price, tick, flatten, session>>

\* Mutant: the guard forgets that the order may have filled.
CancellableAny(o) == orders[o].status # "cancelled"

Cancellable(o) == orders[o].status \notin {"filled", "cancelled"}

CancelOrder(o) ==
  /\ ~LoopBusy /\ ~FlattenBusy
  /\ Cancellable(o)
  /\ orders' = [orders EXCEPT ![o].status = "cancelled"]
  /\ UNCHANGED <<setup, fills, children, price, tick, flatten, session, submits>>

\* amend_order of a price or a quantity: a new quantity is what is left to fill;
\* the order is not tried against the market before the next price.  Any other
\* attribute, its status included, may be set as well; no caller does.
AmendOrder(o, field, value) ==
  /\ ~LoopBusy /\ ~FlattenBusy
  /\ orders[o].status \notin {"filled", "cancelled"}
  /\ orders' =
       [orders EXCEPT ![o] =
          IF field = "qty" THEN [@ EXCEPT !.qty = value, !.asked = orders[o].filled + value]
                           ELSE [@ EXCEPT ![field] = value]]
  /\ UNCHANGED <<setup, fills, children, price, tick, flatten, session, submits>>

-----------------------------------------------------------------------------
(* on_price_update: the price moves, then the orders present are visited in   *)
(* the order of their submission; legs spawned meanwhile wait for the next    *)
(* price.                                                                     *)

PriceUpdate(p) ==
  /\ ~LoopBusy /\ ~FlattenBusy
  /\ price' = p
  /\ tick' = [next |-> 1, last |-> Len(orders)]
  /\ UNCHANGED <<setup, orders, fills, children, flatten, session, submits>>

\* Mutant: what a partial fill left is never visited again.
TradesNowFresh(o) ==
  orders[o].status = "submitted" /\ orders[o].filled = 0 /\ Marketable(orders[o], price)

TradesNow(o) == orders[o].status = "submitted" /\ Marketable(orders[o], price)

Visit ==
  LET o == tick.next
  IN
  /\ LoopBusy
  /\ IF o <= tick.last
       THEN /\ tick' = IF o = tick.last THEN Idle ELSE [tick EXCEPT !.next = o + 1]
            /\ IF TradesNow(o)
                 THEN \E q \in FillQuantities(orders[o].qty) : Fill(orders, o, q)
                 ELSE UNCHANGED <<orders, fills, children>>
       ELSE tick' = Idle /\ UNCHANGED <<orders, fills, children>>
  /\ UNCHANGED <<setup, price, flatten, session, submits>>

-----------------------------------------------------------------------------
(* flatten_all and rollover *)

CancelAll(ords) ==
  [o \in DOMAIN ords |->
     IF ords[o].status = "submitted" THEN [ords[o] EXCEPT !.status = "cancelled"]
                                     ELSE ords[o]]

\* Mutant: the close is for the side of the position and doubles it.
CloseSameSide(inst) ==
  Request("market", IF Net(inst) > 0 THEN "buy" ELSE "sell", inst,
          IF Net(inst) > 0 THEN Net(inst) ELSE -Net(inst), NoPrice, NoPrice, NoPrice)

\* The market order that would close the position of an instrument now.
Close(inst) ==
  Request("market", IF Net(inst) > 0 THEN "sell" ELSE "buy", inst,
          IF Net(inst) > 0 THEN Net(inst) ELSE -Net(inst), NoPrice, NoPrice, NoPrice)

\* cancel_all_orders, then the positions are read: no other handler in between.
StartFlatten(f, roll) ==
  /\ ~LoopBusy /\ ~FlattenBusy
  /\ ~flatten[f].on
  /\ roll => session < MaxSession /\ \A g \in Flatteners : ~flatten[g].roll
  /\ orders' = CancelAll(orders)
  /\ flatten' = [flatten EXCEPT ![f] =
       [on |-> TRUE, roll |-> roll,
        closes |-> {Close(inst) : inst \in {i \in Instruments : Net(i) # 0}}]]
  /\ UNCHANGED <<setup, fills, children, price, tick, session, submits>>

\* The closes were computed when the flatten began.
SubmitClose(f, r) ==
  /\ ~LoopBusy
  /\ r \in flatten[f].closes
  /\ flatten' = [flatten EXCEPT ![f].closes = @ \ {r}]
  /\ Accept(r)
  /\ UNCHANGED <<setup, price, tick, session, submits>>

FinishFlatten(f) ==
  /\ ~LoopBusy
  /\ flatten[f].on /\ flatten[f].closes = {}
  /\ flatten' = [flatten EXCEPT ![f] = NoFlatten]
  /\ session' = IF flatten[f].roll THEN session + 1 ELSE session
  /\ UNCHANGED <<setup, orders, fills, children, price, tick, submits>>

\* rollover(auto_flatten=False): positions and resting orders carry over.
Rollover ==
  /\ ~LoopBusy /\ ~FlattenBusy
  /\ session < MaxSession /\ \A g \in Flatteners : ~flatten[g].roll
  /\ session' = session + 1
  /\ UNCHANGED <<setup, orders, fills, children, price, tick, flatten, submits>>

Next ==
  \/ \E r \in setup.requests : SubmitOrder(r)
  \/ \E o \in Ids : CancelOrder(o)
  \/ \E o \in Ids, a \in setup.amendments : AmendOrder(o, a[1], a[2])
  \/ \E p \in Prices : PriceUpdate(p)
  \/ Visit
  \/ \E f \in Flatteners, roll \in BOOLEAN : StartFlatten(f, roll)
  \/ \E f \in Flatteners : \E r \in flatten[f].closes : SubmitClose(f, r)
  \/ \E f \in Flatteners : FinishFlatten(f)
  \/ Rollover

Spec == Init /\ [][Next]_vars

\* The loop finishes, and the feed keeps delivering prices.
Fairness == WF_vars(Visit) /\ WF_vars(\E p \in Prices : PriceUpdate(p))

FairSpec == Spec /\ Fairness

-----------------------------------------------------------------------------
(* Properties *)

\* Nothing is traded twice or lost: what an order traded and what it has left
\* make up what was asked of it, through partial fills and amendments, and its
\* recorded fills are exactly what it traded (paper.py:424-464).
Conserved ==
  \A o \in Ids :
    /\ orders[o].filled + orders[o].qty = orders[o].asked
    /\ orders[o].status = "filled" <=> orders[o].qty = 0
    /\ orders[o].filled =
         SumFunctionOnSet([i \in DOMAIN fills |-> fills[i].qty],
                          {i \in DOMAIN fills : fills[i].order = o})

\* A cancelled or filled order never trades again nor comes back, whatever a
\* price loop in progress has already decided to visit (paper.py:81-89).
FinalIsFinal ==
  [][\A o \in Ids :
       orders[o].status # "submitted" =>
         orders'[o].status = orders[o].status /\ orders'[o].filled = orders[o].filled]_vars

LegsOf(e) == {o \in Ids : orders[o].parent = e}

\* OCO (paper.py:11-13): of the legs an entry spawned at most one trades, the
\* first to trigger cancels the other.
LegsExclude ==
  \A e \in Ids : Cardinality({o \in LegsOf(e) : orders[o].filled > 0}) <= 1

\* Nobody asks a resting order, which may be a leg, for another quantity.
QuantitiesStand == \A a \in setup.amendments : a[1] # "qty"

\* That is so without partial fills, and then the legs of an entry never sell
\* more than the entry bought, unless a quantity is amended: its own bracket
\* cannot reverse the position (paper.py:424-464, 508-540).
OneLegTrades ==
  ~setup.partial =>
    /\ LegsExclude
    /\ QuantitiesStand =>
         \A e \in Ids :
           SumFunctionOnSet([o \in Ids |-> orders[o].filled], LegsOf(e)) <= orders[e].filled

\* When flatten_all returns, no order rests and every position is closed,
\* unless closes fill in part or others run between them (paper.py:192-197).
FlattenLeavesFlat ==
  [][\A f \in Flatteners :
       ~setup.partial /\ ~setup.latency /\ flatten[f].on /\ ~flatten'[f].on =>
         /\ \A o \in Ids : orders[o].status # "submitted"
         /\ \A inst \in Instruments : Net(inst) = 0]_vars

\* paper.py:193: flatten_all closes positions.  Where clients only ever buy, a
\* close never opens a short one.
CloseNeverReverses == \A inst \in Instruments : Net(inst) >= 0

Working(o) ==
  IF o \in Ids THEN orders[o].type = "market" /\ orders[o].status = "submitted"
               ELSE FALSE

\* What a partial fill leaves of a market order is filled by later prices.
RemainderIsFilled ==
  \A o \in 1 .. MaxOrders :
    Working(o) ~> ~Working(o)
=============================================================================
