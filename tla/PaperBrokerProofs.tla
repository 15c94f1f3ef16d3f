-------------------------- MODULE PaperBrokerProofs --------------------------
(***************************************************************************)
(* The paper broker on any requests, amendments and prices, with any       *)
(* number of callers of flatten_all: it loses and doubles no lot, final    *)
(* orders stay final, the legs of an entry exclude each other when orders  *)
(* fill whole, and a flatten that nothing runs beside leaves nothing.      *)
(***************************************************************************)
EXTENDS PaperBroker, Sums, SequenceTheorems, TLAPS

OrderRecords ==
  [type : {"market", "limit", "stop"}, side : {"buy", "sell"}, inst : Symbols,
   qty : Nat, limit : Nat, stop : Nat, tp : Nat, asked : Nat, filled : Nat,
   status : {"submitted", "filled", "cancelled"}, parent : Nat]

FillRecords == [order : Nat \ {0}, qty : Nat \ {0}]

FlattenStates == [on : BOOLEAN, closes : SUBSET Requests, roll : BOOLEAN]

\* The book of orders ords, whose legs are linked by kids.
BookTypes(ords, kids) ==
  /\ ords \in Seq(OrderRecords)
  /\ \A o \in DOMAIN ords : ords[o].parent <= Len(ords)
  /\ \A e \in DOMAIN kids : e \in DOMAIN ords /\ kids[e] \subseteq DOMAIN ords

RestTypes ==
  /\ setup \in Setups /\ price \in Prices
  /\ tick \in [next : Nat \ {0}, last : Nat] /\ tick.last <= Len(orders)
  /\ flatten \in [Flatteners -> FlattenStates]
  /\ fills \in Seq(FillRecords)
  /\ \A i \in DOMAIN fills : fills[i].order \in DOMAIN orders

\* What the fills say of an order.
Quantities == [i \in DOMAIN fills |-> fills[i].qty]
FillsOf(o) == {i \in DOMAIN fills : fills[i].order = o}
Traded(o) == SumFunctionOnSet(Quantities, FillsOf(o))

\* An order whose fills are n lots.
Settled(ord, n) ==
  /\ ord.filled + ord.qty = ord.asked
  /\ ord.status = "filled" <=> ord.qty = 0
  /\ ord.filled = n

BrokerInv ==
  /\ BookTypes(orders, children) /\ RestTypes
  /\ \A o \in Ids : Settled(orders[o], Traded(o))

-----------------------------------------------------------------------------
(* Sequences and requests *)

\* A function on the first n naturals is a sequence of n.
LEMMA FunctionIsSeq ==
  ASSUME NEW S, NEW n \in Nat, NEW s \in [1 .. n -> S]
  PROVE  s \in Seq(S) /\ Len(s) = n /\ DOMAIN s = 1 .. n
<1>1. s \in Seq(S)
  BY SeqDef
<1>2. DOMAIN s = 1 .. n
  OBVIOUS
<1>3. Len(s) \in Nat /\ DOMAIN s = 1 .. Len(s)
  BY <1>1, LenProperties
<1>4. Len(s) = n
  <2> DEFINE m == Len(s)
  <2>1. m \in Nat /\ 1 .. m = 1 .. n
    BY <1>2, <1>3
  <2> HIDE DEF m
  <2>2. (m \in 1 .. m <=> m \in 1 .. n) /\ (n \in 1 .. n <=> n \in 1 .. m)
    BY <2>1
  <2>3. m = n
    BY <2>1, <2>2
  <2> QED
    BY <2>3 DEF m
<1> QED
  BY <1>1, <1>2, <1>4

\* A request on the book.
LEMMA NewOrderType ==
  ASSUME NEW r \in Requests, NEW e \in Nat
  PROVE  /\ NewOrder(r, e) \in OrderRecords
         /\ NewOrder(r, e).qty = r.qty /\ NewOrder(r, e).asked = r.qty
         /\ NewOrder(r, e).filled = 0 /\ NewOrder(r, e).status = "submitted"
         /\ NewOrder(r, e).parent = e /\ NewOrder(r, e).type = r.type
         /\ NewOrder(r, e).side = r.side /\ NewOrder(r, e).inst = r.inst
         /\ NewOrder(r, e).stop = r.stop /\ NewOrder(r, e).tp = r.tp
  BY DEF NewOrder, Requests, OrderRecords

\* A leg just spawned by entry e.
FreshLeg(leg, e, ent) ==
  /\ leg \in OrderRecords
  /\ leg.qty = ent.qty /\ leg.asked = ent.qty /\ leg.filled = 0
  /\ leg.status = "submitted" /\ leg.parent = e

\* The legs an entry spawns.
LEMMA LegsType ==
  ASSUME NEW e \in Nat, NEW ent \in OrderRecords, ent.qty # 0
  PROVE  /\ Legs(e, ent) \in Seq(OrderRecords)
         /\ \A i \in 1 .. Len(Legs(e, ent)) : FreshLeg(Legs(e, ent)[i], e, ent)
         /\ ent.parent # 0 => Legs(e, ent) = <<>>
         /\ ent.stop = NoPrice /\ ent.tp = NoPrice => Legs(e, ent) = <<>>
<1> DEFINE side == IF ent.side = "buy" THEN "sell" ELSE "buy"
           stop == NewOrder(Request("stop", side, ent.inst, ent.qty, NoPrice, ent.stop, NoPrice), e)
           take == NewOrder(Request("limit", side, ent.inst, ent.qty, ent.tp, NoPrice, NoPrice), e)
           first == IF ent.stop # NoPrice THEN <<stop>> ELSE <<>>
           second == IF ent.tp # NoPrice THEN <<take>> ELSE <<>>
<1>1. FreshLeg(stop, e, ent) /\ FreshLeg(take, e, ent)
  <2> DEFINE r == Request("stop", side, ent.inst, ent.qty, NoPrice, ent.stop, NoPrice)
             s == Request("limit", side, ent.inst, ent.qty, ent.tp, NoPrice, NoPrice)
  <2>1. r \in Requests /\ r.qty = ent.qty /\ s \in Requests /\ s.qty = ent.qty
    BY DEF Request, Requests, OrderRecords, NoPrice
  <2> HIDE DEF r, s
  <2>2. FreshLeg(NewOrder(r, e), e, ent) /\ FreshLeg(NewOrder(s, e), e, ent)
    BY <2>1, NewOrderType DEF FreshLeg
  <2> QED
    BY <2>2 DEF r, s
<1>2. Legs(e, ent) = IF ent.parent # 0 THEN <<>> ELSE first \o second
  BY DEF Legs
<1> HIDE DEF stop, take
<1>3. stop \in OrderRecords /\ take \in OrderRecords
  BY <1>1 DEF FreshLeg
<1>4. /\ first \in Seq(OrderRecords) /\ \A i \in 1 .. Len(first) : FreshLeg(first[i], e, ent)
      /\ second \in Seq(OrderRecords) /\ \A i \in 1 .. Len(second) : FreshLeg(second[i], e, ent)
  BY <1>1, <1>3
<1>5. ent.stop = NoPrice /\ ent.tp = NoPrice => first = <<>> /\ second = <<>>
  OBVIOUS
<1> HIDE DEF first, second
<1>6. /\ first \o second \in Seq(OrderRecords)
      /\ Len(first \o second) = Len(first) + Len(second)
      /\ \A i \in 1 .. Len(first) + Len(second) :
           (first \o second)[i] = IF i <= Len(first) THEN first[i] ELSE second[i - Len(first)]
  BY <1>4, ConcatProperties
<1>7. Len(first) \in Nat /\ Len(second) \in Nat
  BY <1>4
<1>8. \A i \in 1 .. Len(first \o second) : FreshLeg((first \o second)[i], e, ent)
  <2> TAKE i \in 1 .. Len(first \o second)
  <2>1. CASE i <= Len(first)
    <3>1. i \in 1 .. Len(first) /\ (first \o second)[i] = first[i]
      BY <1>6, <1>7, <2>1
    <3> QED
      BY <1>4, <3>1
  <2>2. CASE ~ (i <= Len(first))
    <3>1. i - Len(first) \in 1 .. Len(second) /\ (first \o second)[i] = second[i - Len(first)]
      BY <1>6, <1>7, <2>2
    <3> QED
      BY <1>4, <3>1
  <2> QED
    BY <2>1, <2>2
<1>9. first = <<>> /\ second = <<>> => first \o second = <<>>
  BY <1>4, ConcatEmptySeq
<1>10. <<>> \in Seq(OrderRecords) /\ Len(<<>>) = 0
  BY EmptySeq
<1> QED
  BY <1>2, <1>5, <1>6, <1>8, <1>9, <1>10

-----------------------------------------------------------------------------
(* A fill *)

\* A fill takes some of what is left, all of it when orders fill whole.
LEMMA FillQuantitiesType ==
  ASSUME NEW n \in Nat \ {0}, NEW q \in FillQuantities(n)
  PROVE  q \in 1 .. n /\ (~ setup.partial => q = n)
<1>1. CASE setup.partial /\ n > 1
  <2>1. q \in ((n + 1) \div 2) .. n
    BY <1>1 DEF FillQuantities
  <2>2. (n + 1) \div 2 >= 1
    BY <1>1
  <2> QED
    BY <1>1, <2>1, <2>2
<1>2. CASE ~ (setup.partial /\ n > 1)
  BY <1>2 DEF FillQuantities
<1> QED
  BY <1>1, <1>2

\* The order that trades.
LEMMA ReduceType ==
  ASSUME NEW ord \in OrderRecords, ord.qty # 0, ord.status = "submitted", NEW q \in 1 .. ord.qty
  PROVE  LET new == Reduce(ord, q) IN
         /\ new \in OrderRecords
         /\ new.filled = ord.filled + q /\ new.qty = ord.qty - q /\ new.asked = ord.asked
         /\ new.parent = ord.parent /\ new.side = ord.side /\ new.inst = ord.inst
         /\ new.status = IF q = ord.qty THEN "filled" ELSE "submitted"
<1>1. /\ ord.qty \in Nat /\ ord.filled \in Nat /\ q \in Nat /\ ord.filled + q \in Nat
      /\ ord.qty - q \in Nat /\ (q < ord.qty <=> q # ord.qty)
  BY DEF OrderRecords
<1> QED
  BY <1>1 DEF Reduce, OrderRecords

\* An order that another leg's fill cancels.
LEMMA CancelledType ==
  ASSUME NEW ord \in OrderRecords
  PROVE  LET new == [ord EXCEPT !.status = "cancelled"] IN
         /\ new \in OrderRecords
         /\ new.filled = ord.filled /\ new.qty = ord.qty /\ new.asked = ord.asked
         /\ new.parent = ord.parent /\ new.side = ord.side /\ new.inst = ord.inst
         /\ new.status = "cancelled"
  BY DEF OrderRecords

\* What the fill of o makes of order k.
AfterFill(ords, o, q, k) ==
  IF k = o THEN Reduce(ords[o], q)
  ELSE IF k \in Siblings(ords, o) /\ ords[k].status = "submitted"
    THEN [ords[k] EXCEPT !.status = "cancelled"] ELSE ords[k]

\* How order k is related to new, what it is after the fill of o: it has traded,
\* or is cancelled if it is a sibling still at work.
FillEffect(ords, o, q, k, new) ==
  /\ new \in OrderRecords
  /\ new.parent = ords[k].parent /\ new.side = ords[k].side /\ new.inst = ords[k].inst
  /\ new.asked = ords[k].asked
  /\ k = o => /\ new.filled = ords[k].filled + q /\ new.qty = ords[k].qty - q
              /\ new.status = IF q = ords[k].qty THEN "filled" ELSE "submitted"
  /\ k # o => /\ new.filled = ords[k].filled /\ new.qty = ords[k].qty
              /\ new.status = IF k \in Siblings(ords, o) /\ ords[k].status = "submitted"
                                THEN "cancelled" ELSE ords[k].status

\* Every order takes the effect of the fill.
LEMMA AfterFillType ==
  ASSUME NEW ords \in Seq(OrderRecords), NEW o \in DOMAIN ords, ords[o].status = "submitted",
         ords[o].qty # 0, NEW q \in 1 .. ords[o].qty, NEW k \in DOMAIN ords
  PROVE  FillEffect(ords, o, q, k, AfterFill(ords, o, q, k))
<1>1. ords[o] \in OrderRecords /\ ords[k] \in OrderRecords
  BY LenProperties, ElementOfSeq
<1>2. CASE k = o
  <2>1. AfterFill(ords, o, q, k) = Reduce(ords[o], q)
    BY <1>2 DEF AfterFill
  <2> QED
    BY <1>1, <1>2, <2>1, ReduceType DEF FillEffect
<1>3. CASE k # o /\ k \in Siblings(ords, o) /\ ords[k].status = "submitted"
  <2>1. AfterFill(ords, o, q, k) = [ords[k] EXCEPT !.status = "cancelled"]
    BY <1>3 DEF AfterFill
  <2> QED
    BY <1>1, <1>3, <2>1, CancelledType DEF FillEffect
<1>4. CASE k # o /\ ~ (k \in Siblings(ords, o) /\ ords[k].status = "submitted")
  <2>1. AfterFill(ords, o, q, k) = ords[k]
    BY <1>4 DEF AfterFill
  <2> QED
    BY <1>1, <1>4, <2>1 DEF FillEffect
<1> QED
  BY <1>2, <1>3, <1>4

\* The book and the fills after a fill of o.
Filled(ords, o, q) ==
  LET n == Len(ords)
      m == Len(orders')
  IN
  /\ orders' \in Seq(OrderRecords) /\ n <= m
  /\ \A k \in 1 .. n : orders'[k] = AfterFill(ords, o, q, k)
  /\ \A k \in n + 1 .. m : FreshLeg(orders'[k], o, ords[o])
  /\ m # n => ords[o].parent = 0
  /\ ords[o].stop = NoPrice /\ ords[o].tp = NoPrice => m = n
  /\ fills' = Append(fills, [order |-> o, qty |-> q])
  /\ m = n => children' = children
  /\ m # n => children' = [e \in DOMAIN children \cup {o} |->
                             IF e = o THEN n + 1 .. m ELSE children[e]]

\* A fill moves the book that way.
LEMMA FillMoves ==
  ASSUME NEW ords \in Seq(OrderRecords), NEW o \in DOMAIN ords, ords[o].status = "submitted",
         ords[o].qty # 0, NEW q \in 1 .. ords[o].qty, Fill(ords, o, q)
  PROVE  Filled(ords, o, q)
<1> DEFINE legs == Legs(o, ords[o])
           n == Len(ords)
           rest == [k \in 1 .. n |-> AfterFill(ords, o, q, k)]
<1>1. n \in Nat /\ DOMAIN ords = 1 .. n /\ ords[o] \in OrderRecords /\ o \in Nat
  BY LenProperties, ElementOfSeq
<1>2. CancelSiblings([ords EXCEPT ![o] = Reduce(@, q)], o) = rest
  <2> DEFINE reduced == [ords EXCEPT ![o] = Reduce(@, q)]
  <2>1. /\ DOMAIN reduced = 1 .. n /\ reduced[o] = Reduce(ords[o], q)
        /\ \A k \in 1 .. n : k # o => reduced[k] = ords[k]
    BY <1>1
  <2>2. reduced[o].parent = ords[o].parent
    BY <1>1, <2>1, ReduceType
  <2> HIDE DEF reduced
  <2>3. Siblings(reduced, o) = Siblings(ords, o) /\ o \notin Siblings(ords, o)
    BY <2>2 DEF Siblings
  <2>4. \A k \in 1 .. n :
          (IF k \in Siblings(reduced, o) /\ reduced[k].status = "submitted"
             THEN [reduced[k] EXCEPT !.status = "cancelled"] ELSE reduced[k])
          = AfterFill(ords, o, q, k)
    BY <2>1, <2>3 DEF AfterFill
  <2>5. CancelSiblings(reduced, o) = rest
    BY <2>1, <2>4 DEF CancelSiblings
  <2> QED
    BY <2>5 DEF reduced
<1>3. rest \in [1 .. n -> OrderRecords]
  BY <1>1, AfterFillType DEF FillEffect
<1>4. \A k \in 1 .. n : rest[k] = AfterFill(ords, o, q, k)
  OBVIOUS
<1> HIDE DEF rest
<1>5. rest \in Seq(OrderRecords) /\ Len(rest) = n
  BY <1>1, <1>3, FunctionIsSeq
<1>6. /\ legs \in Seq(OrderRecords)
      /\ \A i \in 1 .. Len(legs) : FreshLeg(legs[i], o, ords[o])
      /\ ords[o].parent # 0 => legs = <<>>
      /\ ords[o].stop = NoPrice /\ ords[o].tp = NoPrice => legs = <<>>
  BY <1>1, LegsType
<1>7. /\ orders' = rest \o legs /\ fills' = Append(fills, [order |-> o, qty |-> q])
      /\ children' = IF legs = <<>> THEN children
                     ELSE [e \in DOMAIN children \cup {o} |->
                             IF e = o THEN n + 1 .. n + Len(legs) ELSE children[e]]
  BY <1>2 DEF Fill
<1> HIDE DEF legs, n
<1>8. /\ orders' \in Seq(OrderRecords) /\ Len(orders') = n + Len(legs)
      /\ \A i \in 1 .. n + Len(legs) :
           orders'[i] = IF i <= n THEN rest[i] ELSE legs[i - n]
  BY <1>5, <1>6, <1>7, ConcatProperties
<1>9. Len(legs) \in Nat /\ (legs = <<>> <=> Len(legs) = 0)
  BY <1>6, EmptySeq
<1>10. \A k \in 1 .. n : orders'[k] = AfterFill(ords, o, q, k)
  BY <1>1, <1>4, <1>8, <1>9
<1>11. \A k \in n + 1 .. Len(orders') : FreshLeg(orders'[k], o, ords[o])
  <2> TAKE k \in n + 1 .. Len(orders')
  <2>1. k - n \in 1 .. Len(legs) /\ orders'[k] = legs[k - n]
    BY <1>1, <1>8, <1>9
  <2> QED
    BY <1>6, <2>1
<1>12. n <= Len(orders') /\ (Len(orders') = n <=> legs = <<>>)
  BY <1>1, <1>8, <1>9
<1> QED
  BY <1>6, <1>7, <1>8, <1>10, <1>11, <1>12 DEF Filled, n

-----------------------------------------------------------------------------
(* Lots *)

\* The fills, one more.
LEMMA AppendedFill ==
  ASSUME fills \in Seq(FillRecords), NEW o \in Nat \ {0}, NEW q \in Nat \ {0},
         fills' = Append(fills, [order |-> o, qty |-> q])
  PROVE  /\ fills' \in Seq(FillRecords) /\ Len(fills) \in Nat
         /\ DOMAIN fills = 1 .. Len(fills)
         /\ DOMAIN fills' = DOMAIN fills \cup {Len(fills) + 1}
         /\ fills'[Len(fills) + 1] = [order |-> o, qty |-> q]
         /\ \A i \in DOMAIN fills : fills[i] \in FillRecords /\ fills'[i] = fills[i]
<1>1. [order |-> o, qty |-> q] \in FillRecords
  BY DEF FillRecords
<1>2. /\ fills' \in Seq(FillRecords) /\ Len(fills) \in Nat /\ Len(fills') = Len(fills) + 1
      /\ DOMAIN fills = 1 .. Len(fills) /\ DOMAIN fills' = 1 .. Len(fills')
      /\ \A i \in 1 .. Len(fills) : fills[i] \in FillRecords
  BY <1>1, ElementOfSeq
<1>3. /\ fills'[Len(fills) + 1] = [order |-> o, qty |-> q]
      /\ \A i \in 1 .. Len(fills) : fills'[i] = fills[i]
  BY <1>1, <1>2
<1>4. 1 .. Len(fills') = 1 .. Len(fills) \cup {Len(fills) + 1}
  BY <1>2
<1> QED
  BY <1>2, <1>3, <1>4

\* Some of the fills are finitely many.
LEMMA FillsFinite ==
  ASSUME fills \in Seq(FillRecords), NEW S \in SUBSET DOMAIN fills
  PROVE  IsFiniteSet(S)
<1>1. Len(fills) \in Nat /\ DOMAIN fills = 1 .. Len(fills)
  BY LenProperties
<1>2. IsFiniteSet(1 .. Len(fills))
  BY <1>1, FS_Interval
<1> QED
  BY <1>1, <1>2, FS_Subset

\* A fill counts for its order alone.
LEMMA TradedMoves ==
  ASSUME fills \in Seq(FillRecords), NEW o \in Nat \ {0}, NEW q \in Nat \ {0},
         fills' = Append(fills, [order |-> o, qty |-> q]), NEW k
  PROVE  /\ Traded(k) \in Nat
         /\ Traded(k)' = Traded(k) + (IF k = o THEN q ELSE 0)
<1> DEFINE x == Len(fills) + 1
           f == Quantities
           S == FillsOf(k)
           g == Quantities'
           T == FillsOf(k)'
<1>1. /\ fills' \in Seq(FillRecords) /\ Len(fills) \in Nat /\ DOMAIN fills = 1 .. Len(fills)
      /\ DOMAIN fills' = DOMAIN fills \cup {x}
      /\ fills'[x] = [order |-> o, qty |-> q]
      /\ \A i \in DOMAIN fills : fills[i] \in FillRecords /\ fills'[i] = fills[i]
  BY AppendedFill
<1>2. /\ \A i \in DOMAIN fills : f[i] = fills[i].qty /\ f[i] \in Nat /\ g[i] = f[i]
      /\ g[x] = q
  BY <1>1 DEF Quantities, FillRecords
<1>3. /\ S \in SUBSET DOMAIN fills /\ x \notin S /\ IsFiniteSet(S)
      /\ T = IF k = o THEN S \cup {x} ELSE S
  <2>1. S \in SUBSET DOMAIN fills
    BY DEF FillsOf
  <2>2. x \notin DOMAIN fills
    BY <1>1
  <2>3. T = IF k = o THEN S \cup {x} ELSE S
    BY <1>1, <2>2 DEF FillsOf
  <2> QED
    BY <2>1, <2>2, <2>3, FillsFinite
<1>4. Traded(k) = SumFunctionOnSet(f, S) /\ Traded(k)' = SumFunctionOnSet(g, T)
  BY DEF Traded
<1> HIDE DEF f, S, g, T, x
<1>5. Traded(k) \in Nat
  BY <1>2, <1>3, <1>4, SumOfNats
<1>6. CASE k = o
  <2>1. DifferAt(x, f, S, g, T)
    BY <1>2, <1>3, <1>6 DEF DifferAt
  <2>2. SumFunctionOnSet(g, T) = SumFunctionOnSet(f, S) + q
    BY <1>2, <1>3, <2>1, SumMoves
  <2> QED
    BY <1>4, <1>5, <1>6, <2>2
<1>7. CASE k # o
  <2>1. SumFunctionOnSet(f, S) = SumFunctionOnSet(g, S)
    BY <1>2, <1>3, SumUnchanged
  <2> QED
    BY <1>3, <1>4, <1>5, <1>7, <2>1
<1> QED
  BY <1>5, <1>6, <1>7

\* An order without fills has traded nothing.
LEMMA TradedNothing ==
  ASSUME NEW k, \A i \in DOMAIN fills : fills[i].order # k
  PROVE  Traded(k) = 0
<1>1. FillsOf(k) = {}
  BY DEF FillsOf
<1> QED
  BY <1>1, SumOverNone DEF Traded

\* The book ords holds the orders, and perhaps one more that is new.
Continues(ords) ==
  /\ BookTypes(ords, children) /\ Len(orders) <= Len(ords)
  /\ \A k \in DOMAIN ords : Settled(ords[k], Traded(k))

\* The book and its sums are in order after the step.
BookKept ==
  /\ BookTypes(orders', children')
  /\ \A k \in Ids' : Settled(orders'[k], Traded(k)')
  /\ fills' \in Seq(FillRecords) /\ \A i \in DOMAIN fills' : fills'[i].order \in Ids'
  /\ Len(orders) <= Len(orders')

\* A fill keeps the book and its sums.
LEMMA FillKeeps ==
  ASSUME RestTypes, NEW ords, Continues(ords), Len(orders) \in Nat, DOMAIN orders = 1 .. Len(orders),
         NEW o \in DOMAIN ords, ords[o].status = "submitted",
         NEW q \in FillQuantities(ords[o].qty), Fill(ords, o, q)
  PROVE  /\ BookKept /\ Filled(ords, o, q)
         /\ q \in 1 .. ords[o].qty /\ (~ setup.partial => q = ords[o].qty)
<1>1. /\ ords \in Seq(OrderRecords) /\ Len(ords) \in Nat /\ DOMAIN ords = 1 .. Len(ords)
      /\ \A k \in DOMAIN ords : ords[k] \in OrderRecords
  BY ElementOfSeq, LenProperties DEF Continues, BookTypes
<1>2. ords[o].qty \in Nat \ {0}
  BY <1>1 DEF Continues, Settled, OrderRecords
<1>3. q \in 1 .. ords[o].qty /\ (~ setup.partial => q = ords[o].qty)
  BY <1>2, FillQuantitiesType
<1>4. Filled(ords, o, q)
  BY <1>1, <1>2, <1>3, FillMoves
<1>5. /\ orders' \in Seq(OrderRecords) /\ Len(orders') \in Nat
      /\ Ids' = 1 .. Len(orders') /\ Len(ords) <= Len(orders')
  BY <1>4, LenProperties DEF Filled, Ids
<1>6. o \in Nat \ {0} /\ q \in Nat \ {0} /\ fills' = Append(fills, [order |-> o, qty |-> q])
      /\ fills \in Seq(FillRecords)
  BY <1>1, <1>2, <1>3, <1>4 DEF Filled, RestTypes
<1>7. fills' \in Seq(FillRecords) /\ \A i \in DOMAIN fills' : fills'[i].order \in Ids'
  <2>1. /\ fills' \in Seq(FillRecords) /\ DOMAIN fills' = DOMAIN fills \cup {Len(fills) + 1}
        /\ fills'[Len(fills) + 1] = [order |-> o, qty |-> q]
        /\ \A i \in DOMAIN fills : fills'[i] = fills[i]
    BY <1>6, AppendedFill
  <2>2. \A i \in DOMAIN fills : fills[i].order \in Ids'
    BY <1>1, <1>5 DEF RestTypes, Continues
  <2>3. o \in Ids'
    BY <1>1, <1>5
  <2> QED
    BY <2>1, <2>2, <2>3
<1>8. ASSUME NEW k \in Ids'
      PROVE  Settled(orders'[k], Traded(k)') /\ orders'[k].parent <= Len(orders')
  <2>1. Traded(k) \in Nat /\ Traded(k)' = Traded(k) + (IF k = o THEN q ELSE 0)
    BY <1>6, TradedMoves
  <2>2. CASE k \in DOMAIN ords
    <3>1. PICK new : new = AfterFill(ords, o, q, k) /\ new = orders'[k]
      BY <1>1, <1>4, <2>2 DEF Filled
    <3>2. Settled(ords[k], Traded(k)) /\ ords[k].parent <= Len(ords) /\ ords[k] \in OrderRecords
      BY <1>1, <2>2 DEF Continues, BookTypes
    <3>3. FillEffect(ords, o, q, k, new)
      BY <1>1, <1>2, <1>3, <2>2, <3>1, AfterFillType
    <3>4. /\ ords[k].parent \in Nat /\ ords[k].filled \in Nat /\ ords[k].qty \in Nat
          /\ ords[k].asked \in Nat
      BY <3>2 DEF OrderRecords
    <3>5. new.parent <= Len(orders')
      BY <1>1, <1>5, <3>2, <3>3, <3>4 DEF FillEffect
    <3>6. Settled(new, Traded(k)')
      <4> DEFINE a == Traded(k)
                 b == Traded(k)'
      <4>1. a \in Nat /\ b = a + (IF k = o THEN q ELSE 0) /\ Settled(ords[k], a)
        BY <2>1, <3>2
      <4> SUFFICES Settled(new, b)
        OBVIOUS
      <4> HIDE DEF a, b
      <4>2. CASE k = o
        <5>1. /\ new.filled = ords[k].filled + q /\ new.qty = ords[k].qty - q
              /\ new.asked = ords[k].asked /\ b = a + q
              /\ new.status = IF q = ords[k].qty THEN "filled" ELSE "submitted"
          BY <3>3, <4>1, <4>2 DEF FillEffect
        <5> QED
          BY <1>2, <1>3, <3>4, <4>1, <4>2, <5>1 DEF Settled
      <4>3. CASE k # o
        <5>1. new.filled = ords[k].filled /\ new.qty = ords[k].qty /\ new.asked = ords[k].asked
              /\ b = a /\ (new.status = "filled" <=> ords[k].status = "filled")
          BY <3>3, <4>1, <4>3 DEF FillEffect
        <5> QED
          BY <4>1, <5>1 DEF Settled
      <4> QED
        BY <4>2, <4>3
    <3> QED
      BY <3>1, <3>5, <3>6
  <2>3. CASE k \notin DOMAIN ords
    <3>1. k \in Len(ords) + 1 .. Len(orders')
      BY <1>1, <1>5, <2>3
    <3>2. FreshLeg(orders'[k], o, ords[o])
      BY <1>4, <3>1 DEF Filled
    <3>3. Traded(k) = 0
      <4>1. \A i \in DOMAIN fills : fills[i].order # k
        BY <1>1, <3>1 DEF RestTypes, Continues
      <4> QED
        BY <4>1, TradedNothing
    <3>4. k # o /\ Traded(k)' = 0
      BY <2>1, <2>3, <3>3
    <3> QED
      BY <1>1, <1>2, <1>5, <3>2, <3>4 DEF FreshLeg, Settled
  <2> QED
    BY <2>2, <2>3
<1>9. ASSUME NEW e \in DOMAIN children'
      PROVE  e \in Ids' /\ children'[e] \subseteq Ids'
  <2>1. \A d \in DOMAIN children : d \in Ids' /\ children[d] \subseteq Ids'
    BY <1>1, <1>5 DEF Continues, BookTypes
  <2>2. o \in Ids' /\ Len(ords) + 1 .. Len(orders') \subseteq Ids'
    BY <1>1, <1>5
  <2>3. CASE Len(orders') = Len(ords)
    BY <1>4, <2>1, <2>3 DEF Filled
  <2>4. CASE Len(orders') # Len(ords)
    <3>1. children' = [d \in DOMAIN children \cup {o} |->
                         IF d = o THEN Len(ords) + 1 .. Len(orders') ELSE children[d]]
      BY <1>4, <2>4 DEF Filled
    <3> QED
      BY <2>1, <2>2, <3>1
  <2> QED
    BY <2>3, <2>4
<1>10. BookTypes(orders', children') /\ Len(orders) <= Len(orders')
  BY <1>1, <1>5, <1>8, <1>9 DEF BookTypes, Ids, Continues
<1> QED
  BY <1>3, <1>4, <1>7, <1>8, <1>10 DEF BookKept

-----------------------------------------------------------------------------
(* Invariance *)

\* The orders and their ids.
LEMMA BookShape ==
  ASSUME BrokerInv
  PROVE  /\ orders \in Seq(OrderRecords) /\ Len(orders) \in Nat
         /\ Ids = 1 .. Len(orders) /\ DOMAIN orders = 1 .. Len(orders)
         /\ \A o \in Ids : orders[o] \in OrderRecords
         /\ Continues(orders) /\ RestTypes
<1>1. orders \in Seq(OrderRecords)
  BY DEF BrokerInv, BookTypes
<1>2. /\ Len(orders) \in Nat /\ DOMAIN orders = 1 .. Len(orders)
      /\ \A o \in 1 .. Len(orders) : orders[o] \in OrderRecords
  BY <1>1, LenProperties, ElementOfSeq
<1>3. Continues(orders) /\ RestTypes
  BY <1>2 DEF BrokerInv, Continues, Ids
<1> QED
  BY <1>1, <1>2, <1>3 DEF Ids

\* The book with a request on it.
LEMMA AppendedContinues ==
  ASSUME BrokerInv, NEW r \in Requests
  PROVE  LET ords == Append(orders, NewOrder(r, 0)) IN
         /\ Continues(ords) /\ Len(ords) = Len(orders) + 1
         /\ DOMAIN ords = 1 .. Len(orders) + 1
         /\ \A k \in Ids : ords[k] = orders[k]
         /\ ords[Len(orders) + 1] = NewOrder(r, 0)
<1> DEFINE ords == Append(orders, NewOrder(r, 0))
           n == Len(orders)
<1>1. /\ orders \in Seq(OrderRecords) /\ n \in Nat /\ Ids = 1 .. n
      /\ Continues(orders) /\ RestTypes /\ NewOrder(r, 0) \in OrderRecords
      /\ NewOrder(r, 0).parent = 0
  BY BookShape, NewOrderType
<1>2. /\ ords \in Seq(OrderRecords) /\ Len(ords) = n + 1 /\ DOMAIN ords = 1 .. n + 1
      /\ \A k \in 1 .. n : ords[k] = orders[k]
      /\ ords[n + 1] = NewOrder(r, 0)
  BY <1>1
<1> HIDE DEF ords, n
<1>3. ASSUME NEW k \in 1 .. n + 1
      PROVE  ords[k].parent <= n + 1 /\ Settled(ords[k], Traded(k))
  <2>1. CASE k \in 1 .. n
    <3>1. orders[k].parent <= n /\ Settled(orders[k], Traded(k)) /\ orders[k].parent \in Nat
      BY <1>1, <2>1, BookShape DEF Continues, BookTypes, OrderRecords, Ids, n
    <3> QED
      BY <1>1, <1>2, <2>1, <3>1
  <2>2. CASE k = n + 1
    <3>1. Traded(k) = 0
      <4>1. \A i \in DOMAIN fills : fills[i].order # k
        BY <1>1, <2>2 DEF RestTypes, Ids, n
      <4> QED
        BY <4>1, TradedNothing
    <3>2. Settled(NewOrder(r, 0), 0)
      <4>1. r.qty \in Nat \ {0}
        BY DEF Requests
      <4> QED
        BY <4>1, NewOrderType DEF Settled
    <3> QED
      BY <1>1, <1>2, <2>2, <3>1, <3>2
  <2> QED
    BY <1>1, <2>1, <2>2
<1>4. \A e \in DOMAIN children : e \in 1 .. n + 1 /\ children[e] \subseteq 1 .. n + 1
  <2>1. \A e \in DOMAIN children : e \in 1 .. n /\ children[e] \subseteq 1 .. n
    BY <1>1 DEF Continues, BookTypes, Ids
  <2> QED
    BY <1>1, <2>1
<1>5. Continues(ords)
  BY <1>1, <1>2, <1>3, <1>4 DEF Continues, BookTypes, n
<1> QED
  BY <1>1, <1>2, <1>5 DEF ords, n

\* Submitting an order.
LEMMA AcceptKeeps ==
  ASSUME BrokerInv, NEW r \in Requests, Accept(r)
  PROVE  BookKept
<1>1. PICK ords : ords = Append(orders, NewOrder(r, 0))
  OBVIOUS
<1>2. /\ Continues(ords) /\ Len(ords) = Len(orders) + 1
      /\ DOMAIN ords = 1 .. Len(orders) + 1
      /\ ords[Len(orders) + 1] = NewOrder(r, 0)
  BY <1>1, AppendedContinues
<1>3. /\ Len(orders) \in Nat /\ DOMAIN orders = 1 .. Len(orders) /\ RestTypes
  BY BookShape
<1>4. CASE \E q \in FillQuantities(r.qty) : Fill(ords, Len(ords), q)
  <2>1. PICK q \in FillQuantities(r.qty) : Fill(ords, Len(ords), q)
    BY <1>4
  <2>2. Len(ords) \in DOMAIN ords /\ ords[Len(ords)] = NewOrder(r, 0)
    BY <1>2, <1>3
  <2>3. ords[Len(ords)].status = "submitted" /\ ords[Len(ords)].qty = r.qty
    BY <2>2, NewOrderType
  <2> QED
    BY <1>2, <1>3, <2>1, <2>2, <2>3, FillKeeps
<1>5. CASE orders' = ords /\ UNCHANGED <<fills, children>>
  <2>1. \A k : Traded(k)' = Traded(k)
    BY <1>5 DEF Traded, Quantities, FillsOf
  <2>2. Ids' = 1 .. Len(orders) + 1
    BY <1>2, <1>5 DEF Ids
  <2>3. \A i \in DOMAIN fills : fills[i].order \in 1 .. Len(orders) + 1
    BY <1>3 DEF RestTypes
  <2>4. Len(orders) <= Len(orders')
    BY <1>2, <1>3, <1>5
  <2> QED
    BY <1>2, <1>3, <1>5, <2>1, <2>2, <2>3, <2>4 DEF BookKept, Continues, RestTypes
<1>6. NewOrder(r, 0).qty = r.qty
  BY NewOrderType
<1> QED
  BY <1>1, <1>2, <1>3, <1>4, <1>5, <1>6 DEF Accept

\* A step of the orders that neither adds one nor fills one.
LEMMA EditKeeps ==
  ASSUME BrokerInv, UNCHANGED <<fills, children>>,
         orders' \in [Ids -> OrderRecords],
         \A o \in Ids : /\ orders'[o].parent = orders[o].parent
                        /\ Settled(orders'[o], orders[o].filled)
  PROVE  BookKept
<1>1. Len(orders) \in Nat /\ Ids = 1 .. Len(orders) /\ Continues(orders) /\ RestTypes
  BY BookShape
<1>2. orders' \in Seq(OrderRecords) /\ Len(orders') = Len(orders) /\ DOMAIN orders' = Ids
  BY <1>1, FunctionIsSeq
<1>3. \A k : Traded(k)' = Traded(k)
  BY DEF Traded, Quantities, FillsOf
<1>4. \A k \in Ids : orders[k].filled = Traded(k)
  BY DEF BrokerInv, Settled
<1>5. BookTypes(orders', children')
  BY <1>1, <1>2 DEF Continues, BookTypes, Ids
<1>6. \A k \in Ids' : Settled(orders'[k], Traded(k)')
  BY <1>2, <1>3, <1>4 DEF Ids
<1>7. fills' \in Seq(FillRecords) /\ (\A i \in DOMAIN fills' : fills'[i].order \in Ids')
      /\ Len(orders) <= Len(orders')
  BY <1>1, <1>2 DEF RestTypes, Ids
<1> QED
  BY <1>5, <1>6, <1>7 DEF BookKept

\* Nothing happens to the book.
LEMMA IdleKeeps ==
  ASSUME BrokerInv, UNCHANGED <<orders, fills, children>>
  PROVE  BookKept
<1>1. /\ Len(orders) \in Nat /\ Ids = 1 .. Len(orders)
      /\ Continues(orders) /\ RestTypes
  BY BookShape
<1>2. (\A k : Traded(k)' = Traded(k)) /\ Ids' = Ids
  BY DEF Traded, Quantities, FillsOf, Ids
<1> QED
  BY <1>1, <1>2 DEF BookKept, Continues, RestTypes, Ids

\* What a flatten reads of a position.
LEMMA NetType ==
  ASSUME BrokerInv, NEW inst
  PROVE  Net(inst) \in Int
<1> DEFINE f == [i \in DOMAIN fills |-> Signed(fills[i])]
           S == {i \in DOMAIN fills : orders[fills[i].order].inst = inst}
<1>1. fills \in Seq(FillRecords)
  BY BookShape DEF RestTypes
<1>2. S \in SUBSET DOMAIN fills
  OBVIOUS
<1>3. \A i \in DOMAIN fills : f[i] \in Int
  <2> TAKE i \in DOMAIN fills
  <2>1. fills[i].qty \in Nat
    <3>1. fills[i] \in FillRecords
      BY <1>1, LenProperties, ElementOfSeq
    <3> QED
      BY <3>1 DEF FillRecords
  <2>2. Signed(fills[i]) \in Int
    BY <2>1 DEF Signed
  <2> QED
    BY <2>2
<1> HIDE DEF f
<1>4. IsFiniteSet(S) /\ \A i \in S : f[i] \in Int
  BY <1>1, <1>2, <1>3, FillsFinite
<1> HIDE DEF S
<1>5. SumFunctionOnSet(f, S) \in Int
  BY <1>4, SumOfInts
<1> QED
  BY <1>5 DEF Net, f, S

\* A close is a request that clients could make.
LEMMA CloseType ==
  ASSUME BrokerInv, NEW inst \in Instruments, Net(inst) # 0
  PROVE  /\ Close(inst) \in Requests /\ Close(inst).inst = inst
         /\ Close(inst).type = "market" /\ Close(inst).stop = NoPrice /\ Close(inst).tp = NoPrice
         /\ Close(inst).qty = IF Net(inst) > 0 THEN Net(inst) ELSE -Net(inst)
         /\ Close(inst).side = IF Net(inst) > 0 THEN "sell" ELSE "buy"
<1> DEFINE n == Net(inst)
<1>1. inst \in Symbols
  BY BookShape DEF Instruments, OrderRecords
<1>2. n \in Int /\ n # 0
  BY NetType
<1>3. Close(inst) = Request("market", IF n > 0 THEN "sell" ELSE "buy", inst,
                            IF n > 0 THEN n ELSE -n, NoPrice, NoPrice, NoPrice)
  BY DEF Close
<1> HIDE DEF n
<1>4. (IF n > 0 THEN n ELSE -n) \in Nat \ {0}
  BY <1>2
<1>5. PICK q : q = (IF n > 0 THEN n ELSE -n) /\ q \in Nat \ {0}
  BY <1>4
<1>6. PICK s \in {"buy", "sell"} : s = (IF n > 0 THEN "sell" ELSE "buy")
  OBVIOUS
<1>7. Close(inst) = [type |-> "market", side |-> s, inst |-> inst, qty |-> q,
                     limit |-> NoPrice, stop |-> NoPrice, tp |-> NoPrice]
  BY <1>3, <1>5, <1>6 DEF Request
<1>8. Close(inst) \in Requests
  BY <1>1, <1>5, <1>7 DEF Requests, NoPrice
<1> QED
  BY <1>5, <1>6, <1>7, <1>8 DEF n

\* An empty book.
LEMMA BrokerInitial == Init => BrokerInv
<1> SUFFICES ASSUME Init PROVE BrokerInv
  OBVIOUS
<1>1. /\ orders = <<>> /\ fills = <<>> /\ children = <<>> /\ setup \in Setups
      /\ price = StartPrice /\ tick = Idle /\ flatten = [f \in Flatteners |-> NoFlatten]
  BY DEF Init
<1>2. /\ DOMAIN orders = {} /\ DOMAIN fills = {} /\ DOMAIN children = {} /\ Len(orders) = 0
      /\ orders \in Seq(OrderRecords) /\ fills \in Seq(FillRecords)
  BY <1>1
<1>3. tick \in [next : Nat \ {0}, last : Nat] /\ tick.last <= 0
  BY <1>1 DEF Idle
<1>4. flatten \in [Flatteners -> FlattenStates]
  BY <1>1 DEF NoFlatten, FlattenStates
<1>5. BookTypes(orders, children)
  BY <1>2 DEF BookTypes
<1>6. RestTypes
  BY <1>1, <1>2, <1>3, <1>4, PriceAssumption DEF RestTypes
<1> QED
  BY <1>2, <1>5, <1>6 DEF BrokerInv, Ids

\* A kept book and typed rest make the invariant.
LEMMA KeptIsEnough ==
  ASSUME BrokerInv, BookKept, setup' = setup, price' \in Prices,
         tick' \in [next : Nat \ {0}, last : Nat],
         tick'.last <= Len(orders) \/ tick'.last <= Len(orders'),
         flatten' \in [Flatteners -> FlattenStates]
  PROVE  BrokerInv'
<1>1. setup' \in Setups /\ Len(orders) \in Nat /\ Len(orders') \in Nat
      /\ Len(orders) <= Len(orders') /\ tick'.last \in Nat
  BY BookShape, LenProperties DEF RestTypes, BookKept, BookTypes
<1>2. tick'.last <= Len(orders')
  BY <1>1
<1> QED
  BY <1>1, <1>2 DEF BrokerInv, BookKept, RestTypes, Ids

\* One that leaves the loop and the flattens alone.
LEMMA KeptAlone ==
  ASSUME BrokerInv, BookKept, UNCHANGED <<setup, price, tick, flatten>>
  PROVE  BrokerInv'
  BY KeptIsEnough, BookShape DEF RestTypes

\* An amendment of a resting order.
LEMMA AmendKeeps ==
  ASSUME BrokerInv, NEW o \in Ids, NEW a \in setup.amendments, AmendOrder(o, a[1], a[2])
  PROVE  BookKept /\ UNCHANGED <<setup, price, tick, flatten>>
<1>1. PICK field, value, ord : field = a[1] /\ value = a[2] /\ ord = orders[o]
  OBVIOUS
<1>2. /\ ord \in OrderRecords /\ Settled(ord, ord.filled)
      /\ \A k \in Ids : orders[k] \in OrderRecords /\ Settled(orders[k], orders[k].filled)
      /\ orders \in [Ids -> OrderRecords] /\ setup \in Setups
  <2>1. \A k \in Ids : Settled(orders[k], orders[k].filled)
    BY DEF BrokerInv, Settled
  <2> QED
    BY <1>1, <2>1, BookShape, LenProperties DEF RestTypes
<1>3. \/ field = "qty" /\ value \in Nat \ {0}
      \/ field \in {"limit", "stop", "tp"} /\ value \in Nat
  BY <1>1, <1>2, SetupAssumption
<1>4. PICK new : new = IF field = "qty" THEN [ord EXCEPT !.qty = value, !.asked = ord.filled + value]
                                       ELSE [ord EXCEPT ![field] = value]
  OBVIOUS
<1>5. /\ orders' = [orders EXCEPT ![o] = new] /\ ord.status \notin {"filled", "cancelled"}
      /\ UNCHANGED <<setup, fills, children, price, tick, flatten>>
  BY <1>1, <1>4 DEF AmendOrder
<1>6. new \in OrderRecords /\ new.parent = ord.parent /\ Settled(new, ord.filled)
  <2>1. CASE field = "qty"
    <3>1. /\ ord.filled \in Nat /\ value \in Nat \ {0} /\ ord.status # "filled"
          /\ new = [ord EXCEPT !.qty = value, !.asked = ord.filled + value]
      BY <1>2, <1>3, <1>4, <1>5, <2>1 DEF OrderRecords
    <3>2. new \in OrderRecords
      <4>1. PICK total \in Nat : total = ord.filled + value
        BY <3>1
      <4>2. new = [ord EXCEPT !.qty = value, !.asked = total] /\ value \in Nat
        BY <3>1, <4>1
      <4> QED
        BY <1>2, <4>2 DEF OrderRecords
    <3>3. /\ new.filled = ord.filled /\ new.qty = value /\ new.asked = ord.filled + value
          /\ new.status = ord.status /\ new.parent = ord.parent
      BY <1>2, <3>1 DEF OrderRecords
    <3> QED
      BY <3>1, <3>2, <3>3 DEF Settled
  <2>2. CASE field = "limit"
    <3>1. new = [ord EXCEPT !.limit = value] /\ value \in Nat
      BY <1>3, <1>4, <2>2
    <3> QED
      BY <1>2, <3>1 DEF OrderRecords, Settled
  <2>3. CASE field = "stop"
    <3>1. new = [ord EXCEPT !.stop = value] /\ value \in Nat
      BY <1>3, <1>4, <2>3
    <3> QED
      BY <1>2, <3>1 DEF OrderRecords, Settled
  <2>4. CASE field = "tp"
    <3>1. new = [ord EXCEPT !.tp = value] /\ value \in Nat
      BY <1>3, <1>4, <2>4
    <3> QED
      BY <1>2, <3>1 DEF OrderRecords, Settled
  <2> QED
    BY <1>3, <2>1, <2>2, <2>3, <2>4
<1>7. /\ orders' \in [Ids -> OrderRecords]
      /\ \A k \in Ids : /\ orders'[k].parent = orders[k].parent
                        /\ Settled(orders'[k], orders[k].filled)
  BY <1>1, <1>2, <1>5, <1>6
<1> QED
  BY <1>5, <1>7, EditKeeps

\* A cancel, of one order or of all.
LEMMA CancelKeeps ==
  ASSUME BrokerInv, UNCHANGED <<fills, children>>, orders' \in [Ids -> OrderRecords],
         \A o \in Ids : \/ orders'[o] = orders[o]
                        \/ /\ orders[o].status = "submitted"
                           /\ orders'[o] = [orders[o] EXCEPT !.status = "cancelled"]
  PROVE  BookKept
<1>1. ASSUME NEW o \in Ids
      PROVE  /\ orders'[o].parent = orders[o].parent
             /\ Settled(orders'[o], orders[o].filled)
  <2>1. orders[o] \in OrderRecords /\ Settled(orders[o], orders[o].filled)
    BY BookShape DEF BrokerInv, Settled
  <2> QED
    BY <2>1, CancelledType DEF Settled
<1> QED
  BY <1>1, EditKeeps

\* Every step keeps the invariant.
LEMMA BrokerStep == BrokerInv /\ [Next]_vars => BrokerInv'
<1> SUFFICES ASSUME BrokerInv, [Next]_vars PROVE BrokerInv'
  OBVIOUS
<1>0. /\ Len(orders) \in Nat /\ Ids = 1 .. Len(orders) /\ DOMAIN orders = 1 .. Len(orders)
      /\ (\A o \in Ids : orders[o] \in OrderRecords) /\ Continues(orders)
      /\ orders \in [Ids -> OrderRecords]
      /\ setup \in Setups /\ price \in Prices
      /\ tick \in [next : Nat \ {0}, last : Nat] /\ tick.last <= Len(orders)
      /\ flatten \in [Flatteners -> FlattenStates] /\ RestTypes
  BY BookShape, LenProperties DEF RestTypes
<1>1. ASSUME NEW r \in setup.requests, SubmitOrder(r) PROVE BrokerInv'
  <2>1. r \in Requests
    BY <1>0, SetupAssumption
  <2>2. BookKept
    BY <1>1, <2>1, AcceptKeeps DEF SubmitOrder
  <2> QED
    BY <1>1, <2>2, KeptAlone DEF SubmitOrder
<1>2. ASSUME NEW o \in Ids, CancelOrder(o) PROVE BrokerInv'
  <2>1. orders[o].status = "submitted" /\ orders' = [orders EXCEPT ![o].status = "cancelled"]
    BY <1>0, <1>2 DEF CancelOrder, Cancellable, OrderRecords
  <2>2. [orders[o] EXCEPT !.status = "cancelled"] \in OrderRecords
    BY <1>0, CancelledType
  <2>3. BookKept
    BY <1>0, <1>2, <2>1, <2>2, CancelKeeps DEF CancelOrder
  <2> QED
    BY <1>2, <2>3, KeptAlone DEF CancelOrder
<1>3. ASSUME NEW o \in Ids, NEW a \in setup.amendments, AmendOrder(o, a[1], a[2])
      PROVE  BrokerInv'
  BY <1>3, AmendKeeps, KeptAlone
<1>4. ASSUME NEW p \in Prices, PriceUpdate(p) PROVE BrokerInv'
  <2>1. BookKept
    BY <1>4, IdleKeeps DEF PriceUpdate
  <2>2. tick' \in [next : Nat \ {0}, last : Nat] /\ tick'.last <= Len(orders)
    BY <1>0, <1>4 DEF PriceUpdate
  <2> QED
    BY <1>0, <1>4, <2>1, <2>2, KeptIsEnough DEF PriceUpdate
<1>5. CASE Visit
  <2>1. BookKept
    <3>1. CASE \E q \in FillQuantities(orders[tick.next].qty) :
                 tick.next <= tick.last /\ TradesNow(tick.next) /\ Fill(orders, tick.next, q)
      <4>1. PICK q \in FillQuantities(orders[tick.next].qty) : Fill(orders, tick.next, q)
        BY <3>1
      <4>2. tick.next \in DOMAIN orders /\ orders[tick.next].status = "submitted"
        BY <1>0, <3>1 DEF TradesNow
      <4> QED
        BY <1>0, <4>1, <4>2, FillKeeps
    <3>2. CASE UNCHANGED <<orders, fills, children>>
      BY <3>2, IdleKeeps
    <3> QED
      BY <1>5, <3>1, <3>2 DEF Visit
  <2>2. tick' \in [next : Nat \ {0}, last : Nat] /\ tick'.last <= Len(orders)
    BY <1>0, <1>5 DEF Visit, Idle
  <2> QED
    BY <1>0, <1>5, <2>1, <2>2, KeptIsEnough DEF Visit
<1>6. ASSUME NEW f \in Flatteners, NEW roll \in BOOLEAN, StartFlatten(f, roll) PROVE BrokerInv'
  <2>1. BookKept
    <3>1. /\ orders' = CancelAll(orders) /\ UNCHANGED <<fills, children>>
      BY <1>6 DEF StartFlatten
    <3>2. \A o \in Ids : \/ orders'[o] = orders[o]
                         \/ /\ orders[o].status = "submitted"
                            /\ orders'[o] = [orders[o] EXCEPT !.status = "cancelled"]
      BY <3>1 DEF CancelAll, Ids
    <3>3. ASSUME NEW o \in Ids PROVE orders'[o] \in OrderRecords
      <4>1. orders[o] \in OrderRecords
        BY <1>0
      <4>2. [orders[o] EXCEPT !.status = "cancelled"] \in OrderRecords
        BY <4>1, CancelledType
      <4> QED
        BY <3>2, <4>1, <4>2
    <3>4. orders' \in [Ids -> OrderRecords]
      BY <3>1, <3>3 DEF CancelAll, Ids
    <3> QED
      BY <3>1, <3>2, <3>4, CancelKeeps
  <2>2. {Close(inst) : inst \in {i \in Instruments : Net(i) # 0}} \in SUBSET Requests
    BY CloseType
  <2>3. flatten' \in [Flatteners -> FlattenStates]
    BY <1>0, <1>6, <2>2 DEF StartFlatten, FlattenStates
  <2> QED
    BY <1>0, <1>6, <2>1, <2>3, KeptIsEnough DEF StartFlatten
<1>7. ASSUME NEW f \in Flatteners, NEW r \in flatten[f].closes, SubmitClose(f, r)
      PROVE  BrokerInv'
  <2>1. flatten[f] \in FlattenStates /\ r \in Requests
    BY <1>0 DEF FlattenStates
  <2>2. BookKept
    BY <1>7, <2>1, AcceptKeeps DEF SubmitClose
  <2>3. flatten' \in [Flatteners -> FlattenStates]
    BY <1>0, <1>7, <2>1 DEF SubmitClose, FlattenStates
  <2> QED
    BY <1>0, <1>7, <2>2, <2>3, KeptIsEnough DEF SubmitClose
<1>8. ASSUME NEW f \in Flatteners, FinishFlatten(f) PROVE BrokerInv'
  <2>1. flatten' \in [Flatteners -> FlattenStates]
    BY <1>0, <1>8 DEF FinishFlatten, NoFlatten, FlattenStates
  <2>2. BookKept
    BY <1>8, IdleKeeps DEF FinishFlatten
  <2> QED
    BY <1>0, <1>8, <2>1, <2>2, KeptIsEnough DEF FinishFlatten
<1>9. CASE Rollover \/ UNCHANGED vars
  BY <1>9, IdleKeeps, KeptAlone DEF Rollover, vars
<1> QED
  BY <1>1, <1>2, <1>3, <1>4, <1>5, <1>6, <1>7, <1>8, <1>9 DEF Next

\* Type correctness: every variable keeps its type.
LEMMA TypesFollow == BrokerInv => TypeOK
<1> SUFFICES ASSUME BrokerInv PROVE TypeOK
  OBVIOUS
<1>1. /\ Len(orders) \in Nat /\ Ids = 1 .. Len(orders)
      /\ (\A o \in Ids : orders[o] \in OrderRecords) /\ Continues(orders) /\ RestTypes
  BY BookShape
<1>2. ASSUME NEW o \in Ids
      PROVE  /\ orders[o].status \in {"submitted", "filled", "cancelled"}
             /\ orders[o].qty \in Nat /\ orders[o].filled \in Nat
             /\ orders[o].parent \in 0 .. Len(orders)
  <2>1. orders[o] \in OrderRecords /\ orders[o].parent <= Len(orders)
    BY <1>1 DEF Continues, BookTypes, Ids
  <2>2. /\ orders[o].status \in {"submitted", "filled", "cancelled"}
        /\ orders[o].qty \in Nat /\ orders[o].filled \in Nat /\ orders[o].parent \in Nat
    BY <2>1 DEF OrderRecords
  <2> QED
    BY <1>1, <2>1, <2>2
<1>3. \A i \in DOMAIN fills : fills[i].order \in Ids /\ fills[i].qty \in Nat \ {0}
  <2>1. \A i \in DOMAIN fills : fills[i] \in FillRecords
    BY <1>1, LenProperties, ElementOfSeq DEF RestTypes
  <2> QED
    BY <1>1, <2>1 DEF RestTypes, FillRecords, Ids
<1>4. /\ setup \in Setups /\ price \in Prices
      /\ tick.next \in Nat /\ tick.last \in 0 .. Len(orders)
  BY <1>1 DEF RestTypes
<1>5. \A e \in DOMAIN children : e \in Ids /\ children[e] \subseteq Ids
  BY <1>1 DEF Continues, BookTypes, Ids
<1> QED
  BY <1>2, <1>3, <1>4, <1>5 DEF TypeOK

\* The broker's state always has its types: no order, fill, leg or place of the
\* price loop is ever one that is not there (paper.py:41-53).
THEOREM BrokerTypes == Spec => []TypeOK
  BY BrokerInitial, BrokerStep, TypesFollow, PTL DEF Spec

\* Nothing is traded twice or lost, for any requests, amendments, partial fills
\* and flattens (paper.py:424-464).
THEOREM LotsAreConserved == Spec => []Conserved
<1>1. BrokerInv => Conserved
  BY DEF BrokerInv, Settled, Conserved, Traded, Quantities, FillsOf
<1> QED
  BY <1>1, BrokerInitial, BrokerStep, PTL DEF Spec

-----------------------------------------------------------------------------
(* What a step does to one order *)

\* The effect of a fill on each order of the book.
LEMMA FillEffects ==
  ASSUME RestTypes, NEW ords, Continues(ords), Len(orders) \in Nat, DOMAIN orders = 1 .. Len(orders),
         NEW o \in DOMAIN ords, ords[o].status = "submitted",
         NEW q \in FillQuantities(ords[o].qty), Fill(ords, o, q), NEW k \in DOMAIN ords
  PROVE  FillEffect(ords, o, q, k, orders'[k])
<1>1. /\ ords \in Seq(OrderRecords) /\ Len(ords) \in Nat /\ DOMAIN ords = 1 .. Len(ords)
      /\ \A j \in DOMAIN ords : ords[j] \in OrderRecords
  BY ElementOfSeq, LenProperties DEF Continues, BookTypes
<1>2. ords[o].qty \in Nat \ {0}
  BY <1>1 DEF Continues, Settled, OrderRecords
<1>3. Filled(ords, o, q) /\ q \in 1 .. ords[o].qty
  BY FillKeeps
<1>4. FillEffect(ords, o, q, k, AfterFill(ords, o, q, k))
  BY <1>1, <1>2, <1>3, AfterFillType
<1>5. orders'[k] = AfterFill(ords, o, q, k)
  BY <1>1, <1>3 DEF Filled
<1> QED
  BY <1>4, <1>5

\* What is over for order k: it keeps what it traded, and how it ended.
Spared(k) == orders'[k].status = orders[k].status /\ orders'[k].filled = orders[k].filled

\* A submission spares the orders that are over.
LEMMA AcceptSpares ==
  ASSUME BrokerInv, NEW r \in Requests, Accept(r), NEW k \in Ids, orders[k].status # "submitted"
  PROVE  Spared(k)
<1>1. PICK ords : ords = Append(orders, NewOrder(r, 0))
  OBVIOUS
<1>2. /\ Continues(ords) /\ Len(ords) = Len(orders) + 1
      /\ DOMAIN ords = 1 .. Len(orders) + 1
      /\ ords[Len(orders) + 1] = NewOrder(r, 0)
      /\ ords[k] = orders[k]
  BY <1>1, AppendedContinues
<1>3. /\ Len(orders) \in Nat /\ DOMAIN orders = 1 .. Len(orders) /\ RestTypes /\ Ids = 1 .. Len(orders)
  BY BookShape
<1>4. CASE \E q \in FillQuantities(r.qty) : Fill(ords, Len(ords), q)
  <2>1. PICK q \in FillQuantities(r.qty) : Fill(ords, Len(ords), q)
    BY <1>4
  <2>2. PICK o : o = Len(ords) /\ o \in DOMAIN ords /\ ords[o] = NewOrder(r, 0)
    BY <1>2, <1>3
  <2>3. ords[o].status = "submitted" /\ ords[o].qty = r.qty
    BY <2>2, NewOrderType
  <2>4. k \in DOMAIN ords /\ k # o
    BY <1>2, <1>3, <2>2
  <2>5. FillEffect(ords, o, q, k, orders'[k])
    BY <1>2, <1>3, <2>1, <2>2, <2>3, <2>4, FillEffects
  <2> QED
    BY <1>2, <2>4, <2>5 DEF FillEffect, Spared
<1>5. CASE orders' = ords
  BY <1>2, <1>5 DEF Spared
<1>6. NewOrder(r, 0).qty = r.qty
  BY NewOrderType
<1> QED
  BY <1>1, <1>2, <1>3, <1>4, <1>5, <1>6 DEF Accept

\* Every step does.
LEMMA StepSpares ==
  ASSUME BrokerInv, [Next]_vars, NEW k \in Ids, orders[k].status # "submitted"
  PROVE  Spared(k)
<1>0. /\ Len(orders) \in Nat /\ Ids = 1 .. Len(orders) /\ DOMAIN orders = 1 .. Len(orders)
      /\ (\A o \in Ids : orders[o] \in OrderRecords) /\ Continues(orders)
      /\ tick \in [next : Nat \ {0}, last : Nat] /\ tick.last <= Len(orders)
      /\ flatten \in [Flatteners -> FlattenStates] /\ RestTypes /\ setup \in Setups
  BY BookShape DEF RestTypes
<1>1. ASSUME NEW r \in setup.requests, SubmitOrder(r) PROVE Spared(k)
  <2>1. r \in Requests /\ Accept(r)
    BY <1>0, <1>1, SetupAssumption DEF SubmitOrder
  <2> QED
    BY <2>1, AcceptSpares
<1>2. ASSUME NEW o \in Ids, CancelOrder(o) PROVE Spared(k)
  <2>1. orders[o].status = "submitted" /\ orders' = [orders EXCEPT ![o].status = "cancelled"]
    BY <1>0, <1>2 DEF CancelOrder, Cancellable, OrderRecords
  <2>2. k # o /\ orders'[k] = orders[k]
    BY <1>0, <2>1
  <2> QED
    BY <2>2 DEF Spared
<1>3. ASSUME NEW o \in Ids, NEW a \in setup.amendments, AmendOrder(o, a[1], a[2])
      PROVE  Spared(k)
  <2>1. orders[o].status = "submitted"
    BY <1>0, <1>3 DEF AmendOrder, OrderRecords
  <2>2. k # o /\ orders'[k] = orders[k]
    BY <1>0, <1>3, <2>1 DEF AmendOrder
  <2> QED
    BY <2>2 DEF Spared
<1>4. CASE Visit
  <2>1. CASE \E q \in FillQuantities(orders[tick.next].qty) :
               tick.next <= tick.last /\ TradesNow(tick.next) /\ Fill(orders, tick.next, q)
    <3>1. PICK q, o : q \in FillQuantities(orders[o].qty) /\ Fill(orders, o, q) /\ o = tick.next
      BY <2>1
    <3>2. o \in DOMAIN orders /\ orders[o].status = "submitted"
      BY <1>0, <2>1, <3>1 DEF TradesNow
    <3>3. FillEffect(orders, o, q, k, orders'[k]) /\ k # o
      BY <1>0, <3>1, <3>2, FillEffects
    <3> QED
      BY <3>3 DEF FillEffect, Spared
  <2>2. CASE UNCHANGED <<orders, fills, children>>
    BY <2>2 DEF Spared
  <2> QED
    BY <1>4, <2>1, <2>2 DEF Visit
<1>5. ASSUME NEW f \in Flatteners, NEW roll \in BOOLEAN, StartFlatten(f, roll) PROVE Spared(k)
  BY <1>5 DEF StartFlatten, CancelAll, Ids, Spared
<1>6. ASSUME NEW f \in Flatteners, NEW r \in flatten[f].closes, SubmitClose(f, r)
      PROVE  Spared(k)
  <2>1. r \in Requests /\ Accept(r)
    <3>1. flatten[f] \in FlattenStates
      BY <1>0
    <3> QED
      BY <1>6, <3>1 DEF FlattenStates, SubmitClose
  <2> QED
    BY <2>1, AcceptSpares
<1>7. CASE UNCHANGED orders
  BY <1>7 DEF Spared
<1> QED
  BY <1>1, <1>2, <1>3, <1>4, <1>5, <1>6, <1>7
  DEF Next, PriceUpdate, FinishFlatten, Rollover, vars

\* A filled or cancelled order never trades again nor comes back, whatever the
\* price loop had decided to visit and whatever is amended (paper.py:81-89).
THEOREM FinalStaysFinal == Spec => FinalIsFinal
<1> DEFINE Kept == \A o \in Ids : orders[o].status # "submitted" =>
                     orders'[o].status = orders[o].status /\ orders'[o].filled = orders[o].filled
<1>1. BrokerInv /\ [Next]_vars => Kept
  BY StepSpares DEF Spared
<1>2. BrokerInv /\ [Next]_vars => [Kept]_vars
  BY <1>1
<1> QED
  BY <1>2, BrokerInitial, BrokerStep, PTL DEF Spec, FinalIsFinal

-----------------------------------------------------------------------------
(* Bracket legs *)

\* What keeps the legs of an entry apart on the book ords, linked by kids, when
\* orders fill whole: an entry has filled once and for all before it has legs,
\* the linkage knows them all, and where one has traded the other cannot.
LegBook(ords, kids) ==
  /\ \A o \in DOMAIN ords : ords[o].filled > 0 => ords[o].status = "filled"
  /\ \A o \in DOMAIN ords :
       ords[o].parent # 0 => ords[o].parent \in DOMAIN kids /\ o \in kids[ords[o].parent]
  /\ \A e \in DOMAIN kids : ords[e].status = "filled"
  /\ \A o, p \in DOMAIN ords :
       o # p /\ ords[o].parent = ords[p].parent /\ ords[o].parent # 0 /\ ords[o].filled > 0 =>
         ords[p].status # "submitted" /\ ords[p].filled = 0

\* A leg is never for more than its entry has traded.
LegSizes(ords) ==
  \A o \in DOMAIN ords : ords[o].parent # 0 => ords[o].asked <= ords[ords[o].parent].filled

LegInv ==
  ~setup.partial =>
    LegBook(orders, children) /\ (QuantitiesStand => LegSizes(orders))

\* A fill of a whole order keeps the legs apart.
LEMMA FillKeepsLegs ==
  ASSUME RestTypes, ~setup.partial, NEW ords, Continues(ords), LegBook(ords, children),
         Len(orders) \in Nat, DOMAIN orders = 1 .. Len(orders),
         NEW o \in DOMAIN ords, ords[o].status = "submitted",
         NEW q \in FillQuantities(ords[o].qty), Fill(ords, o, q)
  PROVE  LegBook(orders', children') /\ (LegSizes(ords) => LegSizes(orders'))
<1> DEFINE n == Len(ords)
           m == Len(orders')
<1>1. /\ ords \in Seq(OrderRecords) /\ n \in Nat /\ DOMAIN ords = 1 .. n
      /\ \A k \in 1 .. n : ords[k] \in OrderRecords
  BY ElementOfSeq, LenProperties DEF Continues, BookTypes
<1>2. /\ Filled(ords, o, q) /\ q = ords[o].qty /\ q \in 1 .. ords[o].qty
      /\ orders' \in Seq(OrderRecords)
  BY FillKeeps DEF BookKept, BookTypes
<1>3. m \in Nat /\ DOMAIN orders' = 1 .. m /\ n <= m
  BY <1>2, LenProperties DEF Filled
<1>4. PICK new : new = orders'
  OBVIOUS
<1>5. PICK kids : kids = children'
  OBVIOUS
<1>6. \A k \in 1 .. n : FillEffect(ords, o, q, k, new[k])
  BY <1>1, <1>4, FillEffects
<1>7. \A k \in n + 1 .. m : FreshLeg(new[k], o, ords[o])
  BY <1>2, <1>4 DEF Filled
<1>8. /\ \A e \in DOMAIN kids : e \in DOMAIN children \/ (e = o /\ m # n)
      /\ \A e \in DOMAIN children : e # o => e \in DOMAIN kids /\ kids[e] = children[e]
      /\ m # n => o \in DOMAIN kids /\ kids[o] = n + 1 .. m
  <2>1. CASE m = n
    BY <1>2, <1>5, <2>1 DEF Filled
  <2>2. CASE m # n
    <3>1. kids = [e \in DOMAIN children \cup {o} |-> IF e = o THEN n + 1 .. m ELSE children[e]]
      BY <1>2, <1>5, <2>2 DEF Filled
    <3> QED
      BY <2>2, <3>1
  <2> QED
    BY <2>1, <2>2
<1>9. /\ \A e \in DOMAIN children : e \in 1 .. n /\ children[e] \subseteq 1 .. n
      /\ o \notin DOMAIN children /\ o \in 1 .. n
  BY <1>1 DEF Continues, BookTypes, LegBook
<1>10. m # n => ords[o].parent = 0
  BY <1>2 DEF Filled
<1> HIDE DEF n, m
\* What becomes of an order there was.
<1>11. ASSUME NEW k \in 1 .. n, k # o
       PROVE  /\ new[k].filled = ords[k].filled /\ new[k].parent = ords[k].parent
              /\ new[k].asked = ords[k].asked
              /\ \/ new[k].status = ords[k].status
                 \/ ords[k].status = "submitted" /\ new[k].status = "cancelled"
              /\ k \in Siblings(ords, o) => new[k].status # "submitted"
  <2>1. FillEffect(ords, o, q, k, new[k])
    BY <1>6
  <2> QED
    BY <1>11, <2>1 DEF FillEffect
<1>12. /\ new[o].filled = q /\ new[o].status = "filled" /\ new[o].parent = ords[o].parent
       /\ new[o].asked = ords[o].asked /\ ords[o].filled = 0
  <2>1. ords[o].filled \in Nat /\ ords[o].qty \in Nat
    BY <1>1, <1>9 DEF OrderRecords
  <2>2. ~ (ords[o].filled > 0)
    BY DEF LegBook
  <2>3. FillEffect(ords, o, q, o, new[o])
    BY <1>6, <1>9
  <2> QED
    BY <1>2, <2>1, <2>2, <2>3 DEF FillEffect
<1>13. ASSUME NEW k \in 1 .. m, k \notin 1 .. n
       PROVE  /\ m # n /\ k \in n + 1 .. m /\ new[k].filled = 0 /\ new[k].status = "submitted"
              /\ new[k].parent = o /\ new[k].asked = q
  <2>1. n \in Nat /\ m \in Nat
    BY <1>1, <1>3
  <2>2. k \in n + 1 .. m /\ m # n
    BY <1>13, <2>1
  <2> QED
    BY <1>2, <1>7, <2>2 DEF FreshLeg
<1>14. \A k \in 1 .. m : new[k].filled > 0 => new[k].status = "filled"
  <2> TAKE k \in 1 .. m
  <2>1. CASE k = o
    BY <1>12, <2>1
  <2>2. CASE k \in 1 .. n /\ k # o
    BY <1>1, <1>11, <2>2 DEF LegBook, n
  <2>3. CASE k \notin 1 .. n
    BY <1>13, <2>3
  <2> QED
    BY <2>1, <2>2, <2>3
<1>15. \A k \in 1 .. m :
         new[k].parent # 0 => new[k].parent \in DOMAIN kids /\ k \in kids[new[k].parent]
  <2> TAKE k \in 1 .. m
  <2>1. CASE k \in 1 .. n
    <3>1. new[k].parent = ords[k].parent
      BY <1>11, <1>12, <2>1
    <3>2. ords[k].parent # 0 => ords[k].parent \in DOMAIN children /\ k \in children[ords[k].parent]
      BY <1>1, <2>1 DEF LegBook, n
    <3> QED
      BY <1>8, <1>9, <3>1, <3>2
  <2>2. CASE k \notin 1 .. n
    BY <1>8, <1>13, <2>2
  <2> QED
    BY <2>1, <2>2
<1>16. \A e \in DOMAIN kids : new[e].status = "filled"
  <2> TAKE e \in DOMAIN kids
  <2>1. CASE e = o
    BY <1>12, <2>1
  <2>2. CASE e # o
    <3>1. e \in DOMAIN children /\ e \in 1 .. n /\ ords[e].status = "filled"
      BY <1>8, <1>9, <2>2 DEF LegBook
    <3> QED
      BY <1>11, <2>2, <3>1
  <2> QED
    BY <2>1, <2>2
<1>17. ASSUME NEW k \in 1 .. m, NEW p \in 1 .. m, k # p, new[k].parent = new[p].parent,
              new[k].parent # 0, new[k].filled > 0
       PROVE  new[p].status # "submitted" /\ new[p].filled = 0
  <2>1. k \in 1 .. n
    BY <1>13, <1>17
  <2>2. new[k].parent = ords[k].parent
    BY <1>11, <1>12, <2>1
  <2>3. ords[k].parent \in DOMAIN children /\ ords[k].parent # o
    BY <1>1, <1>9, <1>17, <2>1, <2>2 DEF LegBook, n
  <2>4. p \in 1 .. n
    BY <1>13, <1>17, <2>2, <2>3
  <2>5. new[p].parent = ords[p].parent
    BY <1>11, <1>12, <2>4
  <2>6. p \in children[ords[p].parent] /\ ords[p].parent \in DOMAIN children
    BY <1>1, <1>17, <2>4, <2>5 DEF LegBook, n
  <2>7. CASE k = o
    <3>1. p \in Siblings(ords, o) /\ p # o
      BY <1>17, <2>2, <2>5, <2>6, <2>7 DEF Siblings
    <3>2. ords[p].filled \in Nat
      BY <1>1, <2>4 DEF OrderRecords
    <3>3. ~ (ords[p].filled > 0)
      BY <1>1, <1>17, <2>1, <2>2, <2>4, <2>5, <2>7 DEF LegBook, n
    <3> QED
      BY <1>11, <2>4, <3>1, <3>2, <3>3
  <2>8. CASE k # o
    <3>1. ords[k].filled > 0
      BY <1>11, <1>17, <2>1, <2>8
    <3>2. ords[p].status # "submitted" /\ ords[p].filled = 0
      BY <1>1, <1>17, <2>1, <2>2, <2>4, <2>5, <3>1 DEF LegBook, n
    <3>3. p # o
      BY <3>2
    <3> QED
      BY <1>11, <2>4, <3>2, <3>3
  <2> QED
    BY <2>7, <2>8
<1>18. LegBook(new, kids)
  BY <1>3, <1>4, <1>14, <1>15, <1>16, <1>17 DEF LegBook, m
<1>19. ASSUME LegSizes(ords), NEW k \in 1 .. m, new[k].parent # 0
       PROVE  new[k].asked <= new[new[k].parent].filled
  <2>1. CASE k \in 1 .. n
    <3>1. PICK e : e = ords[k].parent /\ new[k].parent = e /\ new[k].asked = ords[k].asked
      BY <1>11, <1>12, <2>1
    <3>2. e \in DOMAIN children /\ ords[k].asked <= ords[e].filled
      BY <1>1, <1>19, <2>1, <3>1 DEF LegBook, LegSizes, n
    <3>3. e \in 1 .. n /\ e # o
      BY <1>9, <3>2
    <3> QED
      BY <1>11, <3>1, <3>2, <3>3
  <2>2. CASE k \notin 1 .. n
    <3>1. new[k].parent = o /\ new[k].asked = q /\ q \in Nat
      BY <1>1, <1>2, <1>9, <1>13, <2>2 DEF OrderRecords
    <3> QED
      BY <1>12, <3>1
  <2> QED
    BY <2>1, <2>2
<1> QED
  BY <1>3, <1>4, <1>5, <1>18, <1>19 DEF LegSizes, m

\* An order that is nobody's leg keeps them apart.
LEMMA AppendKeepsLegs ==
  ASSUME BrokerInv, LegBook(orders, children), NEW r \in Requests,
         NEW ords, ords = Append(orders, NewOrder(r, 0))
  PROVE  LegBook(ords, children) /\ (LegSizes(orders) => LegSizes(ords))
<1>1. PICK ord : ord = NewOrder(r, 0) /\ ord.filled = 0 /\ ord.parent = 0
  BY NewOrderType
<1>2. PICK n \in Nat : n = Len(orders)
  BY BookShape
<1>3. /\ DOMAIN orders = 1 .. n /\ Continues(orders)
      /\ DOMAIN ords = 1 .. n + 1 /\ ords[n + 1] = ord
      /\ \A k \in 1 .. n : ords[k] = orders[k]
  BY <1>1, <1>2, BookShape, AppendedContinues
<1>4. \A k \in 1 .. n + 1 : k \in 1 .. n \/ k = n + 1
  OBVIOUS
<1>5. /\ \A e \in DOMAIN children : e \in 1 .. n
      /\ \A k \in 1 .. n : orders[k].parent # 0 => orders[k].parent \in 1 .. n
  BY <1>3 DEF Continues, BookTypes, LegBook
<1>6. LegBook(ords, children)
  BY <1>1, <1>3, <1>4, <1>5 DEF LegBook
<1>7. LegSizes(orders) => LegSizes(ords)
  BY <1>1, <1>3, <1>4, <1>5 DEF LegSizes
<1> QED
  BY <1>6, <1>7

\* A submission on a broker that fills orders whole.
LEMMA AcceptKeepsLegs ==
  ASSUME BrokerInv, ~setup.partial, LegBook(orders, children), NEW r \in Requests, Accept(r)
  PROVE  LegBook(orders', children') /\ (LegSizes(orders) => LegSizes(orders'))
<1>1. PICK ords : ords = Append(orders, NewOrder(r, 0))
  OBVIOUS
<1>2. /\ Continues(ords) /\ Len(ords) = Len(orders) + 1
      /\ DOMAIN ords = 1 .. Len(orders) + 1
      /\ ords[Len(orders) + 1] = NewOrder(r, 0)
  BY <1>1, AppendedContinues
<1>3. /\ Len(orders) \in Nat /\ DOMAIN orders = 1 .. Len(orders) /\ RestTypes
  BY BookShape
<1>4. LegBook(ords, children) /\ (LegSizes(orders) => LegSizes(ords))
  BY <1>1, AppendKeepsLegs
<1>5. CASE \E q \in FillQuantities(r.qty) : Fill(ords, Len(ords), q)
  <2>1. PICK q \in FillQuantities(r.qty) : Fill(ords, Len(ords), q)
    BY <1>5
  <2>2. PICK o : o = Len(ords) /\ o \in DOMAIN ords /\ ords[o] = NewOrder(r, 0)
    BY <1>2, <1>3
  <2>3. ords[o].status = "submitted" /\ ords[o].qty = r.qty
    BY <2>2, NewOrderType
  <2> QED
    BY <1>2, <1>3, <1>4, <2>1, <2>2, <2>3, FillKeepsLegs
<1>6. CASE orders' = ords /\ UNCHANGED <<fills, children>>
  BY <1>4, <1>6
<1>7. NewOrder(r, 0).qty = r.qty
  BY NewOrderType
<1> QED
  BY <1>1, <1>2, <1>3, <1>5, <1>6, <1>7 DEF Accept

\* An order that neither trades nor is revived.
Edited(ord, new) ==
  /\ new.filled = ord.filled /\ new.parent = ord.parent
  /\ \/ new.status = ord.status
     \/ ord.status = "submitted" /\ new.status = "cancelled"

\* Editing orders keeps the legs apart.
LEMMA EditKeepsLegs ==
  ASSUME BrokerInv, LegBook(orders, children), children' = children, DOMAIN orders' = Ids,
         \A o \in Ids : Edited(orders[o], orders'[o])
  PROVE  /\ LegBook(orders', children')
         /\ (\A o \in Ids : orders'[o].asked = orders[o].asked) /\ LegSizes(orders)
              => LegSizes(orders')
<1>1. /\ Ids = DOMAIN orders
      /\ \A e \in DOMAIN children : e \in Ids
      /\ \A o \in Ids : orders[o].filled \in Nat
  <2>1. \A o \in Ids : orders[o] \in OrderRecords
    BY BookShape
  <2> QED
    BY <2>1, BookShape DEF Ids, Continues, BookTypes, OrderRecords
<1>2. PICK new : new = orders'
  OBVIOUS
<1>3. DOMAIN new = Ids /\ \A o \in Ids : Edited(orders[o], new[o])
  BY <1>2
<1>4. \A o \in Ids : /\ new[o].filled > 0 => new[o].status = "filled"
                     /\ new[o].parent # 0 =>
                          new[o].parent \in DOMAIN children /\ o \in children[new[o].parent]
  BY <1>1, <1>3 DEF LegBook, Edited
<1>5. \A e \in DOMAIN children : new[e].status = "filled"
  BY <1>1, <1>3 DEF LegBook, Edited
<1>6. ASSUME NEW o \in Ids, NEW p \in Ids, o # p, new[o].parent = new[p].parent,
             new[o].parent # 0, new[o].filled > 0
      PROVE  new[p].status # "submitted" /\ new[p].filled = 0
  <2>1. /\ orders[o].parent = orders[p].parent /\ orders[o].parent # 0 /\ orders[o].filled > 0
    BY <1>3, <1>6 DEF Edited
  <2>2. orders[p].status # "submitted" /\ orders[p].filled = 0
    BY <1>1, <1>6, <2>1 DEF LegBook
  <2> QED
    BY <1>3, <2>2 DEF Edited
<1>7. LegBook(new, children)
  BY <1>3, <1>4, <1>5, <1>6 DEF LegBook
<1>8. ASSUME LegSizes(orders), \A o \in Ids : new[o].asked = orders[o].asked
      PROVE  LegSizes(new)
  <2> SUFFICES ASSUME NEW o \in Ids, new[o].parent # 0
               PROVE  new[o].asked <= new[new[o].parent].filled
    BY <1>3 DEF LegSizes
  <2>1. new[o].parent = orders[o].parent /\ new[o].asked = orders[o].asked
    BY <1>3, <1>8 DEF Edited
  <2>2. orders[o].parent \in Ids
    BY <1>1, <2>1 DEF LegBook
  <2>3. orders[o].asked <= orders[orders[o].parent].filled
    BY <1>1, <1>8, <2>1 DEF LegSizes
  <2> QED
    BY <1>3, <2>1, <2>2, <2>3 DEF Edited
<1> QED
  BY <1>2, <1>7, <1>8

\* Every step keeps the legs apart.
LEMMA LegStep == BrokerInv /\ LegInv /\ [Next]_vars => LegInv'
<1> SUFFICES ASSUME BrokerInv, LegInv, [Next]_vars, setup' = setup, ~setup.partial PROVE LegInv'
  <2>1. [Next]_vars => setup' = setup
    BY DEF Next, SubmitOrder, CancelOrder, AmendOrder, PriceUpdate, Visit, StartFlatten,
           SubmitClose, FinishFlatten, Rollover, vars
  <2> QED
    BY <2>1 DEF LegInv
<1> DEFINE Kept == LegBook(orders', children') /\ (LegSizes(orders) => LegSizes(orders'))
<1>0. /\ Len(orders) \in Nat /\ Ids = 1 .. Len(orders) /\ DOMAIN orders = 1 .. Len(orders)
      /\ (\A o \in Ids : orders[o] \in OrderRecords) /\ Continues(orders)
      /\ tick \in [next : Nat \ {0}, last : Nat] /\ tick.last <= Len(orders)
      /\ flatten \in [Flatteners -> FlattenStates] /\ RestTypes /\ setup \in Setups
      /\ LegBook(orders, children) /\ (QuantitiesStand' <=> QuantitiesStand)
  BY BookShape DEF RestTypes, LegInv, QuantitiesStand
<1>1. Kept => LegInv'
  BY <1>0 DEF LegInv
<1>2. ASSUME NEW r \in setup.requests, SubmitOrder(r) PROVE Kept
  <2>1. r \in Requests /\ Accept(r)
    BY <1>0, <1>2, SetupAssumption DEF SubmitOrder
  <2> QED
    BY <1>0, <2>1, AcceptKeepsLegs
<1>3. ASSUME NEW o \in Ids, CancelOrder(o) PROVE Kept
  <2>1. /\ orders[o].status = "submitted" /\ orders' = [orders EXCEPT ![o].status = "cancelled"]
        /\ children' = children
    BY <1>0, <1>3 DEF CancelOrder, Cancellable, OrderRecords
  <2>2. \A k \in Ids : Edited(orders[k], orders'[k]) /\ orders'[k].asked = orders[k].asked
    <3> TAKE k \in Ids
    <3>1. orders[k] \in OrderRecords
      BY <1>0
    <3>2. orders'[k] = IF k = o THEN [orders[k] EXCEPT !.status = "cancelled"] ELSE orders[k]
      BY <1>0, <2>1
    <3> QED
      BY <2>1, <3>1, <3>2, CancelledType DEF Edited
  <2>3. DOMAIN orders' = Ids
    BY <1>0, <2>1
  <2> QED
    BY <1>0, <2>1, <2>2, <2>3, EditKeepsLegs
<1>4. ASSUME NEW o \in Ids, NEW a \in setup.amendments, AmendOrder(o, a[1], a[2])
      PROVE  LegInv'
  <2>1. PICK field, value, ord : field = a[1] /\ value = a[2] /\ ord = orders[o]
    OBVIOUS
  <2>2. \/ field = "qty" /\ value \in Nat \ {0}
        \/ field \in {"limit", "stop", "tp"} /\ value \in Nat
    BY <1>0, <2>1, SetupAssumption
  <2>3. PICK new : new = IF field = "qty"
                           THEN [ord EXCEPT !.qty = value, !.asked = ord.filled + value]
                           ELSE [ord EXCEPT ![field] = value]
    OBVIOUS
  <2>4. orders' = [orders EXCEPT ![o] = new] /\ children' = children
    BY <1>4, <2>1, <2>3 DEF AmendOrder
  <2>5. ord \in OrderRecords
    BY <1>0, <2>1
  <2>6. Edited(ord, new) /\ (field # "qty" => new.asked = ord.asked)
    <3>1. CASE field = "qty"
      BY <2>3, <2>5, <3>1 DEF Edited, OrderRecords
    <3>2. CASE field \in {"limit", "stop", "tp"}
      BY <2>3, <2>5, <3>2 DEF Edited, OrderRecords
    <3> QED
      BY <2>2, <3>1, <3>2
  <2>7. \A k \in Ids : Edited(orders[k], orders'[k])
    BY <1>0, <2>1, <2>4, <2>6 DEF Edited
  <2>8. DOMAIN orders' = Ids
    BY <1>0, <2>4
  <2>9. /\ LegBook(orders', children')
        /\ (\A k \in Ids : orders'[k].asked = orders[k].asked) /\ LegSizes(orders)
             => LegSizes(orders')
    BY <1>0, <2>4, <2>7, <2>8, EditKeepsLegs
  <2>10. QuantitiesStand => \A k \in Ids : orders'[k].asked = orders[k].asked
    BY <1>0, <2>1, <2>4, <2>6 DEF QuantitiesStand
  <2> QED
    BY <1>0, <2>9, <2>10 DEF LegInv
<1>5. CASE Visit
  <2>1. CASE \E q \in FillQuantities(orders[tick.next].qty) :
               tick.next <= tick.last /\ TradesNow(tick.next) /\ Fill(orders, tick.next, q)
    <3>1. PICK q, o : q \in FillQuantities(orders[o].qty) /\ Fill(orders, o, q) /\ o = tick.next
      BY <2>1
    <3>2. o \in DOMAIN orders /\ orders[o].status = "submitted"
      BY <1>0, <2>1, <3>1 DEF TradesNow
    <3>3. Kept
      BY <1>0, <3>1, <3>2, FillKeepsLegs
    <3> QED
      BY <1>1, <3>3
  <2>2. CASE UNCHANGED <<orders, fills, children>>
    BY <1>1, <1>0, <2>2
  <2> QED
    BY <1>5, <2>1, <2>2 DEF Visit
<1>6. ASSUME NEW f \in Flatteners, NEW roll \in BOOLEAN, StartFlatten(f, roll) PROVE Kept
  <2>1. orders' = CancelAll(orders) /\ children' = children
    BY <1>6 DEF StartFlatten
  <2>2. \A k \in Ids : Edited(orders[k], orders'[k]) /\ orders'[k].asked = orders[k].asked
    <3> TAKE k \in Ids
    <3>1. orders[k] \in OrderRecords
      BY <1>0
    <3>2. orders'[k] = IF orders[k].status = "submitted"
                         THEN [orders[k] EXCEPT !.status = "cancelled"] ELSE orders[k]
      BY <2>1 DEF CancelAll, Ids
    <3> QED
      BY <3>1, <3>2, CancelledType DEF Edited
  <2>3. DOMAIN orders' = Ids
    BY <2>1 DEF CancelAll, Ids
  <2> QED
    BY <1>0, <2>1, <2>2, <2>3, EditKeepsLegs
<1>7. ASSUME NEW f \in Flatteners, NEW r \in flatten[f].closes, SubmitClose(f, r) PROVE Kept
  <2>1. flatten[f] \in FlattenStates
    BY <1>0
  <2>2. r \in Requests /\ Accept(r)
    BY <1>7, <2>1 DEF FlattenStates, SubmitClose
  <2> QED
    BY <1>0, <2>2, AcceptKeepsLegs
<1>8. CASE UNCHANGED <<orders, children>>
  BY <1>0, <1>1, <1>8
<1> HIDE DEF Kept
<1> QED
  BY <1>1, <1>2, <1>3, <1>4, <1>5, <1>6, <1>7, <1>8
  DEF Next, PriceUpdate, FinishFlatten, Rollover, vars

\* What the invariant says of the legs of an entry.
LEMMA LegsFollow == BrokerInv /\ LegInv => OneLegTrades
<1> SUFFICES ASSUME BrokerInv, LegInv, ~setup.partial, NEW e \in Ids
             PROVE  /\ Cardinality({o \in LegsOf(e) : orders[o].filled > 0}) <= 1
                    /\ QuantitiesStand =>
                         SumFunctionOnSet([o \in Ids |-> orders[o].filled], LegsOf(e))
                           <= orders[e].filled
  BY DEF OneLegTrades, LegsExclude
<1> DEFINE L == LegsOf(e)
           T == {o \in L : orders[o].filled > 0}
           f == [o \in Ids |-> orders[o].filled]
<1>1. /\ Len(orders) \in Nat /\ Ids = 1 .. Len(orders) /\ Ids = DOMAIN orders
      /\ LegBook(orders, children) /\ (QuantitiesStand => LegSizes(orders))
  BY BookShape DEF LegInv
<1>2. \A o \in Ids : /\ orders[o].filled \in Nat /\ orders[o].qty \in Nat /\ orders[o].asked \in Nat
                     /\ orders[o].filled + orders[o].qty = orders[o].asked
                     /\ orders[o].status = "filled" <=> orders[o].qty = 0
  <2> TAKE o \in Ids
  <2>1. orders[o] \in OrderRecords /\ Settled(orders[o], Traded(o))
    BY BookShape DEF BrokerInv
  <2>2. orders[o].filled \in Nat /\ orders[o].qty \in Nat /\ orders[o].asked \in Nat
    BY <2>1 DEF OrderRecords
  <2> QED
    BY <2>1, <2>2 DEF Settled
<1>3. e # 0 /\ L \in SUBSET Ids /\ \A o \in L : orders[o].parent = e
  BY <1>1 DEF LegsOf
<1>4. IsFiniteSet(L)
  <2> HIDE DEF L
  <2>1. IsFiniteSet(1 .. Len(orders)) /\ L \in SUBSET (1 .. Len(orders))
    BY <1>1, <1>3, FS_Interval
  <2> QED
    BY <2>1, FS_Subset
<1>5. \A o \in Ids : f[o] = orders[o].filled
  OBVIOUS
<1>6. T \in SUBSET L /\ \A o \in L : o \notin T => f[o] = 0
  BY <1>2, <1>3, <1>5
<1>7. \A o, p \in T : o = p
  BY <1>1, <1>3 DEF LegBook
<1> HIDE DEF L, f
<1>8. CASE T = {}
  <2>1. Cardinality(T) = 0
    BY <1>8, FS_EmptySet
  <2>2. SumFunctionOnSet(f, L) = 0
    BY <1>4, <1>6, <1>8, SumOfZeros
  <2> QED
    BY <1>2, <2>1, <2>2 DEF L, f
<1>9. CASE T # {}
  <2>1. PICK x \in T : T = {x}
    BY <1>7, <1>9
  <2>2. Cardinality(T) = 1
    BY <2>1, FS_Singleton
  <2>3. x \in L /\ x \in Ids /\ orders[x].parent = e /\ orders[x].filled > 0
    BY <1>3, <2>1
  <2>4. SumFunctionOnSet(f, L) = f[x] + SumFunctionOnSet(f, L \ {x})
    <3>1. \A y \in L : f[y] \in Int
      BY <1>2, <1>3, <1>5
    <3> QED
      BY <1>4, <2>3, <3>1, SumWithout
  <2>5. SumFunctionOnSet(f, L \ {x}) = 0
    <3>1. IsFiniteSet(L \ {x})
      BY <1>4, FS_Subset
    <3>2. \A y \in L \ {x} : f[y] = 0
      BY <1>6, <2>1
    <3> QED
      BY <3>1, <3>2, SumOfZeros
  <2>6. SumFunctionOnSet(f, L) = orders[x].filled
    BY <1>2, <1>5, <2>3, <2>4, <2>5
  <2>7. orders[x].filled <= orders[x].asked
    BY <1>2, <2>3
  <2>8. QuantitiesStand => orders[x].asked <= orders[e].filled
    BY <1>1, <1>3, <2>3 DEF LegSizes
  <2>9. QuantitiesStand => orders[x].filled <= orders[e].filled
    BY <1>2, <2>3, <2>7, <2>8
  <2> QED
    BY <2>2, <2>6, <2>9 DEF L, f
<1> QED
  BY <1>8, <1>9

\* OCO on a broker that fills orders whole: of the legs an entry spawned at most
\* one trades, and for no more than the entry did (paper.py:11-13, 508-540).
THEOREM LegsNeverBothTrade == Spec => []OneLegTrades
<1>1. Init => LegInv
  BY DEF Init, LegInv, LegBook, LegSizes
<1>2. Spec => [](BrokerInv /\ LegInv)
  BY <1>1, BrokerInitial, BrokerStep, LegStep, PTL DEF Spec
<1> QED
  BY <1>2, LegsFollow, PTL

-----------------------------------------------------------------------------
(* Flattening *)

\* A flatten under way that nothing can run beside: no order rests, and exactly
\* the positions still open have their close to come.
FlattenAlone(f) ==
  /\ tick = Idle
  /\ \A g \in Flatteners : flatten[g].on => g = f
  /\ \A o \in Ids : orders[o].status # "submitted"
  /\ \A r \in flatten[f].closes : r.inst \in Instruments /\ Net(r.inst) # 0 /\ r = Close(r.inst)
  /\ \A inst \in Instruments : Net(inst) # 0 => Close(inst) \in flatten[f].closes

FlatInv ==
  \A f \in Flatteners :
    /\ ~flatten[f].on => flatten[f].closes = {}
    /\ ~setup.partial /\ ~setup.latency /\ flatten[f].on => FlattenAlone(f)

\* A position is what its fills say, also when orders are edited or added.
LEMMA NetStays ==
  ASSUME BrokerInv, fills' = fills,
         \A o \in Ids : orders'[o].side = orders[o].side /\ orders'[o].inst = orders[o].inst,
         NEW inst
  PROVE  Net(inst)' = Net(inst)
<1> DEFINE f == [i \in DOMAIN fills |-> Signed(fills[i])]
           S == {i \in DOMAIN fills : orders[fills[i].order].inst = inst}
<1>1. \A i \in DOMAIN fills : fills[i].order \in Ids
  BY BookShape DEF RestTypes, Ids
<1>2. f' = f /\ S' = S
  BY <1>1 DEF Signed
<1> HIDE DEF f, S
<1>3. SumFunctionOnSet(f', S') = SumFunctionOnSet(f, S)
  BY <1>2
<1> QED
  BY <1>3 DEF Net, f, S

\* A fill of q lots of the order o, signed by the side, moves its position only.
LEMMA NetMoves ==
  ASSUME BrokerInv, NEW o \in Nat \ {0}, NEW q \in Nat \ {0}, NEW side \in {"buy", "sell"}, NEW at,
         fills' = Append(fills, [order |-> o, qty |-> q]),
         \A k \in Ids : orders'[k].side = orders[k].side /\ orders'[k].inst = orders[k].inst,
         orders'[o].side = side, orders'[o].inst = at, NEW inst
  PROVE  Net(inst)' = Net(inst) + (IF inst # at THEN 0 ELSE IF side = "buy" THEN q ELSE -q)
<1> DEFINE x == Len(fills) + 1
           d == IF side = "buy" THEN q ELSE -q
           f == [i \in DOMAIN fills |-> Signed(fills[i])]
           S == {i \in DOMAIN fills : orders[fills[i].order].inst = inst}
<1>1. fills \in Seq(FillRecords) /\ \A i \in DOMAIN fills : fills[i].order \in Ids
  BY BookShape DEF RestTypes, Ids
<1>2. /\ Len(fills) \in Nat /\ DOMAIN fills = 1 .. Len(fills)
      /\ DOMAIN fills' = DOMAIN fills \cup {x}
      /\ fills'[x] = [order |-> o, qty |-> q]
      /\ \A i \in DOMAIN fills : fills[i] \in FillRecords /\ fills'[i] = fills[i]
  BY <1>1, AppendedFill
<1>3. x \notin DOMAIN fills
  BY <1>2
<1>4. PICK g, T : /\ g = [i \in DOMAIN fills' |->
                           IF orders'[fills'[i].order].side = "buy" THEN fills'[i].qty
                                                                    ELSE -fills'[i].qty]
                  /\ T = {i \in DOMAIN fills' : orders'[fills'[i].order].inst = inst}
  OBVIOUS
<1>5. Net(inst) = SumFunctionOnSet(f, S) /\ Net(inst)' = SumFunctionOnSet(g, T)
  BY <1>4 DEF Net, Signed
<1>6. T = IF inst = at THEN S \cup {x} ELSE S
  BY <1>1, <1>2, <1>3, <1>4
<1>7. g[x] = d /\ \A i \in DOMAIN fills : g[i] = f[i] /\ f[i] \in Int
  <2>1. g[x] = d
    BY <1>2, <1>4
  <2>2. ASSUME NEW i \in DOMAIN fills PROVE g[i] = f[i] /\ f[i] \in Int
    <3>1. fills[i].qty \in Int /\ fills'[i] = fills[i] /\ i \in DOMAIN fills'
      BY <1>2 DEF FillRecords
    <3> QED
      BY <1>1, <1>4, <3>1 DEF Signed
  <2> QED
    BY <2>1, <2>2
<1>8. S \in SUBSET DOMAIN fills /\ IsFiniteSet(S) /\ x \notin S
  BY <1>1, <1>3, FillsFinite
<1>9. d \in Int
  OBVIOUS
<1> HIDE DEF f, S, x
<1>10. CASE inst = at
  <2> HIDE DEF d
  <2>1. DifferAt(x, f, S, g, T)
    BY <1>6, <1>7, <1>8, <1>9, <1>10 DEF DifferAt
  <2>2. SumFunctionOnSet(g, T) = SumFunctionOnSet(f, S) + d
    BY <1>7, <1>8, <2>1, SumMoves
  <2> QED
    BY <1>5, <1>10, <2>2 DEF d
<1>11. CASE inst # at
  <2>1. \A i \in S : f[i] = g[i]
    BY <1>7, <1>8
  <2>2. SumFunctionOnSet(f, S) = SumFunctionOnSet(g, S)
    BY <1>8, <2>1, SumUnchanged
  <2>3. Net(inst)' = Net(inst) /\ Net(inst) \in Int
    BY <1>5, <1>6, <1>11, <2>2, NetType
  <2> QED
    BY <1>11, <2>3
<1> QED
  BY <1>10, <1>11

\* A close submitted while no order rests fills whole and closes its position.
LEMMA CloseFills ==
  ASSUME BrokerInv, ~setup.partial, \A o \in Ids : orders[o].status # "submitted",
         NEW inst \in Instruments, Net(inst) # 0, NEW r, r = Close(inst), Accept(r)
  PROVE  /\ \A o \in Ids' : orders'[o].status # "submitted"
         /\ Instruments' = Instruments
         /\ \A j \in Instruments : Net(j)' = IF j = inst THEN 0 ELSE Net(j)
<1> DEFINE n == Len(orders)
           o == n + 1
<1>1. PICK net \in Int : net = Net(inst) /\ net # 0
  BY NetType
<1>2. /\ r \in Requests /\ r.inst = inst /\ r.type = "market" /\ r.stop = NoPrice /\ r.tp = NoPrice
      /\ r.qty = (IF net > 0 THEN net ELSE -net) /\ r.side = IF net > 0 THEN "sell" ELSE "buy"
  BY <1>1, CloseType
<1>3. PICK ord : ord = NewOrder(r, 0)
  OBVIOUS
<1>4. /\ ord \in OrderRecords /\ ord.qty = r.qty /\ ord.filled = 0 /\ ord.status = "submitted"
      /\ ord.parent = 0 /\ ord.side = r.side /\ ord.inst = inst
      /\ ord.stop = NoPrice /\ ord.tp = NoPrice /\ ord.type = "market"
  BY <1>2, <1>3, NewOrderType
<1>5. PICK ords : ords = Append(orders, ord)
  OBVIOUS
<1>6. /\ Continues(ords) /\ Len(ords) = o /\ DOMAIN ords = 1 .. o /\ ords[o] = ord
      /\ \A k \in Ids : ords[k] = orders[k]
  BY <1>2, <1>3, <1>5, AppendedContinues
<1>7. /\ n \in Nat /\ DOMAIN orders = 1 .. n /\ Ids = 1 .. n /\ RestTypes
      /\ o \in DOMAIN ords /\ o \in Nat \ {0}
  BY <1>6, BookShape
<1>8. Marketable(ord, price)
  BY <1>4 DEF Marketable
<1> HIDE DEF n, o
<1>9. PICK q \in FillQuantities(ords[o].qty) : Fill(ords, o, q)
  BY <1>3, <1>5, <1>6, <1>8 DEF Accept
<1>10. ords[o].status = "submitted" /\ ords[o].stop = NoPrice /\ ords[o].tp = NoPrice
  BY <1>4, <1>6
<1>11. BookKept /\ Filled(ords, o, q) /\ q = ords[o].qty /\ q \in 1 .. ords[o].qty
  BY <1>6, <1>7, <1>9, <1>10, FillKeeps DEF n
<1>12. q = r.qty /\ q \in Nat \ {0}
  BY <1>2, <1>4, <1>6, <1>11 DEF Requests
<1>13. Len(orders') = o /\ orders' \in Seq(OrderRecords)
  BY <1>6, <1>10, <1>11 DEF Filled
<1>14. Ids' = 1 .. o /\ DOMAIN orders' = 1 .. o
  BY <1>13, LenProperties DEF Ids
<1>15. \A k \in 1 .. o : FillEffect(ords, o, q, k, orders'[k])
  BY <1>6, <1>7, <1>9, <1>10, FillEffects DEF n
<1>16. 1 .. o = Ids \cup {o} /\ o \notin Ids
  BY <1>7 DEF o
<1>17. ASSUME NEW k \in Ids
       PROVE  /\ orders'[k].status = orders[k].status
              /\ orders'[k].side = orders[k].side /\ orders'[k].inst = orders[k].inst
  <2>1. k # o /\ k \in 1 .. o /\ ords[k] = orders[k] /\ orders[k].status # "submitted"
    BY <1>6, <1>16
  <2>2. FillEffect(ords, o, q, k, orders'[k])
    BY <1>15, <2>1
  <2> QED
    BY <2>1, <2>2 DEF FillEffect
<1>18. /\ orders'[o].status = "filled" /\ orders'[o].side = r.side /\ orders'[o].inst = inst
  <2>1. FillEffect(ords, o, q, o, orders'[o])
    BY <1>15, <1>16
  <2> QED
    BY <1>4, <1>6, <1>11, <2>1 DEF FillEffect
<1>19. \A k \in Ids' : orders'[k].status # "submitted"
  BY <1>14, <1>16, <1>17, <1>18
<1>20. Instruments' = Instruments
  BY <1>14, <1>16, <1>17, <1>18 DEF Instruments
<1>21. ASSUME NEW j PROVE Net(j)' = Net(j) + (IF j # inst THEN 0 ELSE IF r.side = "buy" THEN q ELSE -q)
  <2>1. fills' = Append(fills, [order |-> o, qty |-> q])
    BY <1>11 DEF Filled
  <2>2. PICK side \in {"buy", "sell"} : side = r.side
    BY <1>2
  <2>3. PICK id \in Nat \ {0} : id = o
    BY <1>7
  <2>4. fills' = Append(fills, [order |-> id, qty |-> q])
        /\ orders'[id].side = side /\ orders'[id].inst = inst
    BY <1>18, <2>1, <2>2, <2>3
  <2>5. Net(j)' = Net(j) + (IF j # inst THEN 0 ELSE IF side = "buy" THEN q ELSE -q)
    BY <1>12, <1>17, <2>4, NetMoves
  <2> QED
    BY <2>2, <2>5
<1>22. ASSUME NEW j \in Instruments PROVE Net(j)' = IF j = inst THEN 0 ELSE Net(j)
  <2>1. CASE j = inst
    <3>1. Net(j)' = net + (IF r.side = "buy" THEN q ELSE -q)
      BY <1>1, <1>21, <2>1
    <3> QED
      BY <1>1, <1>2, <1>12, <2>1, <3>1
  <2>2. CASE j # inst
    <3>1. Net(j)' = Net(j) + 0 /\ Net(j) \in Int
      BY <1>21, <2>2, NetType
    <3> QED
      BY <2>2, <3>1
  <2> QED
    BY <2>1, <2>2
<1> QED
  BY <1>19, <1>20, <1>22

\* The first half of flatten_all leaves the closes of all positions to submit.
LEMMA StartsAlone ==
  ASSUME BrokerInv, NEW f \in Flatteners, NEW roll \in BOOLEAN, StartFlatten(f, roll),
         \A g \in Flatteners : ~flatten[g].on
  PROVE  FlattenAlone(f)'
<1>1. /\ (\A o \in Ids : orders[o] \in OrderRecords)
      /\ Ids = DOMAIN orders /\ flatten \in [Flatteners -> FlattenStates]
  BY BookShape DEF RestTypes
<1>2. /\ orders' = CancelAll(orders) /\ fills' = fills /\ tick' = tick /\ tick = Idle
  BY DEF StartFlatten, LoopBusy
<1>3. Ids' = Ids
  BY <1>1, <1>2 DEF CancelAll, Ids
<1>4. ASSUME NEW o \in Ids
      PROVE  /\ orders'[o].side = orders[o].side /\ orders'[o].inst = orders[o].inst
             /\ orders'[o].status # "submitted"
  <2>1. orders[o] \in OrderRecords
    BY <1>1
  <2>2. orders'[o] = IF orders[o].status = "submitted"
                       THEN [orders[o] EXCEPT !.status = "cancelled"] ELSE orders[o]
    BY <1>1, <1>2 DEF CancelAll
  <2> QED
    BY <2>1, <2>2, CancelledType
<1>5. Instruments' = Instruments
  BY <1>3, <1>4 DEF Instruments
<1>6. \A inst : Net(inst)' = Net(inst)
  BY <1>2, <1>4, NetStays
<1>7. \A inst : Close(inst)' = Close(inst)
  BY <1>6 DEF Close
<1>8. /\ flatten'[f].closes = {Close(inst) : inst \in {i \in Instruments : Net(i) # 0}}
      /\ \A g \in Flatteners : flatten'[g].on => g = f
  BY <1>1 DEF StartFlatten
<1>9. \A inst \in Instruments : Net(inst) # 0 => Close(inst) \in flatten'[f].closes
  BY <1>8
<1>10. ASSUME NEW r \in flatten'[f].closes
       PROVE  r.inst \in Instruments /\ Net(r.inst) # 0 /\ r = Close(r.inst)
  <2>1. PICK inst \in Instruments : r = Close(inst) /\ Net(inst) # 0
    BY <1>8
  <2>2. r.inst = inst
    BY <2>1, CloseType
  <2> QED
    BY <2>1, <2>2
<1>11. \A r \in flatten'[f].closes :
         r.inst \in Instruments' /\ Net(r.inst)' # 0 /\ r = Close(r.inst)'
  BY <1>5, <1>6, <1>7, <1>10
<1>12. \A inst \in Instruments' : Net(inst)' # 0 => Close(inst)' \in flatten'[f].closes
  BY <1>5, <1>6, <1>7, <1>9
<1>13. \A o \in Ids' : orders'[o].status # "submitted"
  BY <1>3, <1>4
<1> QED
  BY <1>2, <1>8, <1>11, <1>12, <1>13 DEF FlattenAlone, Idle

\* A close leaves the others to come.
LEMMA ClosesAlone ==
  ASSUME BrokerInv, ~setup.partial, NEW f \in Flatteners, FlattenAlone(f),
         NEW r \in flatten[f].closes, SubmitClose(f, r)
  PROVE  FlattenAlone(f)'
<1>1. PICK inst : inst = r.inst
  OBVIOUS
<1>2. inst \in Instruments /\ Net(inst) # 0 /\ r = Close(inst) /\ Accept(r)
  BY <1>1 DEF FlattenAlone, SubmitClose
<1>3. \A o \in Ids : orders[o].status # "submitted"
  BY DEF FlattenAlone
<1>4. /\ \A o \in Ids' : orders'[o].status # "submitted"
      /\ Instruments' = Instruments
      /\ \A j \in Instruments : Net(j)' = IF j = inst THEN 0 ELSE Net(j)
  BY <1>2, <1>3, CloseFills
<1>5. \A j \in Instruments : j # inst => Close(j)' = Close(j)
  BY <1>4 DEF Close
<1>6. /\ flatten \in [Flatteners -> FlattenStates]
      /\ flatten' = [flatten EXCEPT ![f].closes = @ \ {r}] /\ tick' = tick
  BY BookShape DEF RestTypes, SubmitClose
<1>7. /\ flatten'[f].closes = flatten[f].closes \ {r}
      /\ \A g \in Flatteners : flatten'[g].on = flatten[g].on
  <2>1. \A g \in Flatteners : flatten[g] \in FlattenStates
    BY <1>6
  <2> QED
    BY <1>6, <2>1 DEF FlattenStates
<1>8. ASSUME NEW c \in flatten'[f].closes
      PROVE  c.inst \in Instruments' /\ Net(c.inst)' # 0 /\ c = Close(c.inst)'
  <2>1. c \in flatten[f].closes /\ c # r
    BY <1>7
  <2>2. PICK j : j = c.inst
    OBVIOUS
  <2>3. j \in Instruments /\ Net(j) # 0 /\ c = Close(j)
    BY <2>1, <2>2 DEF FlattenAlone
  <2>4. j # inst
    BY <1>2, <2>1, <2>3
  <2>5. Net(j)' # 0 /\ c = Close(j)' /\ j \in Instruments'
    BY <1>4, <1>5, <2>3, <2>4
  <2> QED
    BY <2>2, <2>5
<1>9. ASSUME NEW j \in Instruments', Net(j)' # 0
      PROVE  Close(j)' \in flatten'[f].closes
  <2>1. j \in Instruments /\ j # inst /\ Net(j) # 0
    BY <1>4, <1>9
  <2>2. Close(j) \in flatten[f].closes
    BY <2>1 DEF FlattenAlone
  <2>3. Close(j) # r
    BY <1>1, <2>1, CloseType
  <2>4. Close(j)' = Close(j)
    BY <1>5, <2>1
  <2> QED
    BY <1>7, <2>2, <2>3, <2>4
<1>10. tick' = Idle /\ \A g \in Flatteners : flatten'[g].on => g = f
  BY <1>6, <1>7 DEF FlattenAlone
<1> QED
  BY <1>4, <1>8, <1>9, <1>10 DEF FlattenAlone, Idle

\* Every step keeps the flatten under way alone.
LEMMA FlatStep == BrokerInv /\ FlatInv /\ [Next]_vars => FlatInv'
<1> SUFFICES ASSUME BrokerInv, FlatInv, [Next]_vars, setup' = setup PROVE FlatInv'
  <2>1. [Next]_vars => setup' = setup
    BY DEF Next, SubmitOrder, CancelOrder, AmendOrder, PriceUpdate, Visit, StartFlatten,
           SubmitClose, FinishFlatten, Rollover, vars
  <2> QED
    BY <2>1
<1>0. flatten \in [Flatteners -> FlattenStates]
  BY BookShape DEF RestTypes
<1>1. CASE flatten' = flatten /\ ~FlattenBusy
  BY <1>1 DEF FlatInv, FlattenBusy
<1>2. CASE Visit
  <2>1. ~ (~setup.partial /\ ~setup.latency /\ \E f \in Flatteners : flatten[f].on)
    BY <1>2 DEF FlatInv, FlattenAlone, Visit, LoopBusy
  <2>2. flatten' = flatten
    BY <1>2 DEF Visit
  <2> QED
    BY <2>1, <2>2 DEF FlatInv
<1>3. CASE UNCHANGED vars
  <2>1. orders' = orders /\ fills' = fills /\ flatten' = flatten /\ tick' = tick
    BY <1>3 DEF vars
  <2>2. Ids' = Ids /\ Instruments' = Instruments
    BY <2>1 DEF Ids, Instruments
  <2>3. \A inst : Net(inst)' = Net(inst)
    BY <2>1, NetStays
  <2>4. \A inst : Close(inst)' = Close(inst)
    BY <2>3 DEF Close
  <2>5. \A f \in Flatteners : FlattenAlone(f) => FlattenAlone(f)'
    BY <2>1, <2>2, <2>3, <2>4 DEF FlattenAlone, Idle
  <2> QED
    BY <1>3, <2>1, <2>5 DEF FlatInv, vars
<1>4. ASSUME NEW f \in Flatteners, NEW roll \in BOOLEAN, StartFlatten(f, roll) PROVE FlatInv'
  <2>1. /\ flatten'[f].on
        /\ \A g \in Flatteners : g # f => flatten'[g] = flatten[g]
    BY <1>0, <1>4 DEF StartFlatten
  <2>2. ~setup.latency => \A g \in Flatteners : ~flatten[g].on
    BY <1>4 DEF StartFlatten, FlattenBusy
  <2>3. ~setup.latency => FlattenAlone(f)'
    BY <1>4, <2>2, StartsAlone
  <2>4. \A g \in Flatteners : ~flatten'[g].on => flatten'[g].closes = {}
    BY <2>1 DEF FlatInv
  <2>5. ~setup.latency => \A g \in Flatteners : flatten'[g].on => g = f
    BY <2>1, <2>2
  <2> QED
    BY <2>3, <2>4, <2>5 DEF FlatInv
<1>5. ASSUME NEW f \in Flatteners, NEW r \in flatten[f].closes, SubmitClose(f, r) PROVE FlatInv'
  <2>1. flatten[f].on
    BY <1>5 DEF FlatInv
  <2>2. \A g \in Flatteners : /\ flatten'[g].on = flatten[g].on
                              /\ g # f => flatten'[g] = flatten[g]
    <3>1. \A g \in Flatteners : flatten[g] \in FlattenStates
      BY <1>0
    <3> QED
      BY <1>0, <1>5, <3>1 DEF SubmitClose, FlattenStates
  <2>3. ~setup.partial /\ ~setup.latency => FlattenAlone(f)'
    BY <1>5, <2>1, ClosesAlone DEF FlatInv
  <2>4. ~setup.partial /\ ~setup.latency => \A g \in Flatteners : flatten'[g].on => g = f
    BY <2>1, <2>2 DEF FlatInv, FlattenAlone
  <2>5. \A g \in Flatteners : ~flatten'[g].on => flatten'[g].closes = {}
    BY <2>1, <2>2 DEF FlatInv
  <2> QED
    BY <2>3, <2>4, <2>5 DEF FlatInv
<1>6. ASSUME NEW f \in Flatteners, FinishFlatten(f) PROVE FlatInv'
  <2>1. /\ flatten[f].on /\ flatten'[f] = NoFlatten
        /\ \A g \in Flatteners : g # f => flatten'[g] = flatten[g]
    BY <1>0, <1>6 DEF FinishFlatten
  <2>2. ~setup.partial /\ ~setup.latency => \A g \in Flatteners : g # f => ~flatten[g].on
    BY <2>1 DEF FlatInv, FlattenAlone
  <2>3. ~setup.partial /\ ~setup.latency => \A g \in Flatteners : ~flatten'[g].on
    BY <2>1, <2>2 DEF NoFlatten
  <2>4. \A g \in Flatteners : ~flatten'[g].on => flatten'[g].closes = {}
    BY <2>1 DEF FlatInv, NoFlatten
  <2> QED
    BY <2>3, <2>4 DEF FlatInv
<1> QED
  BY <1>1, <1>2, <1>3, <1>4, <1>5, <1>6
  DEF Next, SubmitOrder, CancelOrder, AmendOrder, PriceUpdate, Rollover

\* When flatten_all returns on a broker that fills whole and yields nowhere, no
\* order rests and every position is closed (paper.py:192-197).
THEOREM FlattenClosesAll == Spec => FlattenLeavesFlat
<1> DEFINE Flat ==
      \A f \in Flatteners :
        ~setup.partial /\ ~setup.latency /\ flatten[f].on /\ ~flatten'[f].on =>
          /\ \A o \in Ids : orders[o].status # "submitted"
          /\ \A inst \in Instruments : Net(inst) = 0
<1>1. Init => FlatInv
  BY DEF Init, FlatInv, NoFlatten
<1>2. ASSUME BrokerInv, FlatInv, [Next]_vars, NEW f \in Flatteners,
             ~setup.partial, ~setup.latency, flatten[f].on, ~flatten'[f].on
      PROVE  /\ \A o \in Ids : orders[o].status # "submitted"
             /\ \A inst \in Instruments : Net(inst) = 0
  <2>1. flatten \in [Flatteners -> FlattenStates] /\ FlattenAlone(f)
    BY <1>2, BookShape DEF RestTypes, FlatInv
  <2>2. flatten[f].closes = {}
    <3>1. ASSUME NEW g \in Flatteners, NEW roll \in BOOLEAN, StartFlatten(g, roll) PROVE FALSE
      BY <1>2, <2>1, <3>1 DEF StartFlatten
    <3>2. ASSUME NEW g \in Flatteners, NEW r \in flatten[g].closes, SubmitClose(g, r) PROVE FALSE
      <4>1. flatten' = [flatten EXCEPT ![g].closes = @ \ {r}] /\ flatten[g] \in FlattenStates
        BY <2>1, <3>2 DEF SubmitClose
      <4> QED
        BY <1>2, <2>1, <4>1 DEF FlattenStates
    <3>3. ASSUME NEW g \in Flatteners, FinishFlatten(g) PROVE flatten[f].closes = {}
      BY <1>2, <2>1, <3>3 DEF FinishFlatten
    <3>4. flatten' # flatten
      BY <1>2
    <3> QED
      BY <1>2, <3>1, <3>2, <3>3, <3>4
      DEF Next, SubmitOrder, CancelOrder, AmendOrder, PriceUpdate, Visit, Rollover, vars
  <2> QED
    BY <2>1, <2>2 DEF FlattenAlone
<1>3. BrokerInv /\ FlatInv /\ [Next]_vars => [Flat]_vars
  BY <1>2
<1>4. Spec => [](BrokerInv /\ FlatInv)
  BY <1>1, BrokerInitial, BrokerStep, FlatStep, PTL DEF Spec
<1> QED
  BY <1>3, <1>4, PTL DEF Spec, FlattenLeavesFlat

=============================================================================
