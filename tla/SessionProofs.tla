---------------------------- MODULE SessionProofs ----------------------------
(***************************************************************************)
(* A paper session.  The runner, for any symbols, intents, orders, starts  *)
(* and faults: what it stores, and when it gives up.  And what stands      *)
(* between a session and its orders: the gate of the risk governor, for    *)
(* any programs, balances and results; the circuit breaker around the      *)
(* signals, for any number of overlapping calls, any threshold and any     *)
(* recovery timeout.                                                       *)
(***************************************************************************)
EXTENDS PaperRunner, RiskGovernor, SignalCircuit, TLAPS

-----------------------------------------------------------------------------
(* The runner *)
Placed == pc \in {"fill", "order", "jsonl"}

\* While an intent is traded there is one, and room for it.
Room ==
  /\ pc = "place" => Len(orders) + Len(todo) <= MaxOrders
  /\ Placed => todo # <<>> /\ Len(orders) + Len(todo) <= MaxOrders + 1 /\ Len(orders) > 0

\* Failures counted, and failures there were.
Failures ==
  /\ strikes <= errors
  /\ pc = "down" => strikes = 0
  /\ pc \notin {"down", "close", "strikes"} => strikes <= 2
  /\ pc = "strikes" => strikes = 3
  /\ pc \notin {"down", "close"} /\ ~blurred => errors = strikes

\* The shutdown row and the exit.
Endings ==
  /\ pc # "down" => run > 0 /\ farewells = <<>> /\ exit \in {"running", "raised"}
  /\ pc = "down" =>
       /\ Len(farewells) <= 1
       /\ exit = "strikes" => errors = 3 /\ farewells = <<2>>
       /\ exit = "clean" /\ run > 0 => farewells = <<0>>

Mirrors(n) == \A i \in 1..Len(Symbols) : i < n => rows[Symbols[i]] = Net(filled, Symbols[i])

\* The mirror has done the symbols before its place.
Rows ==
  /\ pc = "mirror" => Mirrors(at)
  /\ pc \in {"snapshot", "end"} \/ (pc = "rest" /\ strikes = 0) => Mirrors(Len(Symbols) + 1)

FirstFills == {f \in filled : f.first}
OfThisRun == {f \in ledger : f.run = run}
Pending == IF pc = "fill" THEN {Current} ELSE {}

\* A first fill per order; those of this run are in the store, but for the ones
\* that were lost and the one at hand.
Fills ==
  /\ pc = "down" => filled = {}
  /\ \A f \in ledger : f.run <= run
  /\ \A f \in filled : f.run = run /\ f.order <= Len(orders)
  /\ \A f, g \in FirstFills : f.order = g.order => f = g
  /\ lost \subseteq filled
  /\ Placed => \E f \in FirstFills : f.order = Len(orders)
  /\ pc = "fill" => Current \notin lost
  /\ pc = "order" => Current \in ledger
  /\ pc # "down" => OfThisRun = (FirstFills \ lost) \ Pending

RunnerInv ==
  TypeOK /\ Room /\ Failures /\ Endings /\ Rows /\ Fills /\ OrdersHaveFills

-----------------------------------------------------------------------------
(* Types *)

LEMMA SequenceFacts ==
  ASSUME NEW S, NEW s \in Seq(S)
  PROVE  Len(s) \in Nat /\ \A i \in 1..Len(s) : s[i] \in S
  OBVIOUS

LEMMA FunctionIsSequence ==
  ASSUME NEW S, NEW n \in Nat, NEW f \in [1..n -> S]
  PROVE  f \in Seq(S) /\ Len(f) = n
  OBVIOUS

LEMMA AppendFacts ==
  ASSUME NEW S, NEW s \in Seq(S), NEW e \in S
  PROVE  Append(s, e) \in Seq(S) /\ Len(Append(s, e)) = Len(s) + 1
  OBVIOUS

LEMMA InitInv == Init => RunnerInv
<1> SUFFICES ASSUME Init PROVE RunnerInv
  OBVIOUS
<1> USE RunnerAssumption DEF Init
<1>1. TypeOK
  <2>1. blotter \in [OrderNumbers -> Intents \cup {None}]
    OBVIOUS
  <2>2. /\ todo \in Seq(Intents) /\ farewells \in Seq({0, 2})
        /\ orders \in Seq([intent : Intents, left : 0..Size]) /\ Len(Symbols) \in Nat
    OBVIOUS
  <2>3. /\ pc \in {"down"} /\ exit \in {"clean"} /\ DOMAIN rows = SymbolSet
        /\ at \in 1..Len(Symbols) + 1 /\ run \in 0..MaxRuns /\ faults \in 0..MaxFaults
    BY <2>2
  <2>4. filled \subseteq FillType /\ ledger \subseteq FillType /\ lost \subseteq FillType
    BY Zenon
  <2>5. stopping \in BOOLEAN /\ blurred \in BOOLEAN
    BY Zenon
  <2>6. strikes \in 0..3 /\ errors \in 0..3
    BY Z3
  <2>7. /\ pc \in {"down", "tick", "prices", "place", "fill", "order", "jsonl", "mirror",
                   "snapshot", "end", "error", "strikes", "rest", "close"}
        /\ exit \in {"running", "clean", "strikes", "raised", "killed"}
    BY Zenon
  <2> QED BY <2>1, <2>2, <2>3, <2>4, <2>5, <2>6, <2>7, Zenon DEF TypeOK
<1>2. Room /\ Failures /\ Endings /\ Rows
  BY DEF Room, Placed, Failures, Endings, Rows
<1>3. Fills /\ OrdersHaveFills
  BY DEF Fills, FirstFills, Placed, OrdersHaveFills
<1> QED BY <1>1, <1>2, <1>3 DEF RunnerInv

LEMMA CurrentIs ==
  ASSUME Fills, Placed
  PROVE  Current \in filled /\ Current.order = Len(orders) /\ Current.first
  BY DEF Fills, FirstFills, Current

\* What placing an order does to the broker.
LEMMA PlaceTypes ==
  ASSUME TypeOK, Room, Endings, NEW amount \in 1..Size, NEW more \in [Unfilled -> 1..Size],
         Place(amount, more)
  PROVE  /\ orders' \in Seq([intent : Intents, left : 0..Size])
         /\ Len(orders') = Len(orders) + 1 /\ Len(orders') \in OrderNumbers
         /\ \E new \in FillType, later \in SUBSET FillType :
              /\ filled' = (filled \cup later) \cup {new}
              /\ new.run = run /\ new.order = Len(orders') /\ new.first
              /\ \A f \in later : f.run = run /\ f.order <= Len(orders) /\ ~f.first
<1> DEFINE n == Len(orders) + 1
           rest == [m \in 1..Len(orders) |->
                      IF m \in Unfilled THEN [orders[m] EXCEPT !.left = @ - more[m]] ELSE orders[m]]
           last == [intent |-> Head(todo), left |-> Size - amount]
           later == {FillOf(m, FALSE, more[m]) : m \in Unfilled}
           new == FillOf(n, TRUE, amount)
<1>1. /\ todo \in Seq(Intents) /\ todo # <<>> /\ pc = "place" /\ Size \in Nat
      /\ orders \in Seq([intent : Intents, left : 0..Size])
      /\ Len(orders) + Len(todo) <= MaxOrders /\ MaxOrders \in Nat /\ run \in 1..MaxRuns
  BY RunnerAssumption DEF TypeOK, Room, Place, Endings
<1>2. Head(todo) \in Intents /\ Len(todo) > 0 /\ Len(todo) \in Nat /\ Len(orders) \in Nat
  BY <1>1
<1>3. rest \in Seq([intent : Intents, left : 0..Size]) /\ Len(rest) = Len(orders)
  <2>1. rest \in [1..Len(orders) -> [intent : Intents, left : 0..Size]]
    <3> SUFFICES ASSUME NEW m \in 1..Len(orders)
                 PROVE  rest[m] \in [intent : Intents, left : 0..Size]
      OBVIOUS
    <3>1. orders[m] \in [intent : Intents, left : 0..Size]
      BY <1>1, SequenceFacts
    <3>2. CASE m \in Unfilled
      <4>1. more[m] \in 1..orders[m].left
        <5>1. more[m] \in Amounts(orders[m].left)
          BY <3>2 DEF Place
        <5>2. orders[m].left \in 1..Size
          BY <1>1, <3>1, <3>2 DEF Unfilled
        <5> QED BY <1>1, <5>1, <5>2 DEF Amounts
      <4>2. orders[m].left - more[m] \in 0..Size
        BY <1>1, <3>1, <4>1
      <4>3. rest[m] = [orders[m] EXCEPT !.left = orders[m].left - more[m]]
        BY <3>2
      <4> HIDE DEF rest
      <4> QED BY <3>1, <4>2, <4>3
    <3> QED BY <3>1, <3>2
  <2> QED BY <1>2, <2>1, FunctionIsSequence
<1>4. last \in [intent : Intents, left : 0..Size]
  BY <1>1, <1>2
<1>5. orders' = Append(rest, last)
  BY DEF Place
<1> HIDE DEF rest, last
<1>6. /\ orders' \in Seq([intent : Intents, left : 0..Size])
      /\ Len(orders') = n /\ n \in OrderNumbers
      /\ \A m \in 1..n : orders'[m] \in [intent : Intents, left : 0..Size]
  <2>1. orders' \in Seq([intent : Intents, left : 0..Size]) /\ Len(orders') = n
    BY <1>2, <1>3, <1>4, <1>5, AppendFacts
  <2>2. \A m \in 1..n : orders'[m] \in [intent : Intents, left : 0..Size]
    BY <2>1, SequenceFacts
  <2> QED BY <1>1, <1>2, <2>1, <2>2 DEF OrderNumbers
<1>7. new \in FillType /\ new.run = run /\ new.order = n /\ new.first
  BY <1>1, <1>2, <1>6 DEF FillType, FillOf, OrderNumbers
<1>8. later \subseteq FillType /\ \A f \in later : f.run = run /\ f.order <= Len(orders) /\ ~f.first
  <2> SUFFICES ASSUME NEW m \in Unfilled
               PROVE  /\ FillOf(m, FALSE, more[m]) \in FillType
                      /\ FillOf(m, FALSE, more[m]).run = run
                      /\ FillOf(m, FALSE, more[m]).order <= Len(orders)
                      /\ ~FillOf(m, FALSE, more[m]).first
    OBVIOUS
  <2>1. m \in 1..Len(orders) /\ more[m] \in 1..Size
    BY DEF Unfilled
  <2>2. m \in OrderNumbers /\ orders'[m] \in [intent : Intents, left : 0..Size]
    BY <1>1, <1>2, <1>6, <2>1 DEF OrderNumbers
  <2> QED BY <1>1, <2>1, <2>2 DEF FillType, FillOf
<1>9. filled' = (filled \cup later) \cup {new}
  BY DEF Place, FillOf
<1> HIDE DEF later, new
<1> QED BY <1>6, <1>7, <1>8, <1>9

LEMMA TypeStep == RunnerInv /\ Next => TypeOK'
<1> SUFFICES ASSUME RunnerInv, Next PROVE TypeOK'
  OBVIOUS
<1> USE RunnerAssumption DEF RunnerInv
<1>0. TypeOK /\ Room /\ Failures /\ Endings /\ Fills
  OBVIOUS
<1>1. CASE StartCycle \/ NoPrices \/ Mirrored \/ Snapshot \/ Rest \/ LoopEnds \/ RequestStop
  BY <1>1 DEF TypeOK, StartCycle, NoPrices, Mirrored, Snapshot, Rest, LoopEnds, RequestStop,
     Goto, broker, store, history
<1>2. ASSUME NEW n \in 0..MaxIntents, NEW asked \in [1..n -> Intents], Decide(asked)
      PROVE  TypeOK'
  <2>1. asked \in Seq(Intents)
    BY FunctionIsSequence
  <2> QED BY <1>2, <2>1 DEF TypeOK, Decide, broker, store, history
<1>3. ASSUME NEW amount \in 1..Size, NEW more \in [Unfilled -> 1..Size],
         Place(amount, more) PROVE TypeOK'
  <2>1. /\ orders' \in Seq([intent : Intents, left : 0..Size])
        /\ filled' \subseteq FillType
    <3>1. PICK new \in FillType, later \in SUBSET FillType : filled' = (filled \cup later) \cup {new}
      BY <1>3, PlaceTypes
    <3> QED BY <1>3, <3>1, PlaceTypes DEF TypeOK
  <2>2. /\ pc' = "fill"
        /\ UNCHANGED <<exit, stopping, strikes, todo, at, store, run, faults, history>>
    BY <1>3 DEF Place
  <2> QED BY <2>1, <2>2 DEF TypeOK, store, history
<1>4. CASE StoreFill \/ FillNotStored
  <2>1. Current \in FillType
    BY <1>4, CurrentIs DEF TypeOK, StoreFill, FillNotStored, Goto, Placed
  <2> QED BY <1>4, <2>1 DEF TypeOK, StoreFill, FillNotStored, Raises, Goto, broker, store, history
<1>5. CASE StoreOrder
  <2>1. Current \in FillType /\ Current.intent \in Intents
    BY <1>5, CurrentIs DEF TypeOK, StoreOrder, Goto, Placed, FillType
  <2> DEFINE new == IF blotter[Len(orders)] = None THEN Current.intent ELSE blotter[Len(orders)]
  <2>2. blotter' = [blotter EXCEPT ![Len(orders)] = new] /\ Len(orders) \in OrderNumbers
    <3>1. /\ Len(orders) \in Nat /\ Len(todo) \in Nat /\ Len(todo) > 0 /\ Len(orders) > 0
          /\ Len(orders) + Len(todo) <= MaxOrders + 1
      BY <1>5 DEF TypeOK, Room, Placed, StoreOrder, Goto
    <3> QED BY <1>5, <3>1 DEF StoreOrder, OrderNumbers
  <2>3. blotter' \in [OrderNumbers -> Intents \cup {None}]
    BY <2>1, <2>2 DEF TypeOK
  <2> QED BY <1>5, <2>3 DEF TypeOK, StoreOrder, Goto, broker, history
<1>6. CASE OrderNotStored \/ SlippageNotStored \/ CycleNotStored
  BY <1>6 DEF TypeOK, OrderNotStored, SlippageNotStored, CycleNotStored, Raises, Goto,
     broker, store, history
<1>7. CASE AppendSlippage
  <2>1. Tail(todo) \in Seq(Intents)
    BY <1>7 DEF TypeOK, Room, Placed, AppendSlippage
  <2> QED BY <1>7, <2>1 DEF TypeOK, AppendSlippage, broker, store, history
<1>8. CASE Traded \/ Mirror
  BY <1>8 DEF TypeOK, Traded, Mirror, broker, store, history
<1>9. CASE CycleEnd
  <2>1. /\ strikes' = 0 /\ errors' = 0 /\ blurred' = FALSE /\ pc' = "rest"
        /\ UNCHANGED <<exit, stopping, todo, at, broker, store, run, faults, lost>>
    BY <1>9 DEF CycleEnd
  <2>2. strikes' \in 0..3 /\ errors' \in 0..3
    BY <2>1
  <2>3. blurred' \in BOOLEAN
    BY <2>1, Zenon
  <2> QED BY <2>1, <2>2, <2>3 DEF TypeOK, broker, store
<1>10. CASE EndNotStored
  BY <1>10 DEF TypeOK, EndNotStored, Raises, broker, store
<1>11. CASE CycleError \/ ErrorNotStored
  <2>1. /\ strikes <= 2 /\ strikes \in 0..3 /\ errors \in 0..3
        /\ strikes' = strikes + 1 /\ CountError
    BY <1>11 DEF TypeOK, Failures, CycleError, ErrorNotStored
  <2>2. strikes' \in 0..3 /\ errors' \in 0..3
    BY <2>1 DEF CountError
  <2>3. CASE CycleError
    <3>1. pc' \in {"strikes", "rest"}
      BY <2>3 DEF CycleError
    <3> QED BY <2>2, <2>3, <3>1 DEF TypeOK, CycleError, broker, store
  <2>4. CASE ErrorNotStored
    BY <2>2, <2>4 DEF TypeOK, ErrorNotStored, Raises, broker, store
  <2> QED BY <1>11, <2>3, <2>4
<1>12. CASE StrikesNotStored
  BY <1>12 DEF TypeOK, StrikesNotStored, Raises, broker, store, history
<1>13. CASE StrikesOut \/ Close \/ CloseNotStored \/ Kill
  <2>1. /\ Die /\ errors' = errors
        /\ faults' = faults \/ (faults' = faults + 1 /\ faults < MaxFaults)
        /\ exit' \in {"running", "clean", "strikes", "raised", "killed"}
        /\ \/ farewells' = farewells
           \/ farewells' = Append(farewells, 0) \/ farewells' = Append(farewells, 2)
    <3>1. CASE StrikesOut
      BY <3>1 DEF StrikesOut
    <3>2. CASE Close
      BY <3>2 DEF TypeOK, Close
    <3>3. CASE CloseNotStored
      BY <3>3 DEF CloseNotStored, Raises
    <3>4. CASE Kill
      BY <3>4 DEF Kill
    <3> QED BY <1>13, <3>1, <3>2, <3>3, <3>4
  <2>2. farewells' \in Seq({0, 2})
    <3>1. farewells \in Seq({0, 2}) /\ 0 \in {0, 2} /\ 2 \in {0, 2}
      BY DEF TypeOK
    <3> QED BY <2>1, <3>1, AppendFacts
  <2>3. <<>> \in Seq([intent : Intents, left : 0..Size]) /\ <<>> \in Seq(Intents)
        /\ 1 \in 1..Len(Symbols) + 1
    BY SequenceFacts
  <2>4. faults' \in 0..MaxFaults
    BY <2>1 DEF TypeOK
  <2>5. UNCHANGED <<ledger, blotter, rows, run, errors>>
    BY <2>1 DEF Die
  <2>6. /\ pc' = "down" /\ stopping' = FALSE /\ strikes' = 0 /\ todo' = <<>> /\ at' = 1
        /\ orders' = <<>> /\ filled' = {} /\ lost' = {} /\ blurred' = FALSE
    BY <2>1 DEF Die
  <2>7. strikes' \in 0..3
    BY <2>6
  <2>8. blurred' \in BOOLEAN /\ stopping' \in BOOLEAN
    BY <2>6, Zenon
  <2> QED BY <2>1, <2>2, <2>3, <2>4, <2>5, <2>6, <2>7, <2>8 DEF TypeOK
<1>14. CASE Start
  BY <1>14 DEF TypeOK, Start, broker
<1> QED BY <1>1, <1>2, <1>3, <1>4, <1>5, <1>6, <1>7, <1>8, <1>9, <1>10, <1>11, <1>12, <1>13, <1>14
    DEF Next, Step
-----------------------------------------------------------------------------
(* The run and its failures *)

LEMMA RoomStep == RunnerInv /\ Next => Room'
<1> SUFFICES ASSUME TypeOK, Room, Endings, Next PROVE Room'
  BY DEF RunnerInv
<1>0. /\ todo \in Seq(Intents) /\ orders \in Seq([intent : Intents, left : 0..Size])
      /\ Len(todo) \in Nat /\ Len(orders) \in Nat /\ MaxOrders \in Nat
  BY RunnerAssumption DEF TypeOK
<1>1. CASE StartCycle \/ NoPrices \/ Mirrored \/ Snapshot \/ Rest \/ LoopEnds \/ CycleNotStored
           \/ Traded \/ Mirror \/ CycleEnd \/ EndNotStored \/ CycleError \/ ErrorNotStored
           \/ SlippageNotStored \/ StrikesNotStored
  <2>1. pc' \notin {"place", "fill", "order", "jsonl"}
    BY <1>1 DEF StartCycle, NoPrices, Mirrored, Snapshot, Rest, LoopEnds, CycleNotStored, Traded,
       Mirror, CycleEnd, EndNotStored, CycleError, ErrorNotStored, SlippageNotStored,
       StrikesNotStored, Goto
  <2> QED BY <2>1 DEF Room, Placed
<1>2. CASE StrikesOut \/ Close \/ CloseNotStored \/ Kill \/ Start
  BY <1>2 DEF StrikesOut, Close, CloseNotStored, Kill, Start, Die, Room, Placed
<1>3. CASE RequestStop
  BY <1>3 DEF RequestStop, Room, Placed, broker
<1>4. CASE StoreFill \/ FillNotStored \/ StoreOrder \/ OrderNotStored
  BY <1>4 DEF StoreFill, FillNotStored, StoreOrder, OrderNotStored, Goto, Room, Placed, broker
<1>5. ASSUME NEW n \in 0..MaxIntents, NEW asked \in [1..n -> Intents], Decide(asked)
      PROVE  Room'
  BY <1>5 DEF Decide, Room, Placed, broker
<1>6. ASSUME NEW amount \in 1..Size, NEW more \in [Unfilled -> 1..Size],
         Place(amount, more) PROVE Room'
  <2>1. /\ Len(orders') = Len(orders) + 1
        /\ pc' = "fill" /\ todo' = todo /\ todo # <<>> /\ Len(orders) + Len(todo) <= MaxOrders
    BY <1>6, PlaceTypes DEF Place, Room
  <2> QED BY <1>0, <2>1 DEF Room, Placed
<1>7. CASE AppendSlippage
  <2>1. /\ todo # <<>> /\ Len(orders) + Len(todo) <= MaxOrders + 1
        /\ pc' = "place" /\ todo' = Tail(todo) /\ orders' = orders
    BY <1>7 DEF AppendSlippage, Room, Placed, broker
  <2>2. Len(Tail(todo)) = Len(todo) - 1
    BY <1>0, <2>1
  <2> QED BY <1>0, <2>1, <2>2 DEF Room, Placed
<1> QED BY <1>1, <1>2, <1>3, <1>4, <1>5, <1>6, <1>7 DEF Next, Step

LEMMA FailuresStep == RunnerInv /\ Next => Failures'
<1> SUFFICES ASSUME TypeOK, Failures, Next PROVE Failures'
  BY DEF RunnerInv
<1>0. strikes \in 0..3 /\ errors \in 0..3
  BY DEF TypeOK
<1>1. CASE \/ StartCycle \/ NoPrices \/ Mirrored \/ Snapshot \/ Rest \/ LoopEnds \/ CycleNotStored
           \/ StoreFill \/ FillNotStored \/ StoreOrder \/ OrderNotStored \/ SlippageNotStored
           \/ AppendSlippage \/ Traded \/ Mirror
           \/ (\E n \in 0..MaxIntents : \E asked \in [1..n -> Intents] : Decide(asked))
           \/ (\E amount \in 1..Size : \E more \in [Unfilled -> 1..Size] : Place(amount, more))
  <2>1. /\ UNCHANGED <<strikes, errors, blurred>>
        /\ pc \notin {"down", "close", "strikes"} /\ pc' \notin {"down", "strikes"}
    BY <1>1 DEF StartCycle, NoPrices, Mirrored, Snapshot, Rest, LoopEnds, CycleNotStored, StoreFill,
       FillNotStored, StoreOrder, OrderNotStored, SlippageNotStored, AppendSlippage, Traded, Mirror,
       Decide, Place, Goto, history
  <2> QED BY <1>0, <2>1 DEF Failures
<1>2. CASE RequestStop
  BY <1>2 DEF RequestStop, Failures, history
<1>3. CASE CycleEnd
  BY <1>3 DEF CycleEnd, Failures
<1>4. CASE EndNotStored
  BY <1>0, <1>4 DEF EndNotStored, Failures
<1>5. CASE CycleError \/ ErrorNotStored
  <2>1. /\ pc = "error" /\ strikes' = strikes + 1 /\ blurred' = blurred
        /\ errors' = IF errors < 3 THEN errors + 1 ELSE errors
        /\ \/ pc' = "close"
           \/ pc' = IF strikes' >= 3 THEN "strikes" ELSE "rest"
    BY <1>5 DEF CycleError, ErrorNotStored, CountError
  <2> QED BY <1>0, <2>1 DEF Failures
<1>6. CASE StrikesNotStored
  BY <1>6 DEF StrikesNotStored, Failures, history
<1>7. CASE StrikesOut \/ Close \/ CloseNotStored \/ Kill
  <2>1. pc' = "down" /\ strikes' = 0 /\ errors' = errors
    BY <1>7 DEF StrikesOut, Close, CloseNotStored, Kill, Die
  <2> QED BY <1>0, <2>1 DEF Failures
<1>8. CASE Start
  BY <1>8 DEF Start, Failures
<1> QED BY <1>1, <1>2, <1>3, <1>4, <1>5, <1>6, <1>7, <1>8 DEF Next, Step

LEMMA EndingsStep == RunnerInv /\ Next => Endings'
<1> SUFFICES ASSUME TypeOK, Failures, Endings, Next PROVE Endings'
  BY DEF RunnerInv
<1>0. run \in 0..MaxRuns /\ errors \in 0..3 /\ MaxRuns \in Nat
  BY RunnerAssumption DEF TypeOK
<1>1. CASE \/ StartCycle \/ NoPrices \/ Mirrored \/ Snapshot \/ Rest \/ LoopEnds \/ CycleNotStored
           \/ StoreFill \/ FillNotStored \/ StoreOrder \/ OrderNotStored \/ SlippageNotStored
           \/ AppendSlippage \/ Traded \/ Mirror \/ CycleEnd \/ EndNotStored \/ CycleError
           \/ ErrorNotStored \/ StrikesNotStored \/ RequestStop
           \/ (\E n \in 0..MaxIntents : \E asked \in [1..n -> Intents] : Decide(asked))
           \/ (\E amount \in 1..Size : \E more \in [Unfilled -> 1..Size] : Place(amount, more))
  <2>1. /\ UNCHANGED <<run, farewells>> /\ exit' \in {exit, "raised"}
        /\ pc # "down" /\ pc' # "down"
    BY <1>1 DEF StartCycle, NoPrices, Mirrored, Snapshot, Rest, LoopEnds, CycleNotStored, StoreFill,
       FillNotStored, StoreOrder, OrderNotStored, SlippageNotStored, AppendSlippage, Traded, Mirror,
       CycleEnd, EndNotStored, CycleError, ErrorNotStored, StrikesNotStored, RequestStop, Decide,
       Place, Goto, store
  <2> QED BY <2>1 DEF Endings
<1>2. CASE StrikesOut
  <2>1. /\ pc' = "down" /\ exit' = "strikes" /\ errors' = errors /\ pc = "strikes"
        /\ farewells' = Append(farewells, 2) /\ farewells = <<>>
    BY <1>2 DEF StrikesOut, Die, Endings
  <2>2. errors = 3
    BY <1>0, <2>1 DEF Failures
  <2>3. farewells' = <<2>>
    BY <2>1
  <2> QED BY <2>1, <2>2, <2>3 DEF Endings
<1>3. CASE Close
  <2>1. /\ pc' = "down" /\ exit' # "strikes" /\ farewells' = Append(farewells, 0) /\ farewells = <<>>
    BY <1>3 DEF Close, Die, Endings
  <2>2. farewells' = <<0>>
    BY <2>1
  <2> QED BY <2>1, <2>2 DEF Endings
<1>4. CASE CloseNotStored \/ Kill
  <2>1. pc' = "down" /\ exit' \notin {"strikes", "clean"} /\ farewells' = <<>>
    BY <1>4 DEF CloseNotStored, Kill, Die, Endings
  <2> QED BY <2>1 DEF Endings
<1>5. CASE Start
  BY <1>0, <1>5 DEF Start, Endings
<1> QED BY <1>1, <1>2, <1>3, <1>4, <1>5 DEF Next, Step
-----------------------------------------------------------------------------
(* The store *)

LEMMA RowsStep == RunnerInv /\ Next => Rows'
<1> SUFFICES ASSUME TypeOK, Failures, Rows, Next PROVE Rows'
  BY DEF RunnerInv
<1>0. strikes \in 0..3 /\ at \in 1..Len(Symbols) + 1 /\ Len(Symbols) \in Nat /\ DOMAIN rows = SymbolSet
      /\ \A i \in 1..Len(Symbols) : Symbols[i] \in SymbolSet
  BY RunnerAssumption, SequenceFacts DEF TypeOK
<1>1. CASE \/ StartCycle \/ NoPrices \/ LoopEnds \/ Rest \/ CycleNotStored
           \/ StoreFill \/ FillNotStored \/ StoreOrder \/ OrderNotStored \/ SlippageNotStored
           \/ AppendSlippage \/ EndNotStored \/ ErrorNotStored \/ StrikesNotStored
           \/ StrikesOut \/ Close \/ CloseNotStored \/ Kill \/ Start
           \/ (\E n \in 0..MaxIntents : \E asked \in [1..n -> Intents] : Decide(asked))
           \/ (\E amount \in 1..Size : \E more \in [Unfilled -> 1..Size] : Place(amount, more))
  <2>1. pc' \notin {"mirror", "snapshot", "end", "rest"}
    BY <1>1 DEF StartCycle, NoPrices, LoopEnds, Rest, CycleNotStored, StoreFill,
       FillNotStored, StoreOrder, OrderNotStored, SlippageNotStored, AppendSlippage,
       EndNotStored, ErrorNotStored, StrikesNotStored, StrikesOut, Close, CloseNotStored, Kill,
       Start, Die, Decide, Place, Goto
  <2> QED BY <2>1 DEF Rows
<1>2. CASE CycleError
  <2>1. pc' \in {"strikes", "rest"} /\ strikes' > 0
    BY <1>0, <1>2 DEF CycleError
  <2> QED BY <2>1 DEF Rows
<1>3. CASE Traded
  <2>1. pc' = "mirror" /\ at' = 1
    BY <1>3 DEF Traded
  <2> QED BY <2>1 DEF Rows, Mirrors
<1>4. CASE Mirrored \/ Snapshot \/ CycleEnd \/ RequestStop
  <2>1. /\ rows' = rows /\ filled' = filled
        /\ \A n : Mirrors(n)' <=> Mirrors(n)
    BY <1>4 DEF Mirrored, Snapshot, CycleEnd, RequestStop, broker, store, Mirrors
  <2>2. CASE Mirrored
    <3>1. pc = "mirror" /\ pc' = "snapshot" /\ at > Len(Symbols)
      BY <2>2 DEF Mirrored, Goto
    <3>2. Mirrors(Len(Symbols) + 1)
      BY <1>0, <3>1 DEF Rows, Mirrors
    <3> QED BY <2>1, <3>1, <3>2 DEF Rows
  <2>3. CASE Snapshot \/ CycleEnd
    <3>1. pc \in {"snapshot", "end"} /\ pc' \in {"end", "rest"}
      BY <2>3 DEF Snapshot, CycleEnd, Goto
    <3> QED BY <2>1, <3>1 DEF Rows
  <2>4. CASE RequestStop
    <3>1. UNCHANGED <<pc, at, strikes>>
      BY <2>4 DEF RequestStop
    <3> QED BY <2>1, <3>1 DEF Rows
  <2> QED BY <1>4, <2>2, <2>3, <2>4
<1>5. CASE Mirror
  <2>1. /\ pc = "mirror" /\ pc' = pc /\ at \in 1..Len(Symbols) /\ at' = at + 1 /\ filled' = filled
        /\ rows' = [rows EXCEPT ![Symbols[at]] = Net(filled, Symbols[at])]
    BY <1>0, <1>5 DEF Mirror, broker
  <2>2. ASSUME NEW i \in 1..Len(Symbols), i < at'
        PROVE  rows'[Symbols[i]] = Net(filled', Symbols[i])
    <3>1. CASE Symbols[i] = Symbols[at]
      BY <1>0, <2>1, <3>1
    <3>2. CASE Symbols[i] # Symbols[at]
      <4>1. i < at /\ rows[Symbols[i]] = Net(filled, Symbols[i])
        BY <1>0, <2>1, <2>2, <3>2 DEF Rows, Mirrors
      <4> QED BY <1>0, <2>1, <3>2, <4>1
    <3> QED BY <3>1, <3>2
  <2> QED BY <2>1, <2>2 DEF Rows, Mirrors
<1> QED BY <1>1, <1>2, <1>3, <1>4, <1>5 DEF Next, Step

LEMMA BlotterStep == RunnerInv /\ Next => OrdersHaveFills'
<1> SUFFICES ASSUME TypeOK, Fills, OrdersHaveFills, Next PROVE OrdersHaveFills'
  BY DEF RunnerInv
<1>1. CASE StoreOrder
  <2>1. /\ pc = "order" /\ ledger' = ledger
        /\ blotter' = [blotter EXCEPT ![Len(orders)] =
                         IF blotter[Len(orders)] = None THEN Current.intent ELSE blotter[Len(orders)]]
    BY <1>1 DEF StoreOrder, Goto
  <2>2. Current \in ledger /\ Current.order = Len(orders)
    BY <2>1, CurrentIs DEF Fills, Placed
  <2> SUFFICES ASSUME NEW n \in OrderNumbers, blotter'[n] # None
               PROVE  \E f \in ledger : f.order = n /\ f.intent = blotter'[n]
    BY <2>1 DEF OrdersHaveFills
  <2>3. CASE n = Len(orders) /\ blotter[n] = None
    BY <2>1, <2>2, <2>3 DEF TypeOK
  <2>4. CASE n # Len(orders) \/ blotter[n] # None
    <3>1. blotter'[n] = blotter[n]
      BY <2>1, <2>4 DEF TypeOK
    <3> QED BY <3>1 DEF OrdersHaveFills
  <2> QED BY <2>3, <2>4
<1>2. CASE ~StoreOrder
  <2>1. blotter' = blotter /\ ledger \subseteq ledger'
    <3>1. CASE Step
      BY <1>2, <3>1 DEF Step, StartCycle, NoPrices, Mirrored, Snapshot, Rest, LoopEnds,
         CycleNotStored, StoreFill, FillNotStored, OrderNotStored, SlippageNotStored,
         AppendSlippage, Traded, Mirror, CycleEnd, EndNotStored, CycleError, ErrorNotStored,
         StrikesNotStored, StrikesOut, Close, CloseNotStored, Die, Decide, Place, store
    <3>2. CASE Start \/ RequestStop \/ Kill
      BY <3>2 DEF Start, RequestStop, Kill, Die, store
    <3> QED BY <3>1, <3>2 DEF Next
  <2> QED BY <2>1 DEF OrdersHaveFills
<1> QED BY <1>1, <1>2
-----------------------------------------------------------------------------
(* The fills *)

\* An action that leaves broker and fills alone.
LEMMA FillsUnmoved ==
  ASSUME Fills, UNCHANGED <<orders, filled, ledger, lost, run>>, pc # "fill", pc # "down",
         pc' \notin {"fill", "order", "down"} \/ pc' = pc, Placed' => Placed
  PROVE  Fills'
<1>1. UNCHANGED <<Current, FirstFills, OfThisRun>> /\ Pending = {} /\ Pending' = {}
  BY DEF Current, FirstFills, OfThisRun, Pending
<1> QED BY <1>1 DEF Fills

LEMMA PlaceFills ==
  ASSUME TypeOK, Room, Endings, Fills, NEW amount \in 1..Size, NEW more \in [Unfilled -> 1..Size],
         Place(amount, more)
  PROVE  Fills'
<1>1. PICK new \in FillType, later \in SUBSET FillType :
        /\ filled' = (filled \cup later) \cup {new}
        /\ new.run = run /\ new.order = Len(orders') /\ new.first
        /\ \A f \in later : f.run = run /\ f.order <= Len(orders) /\ ~f.first
  BY PlaceTypes
<1>2. /\ pc = "place" /\ pc' = "fill" /\ UNCHANGED <<ledger, lost, run>>
      /\ Len(orders) \in Nat /\ Len(orders') = Len(orders) + 1
      /\ \A f \in filled' : f.order \in Nat
  <2>1. /\ pc = "place" /\ pc' = "fill" /\ UNCHANGED <<ledger, lost, run>>
        /\ Len(orders') = Len(orders) + 1 /\ filled' \subseteq FillType
    BY <1>1, PlaceTypes DEF Place, store, history, TypeOK
  <2>2. Len(orders) \in Nat
    BY DEF TypeOK
  <2>3. \A f \in FillType : f.order \in Nat
    BY RunnerAssumption DEF FillType, OrderNumbers
  <2> QED BY <2>1, <2>2, <2>3
<1>3. /\ \A f \in filled : f.run = run /\ f.order <= Len(orders)
      /\ \A f \in ledger : f.run <= run
      /\ lost \subseteq filled /\ OfThisRun = FirstFills \ lost
  BY <1>2 DEF Fills, Pending
<1>4. FirstFills' = FirstFills \cup {new} /\ \A f \in filled \cup later : f.order # new.order
  BY <1>1, <1>2, <1>3 DEF FirstFills
<1>5. \A f, g \in FirstFills' : f.order = g.order => f = g
  <2>1. \A f, g \in FirstFills : f.order = g.order => f = g
    BY DEF Fills
  <2>2. \A f \in FirstFills : f.order # new.order
    BY <1>4 DEF FirstFills
  <2> QED BY <1>4, <2>1, <2>2
<1>6. Current' = new
  <2>1. new \in filled' /\ new.order = Len(orders') /\ new.first
    BY <1>1
  <2>2. \A f \in filled' : f.order = Len(orders') /\ f.first => f = new
    BY <1>1, <1>4
  <2> QED BY <2>1, <2>2 DEF Current
<1>7. new \notin lost /\ new \notin FirstFills
  BY <1>3, <1>4 DEF FirstFills
<1>8. OfThisRun' = (FirstFills' \ lost') \ Pending'
  <2>1. OfThisRun' = OfThisRun /\ Pending' = {new}
    BY <1>2, <1>6 DEF OfThisRun, Pending
  <2> QED BY <1>2, <1>3, <1>4, <1>7, <2>1
<1>9. \A f \in filled' : f.run = run' /\ f.order <= Len(orders')
  BY <1>1, <1>2, <1>3
<1>10. \E f \in FirstFills' : f.order = Len(orders')
  BY <1>1, <1>4
<1>11. /\ pc' = "fill" /\ lost' \subseteq filled' /\ Current' \notin lost'
       /\ \A f \in ledger' : f.run <= run'
  BY <1>1, <1>2, <1>3, <1>6, <1>7
<1> QED BY <1>5, <1>8, <1>9, <1>10, <1>11 DEF Fills

LEMMA FillsStep == RunnerInv /\ Next => Fills'
<1> SUFFICES ASSUME TypeOK, Room, Endings, Fills, Next PROVE Fills'
  BY DEF RunnerInv
<1>1. CASE \/ StartCycle \/ NoPrices \/ Mirrored \/ Snapshot \/ Rest \/ LoopEnds \/ CycleNotStored
           \/ StoreOrder \/ OrderNotStored \/ SlippageNotStored
           \/ AppendSlippage \/ Traded \/ Mirror \/ CycleEnd \/ EndNotStored \/ CycleError
           \/ ErrorNotStored \/ StrikesNotStored
           \/ (\E n \in 0..MaxIntents : \E asked \in [1..n -> Intents] : Decide(asked))
  <2>1. /\ UNCHANGED <<orders, filled, ledger, lost, run>>
        /\ pc # "fill" /\ pc # "down" /\ (pc' \notin {"fill", "order", "down"} \/ pc' = pc)
        /\ Placed' => Placed
    BY <1>1 DEF StartCycle, NoPrices, Mirrored, Snapshot, Rest, LoopEnds, CycleNotStored,
       StoreOrder, OrderNotStored, SlippageNotStored, AppendSlippage, Traded, Mirror,
       CycleEnd, EndNotStored, CycleError, ErrorNotStored, StrikesNotStored, Decide,
       Goto, broker, store, history, Placed
  <2> QED BY <2>1, FillsUnmoved
<1>2. CASE RequestStop
  <2>1. UNCHANGED <<pc, orders, filled, ledger, lost, run>>
    BY <1>2 DEF RequestStop, broker, store, history
  <2>2. UNCHANGED <<Current, FirstFills, OfThisRun, Pending, Placed>>
    BY <2>1 DEF Current, FirstFills, OfThisRun, Pending, Placed
  <2> QED BY <2>1, <2>2 DEF Fills
<1>3. ASSUME NEW amount \in 1..Size, NEW more \in [Unfilled -> 1..Size],
         Place(amount, more) PROVE Fills'
  BY <1>3, PlaceFills
<1>4. CASE StoreFill
  <2>1. /\ pc = "fill" /\ pc' = "order" /\ ledger' = ledger \cup {Current}
        /\ UNCHANGED <<orders, filled, lost, run>>
    BY <1>4 DEF StoreFill, Goto, broker, history
  <2>2. /\ Current \in filled /\ Current.order = Len(orders) /\ Current.first
        /\ Current.run = run /\ Current \notin lost
        /\ OfThisRun = (FirstFills \ lost) \ {Current}
    BY <2>1, CurrentIs DEF Fills, Placed, Pending
  <2>3. UNCHANGED <<Current, FirstFills>> /\ Placed /\ Pending' = {}
    BY <2>1 DEF Current, FirstFills, Placed, Pending
  <2>4. OfThisRun' = OfThisRun \cup {Current}
    BY <2>1, <2>2 DEF OfThisRun
  <2>5. OfThisRun' = (FirstFills' \ lost') \ Pending'
    BY <2>1, <2>2, <2>3, <2>4 DEF FirstFills
  <2>6. \A f \in ledger' : f.run <= run'
    BY <2>1, <2>2 DEF Fills, TypeOK
  <2> QED BY <2>1, <2>3, <2>5, <2>6 DEF Fills
<1>5. CASE FillNotStored
  <2>1. /\ pc = "fill" /\ pc' = "jsonl" /\ lost' = lost \cup {Current}
        /\ UNCHANGED <<orders, filled, ledger, run>>
    BY <1>5 DEF FillNotStored, Goto, broker, store
  <2>2. Current \in filled /\ OfThisRun = (FirstFills \ lost) \ {Current}
    BY <2>1, CurrentIs DEF Fills, Placed, Pending
  <2>3. UNCHANGED <<FirstFills, OfThisRun>> /\ Placed /\ Pending' = {}
    BY <2>1 DEF FirstFills, OfThisRun, Placed, Pending
  <2>4. OfThisRun' = (FirstFills' \ lost') \ Pending'
    BY <2>1, <2>2, <2>3
  <2> QED BY <2>1, <2>2, <2>3, <2>4 DEF Fills
<1>6. CASE StrikesOut \/ Close \/ CloseNotStored \/ Kill
  <2>1. /\ pc' = "down" /\ filled' = {} /\ lost' = {} /\ UNCHANGED <<ledger, run>>
    BY <1>6 DEF StrikesOut, Close, CloseNotStored, Kill, Die
  <2>2. FirstFills' = {} /\ ~Placed'
    BY <2>1 DEF FirstFills, Placed
  <2> QED BY <2>1, <2>2 DEF Fills
<1>7. CASE Start
  <2>1. /\ pc = "down" /\ pc' = "tick" /\ run' = run + 1 /\ UNCHANGED <<filled, ledger, lost>>
    BY <1>7 DEF Start, broker
  <2>2. filled = {} /\ lost = {} /\ \A f \in ledger : f.run <= run /\ f.run \in Nat
    BY <2>1 DEF Fills, TypeOK, FillType
  <2>3. run \in Nat
    BY RunnerAssumption DEF TypeOK
  <2>4. FirstFills' = {} /\ OfThisRun' = {} /\ ~Placed' /\ Pending' = {}
    BY <2>1, <2>2, <2>3 DEF FirstFills, OfThisRun, Placed, Pending
  <2>5. \A f \in ledger' : f.run <= run'
    BY <2>1, <2>2, <2>3
  <2> QED BY <2>1, <2>2, <2>4, <2>5 DEF Fills
<1> QED BY <1>1, <1>2, <1>3, <1>4, <1>5, <1>6, <1>7 DEF Next, Step

-----------------------------------------------------------------------------
(* The invariant and what it gives *)

LEMMA Stutter == RunnerInv /\ UNCHANGED vars => RunnerInv'
<1> SUFFICES ASSUME RunnerInv, UNCHANGED vars PROVE RunnerInv'
  OBVIOUS
<1>1. UNCHANGED <<pc, exit, stopping, strikes, todo, at, orders, filled, ledger, blotter, rows,
                  farewells, run, faults, lost, errors, blurred>>
  BY DEF vars, process, broker, store, history
<1>2. TypeOK' /\ Room' /\ Failures' /\ Endings'
  BY <1>1 DEF RunnerInv, TypeOK, Room, Placed, Failures, Endings
<1>3. Rows' /\ OrdersHaveFills'
  BY <1>1 DEF RunnerInv, Rows, Mirrors, OrdersHaveFills
<1>4. UNCHANGED <<Current, FirstFills, OfThisRun, Pending, Placed>>
  BY <1>1 DEF Current, FirstFills, OfThisRun, Pending, Placed
<1>5. Fills'
  BY <1>1, <1>4 DEF RunnerInv, Fills
<1> QED BY <1>2, <1>3, <1>5 DEF RunnerInv

\* The strengthened invariant is inductive.
THEOREM Invariance == Spec => []RunnerInv
<1>1. RunnerInv /\ [Next]_vars => RunnerInv'
  BY TypeStep, RoomStep, FailuresStep, EndingsStep, RowsStep, FillsStep, BlotterStep, Stutter
     DEF RunnerInv
<1> QED BY InitInv, <1>1, PTL DEF Spec

\* Every variable keeps its type, for any symbols, sizes and bounds.
THEOREM RunnerTypeCorrect == Spec => []TypeOK
<1>1. RunnerInv => TypeOK
  BY DEF RunnerInv
<1> QED BY Invariance, <1>1, PTL

\* After a clean cycle the positions table is what the broker holds, whatever
\* failed before and whatever an earlier run left (runner.py:724-742).
THEOREM RowsCorrect == Spec => []RowsMirrorBroker
<1>1. RunnerInv => RowsMirrorBroker
  <2> SUFFICES ASSUME RunnerInv, pc = "rest", strikes = 0, NEW s \in SymbolSet
               PROVE  rows[s] = Net(filled, s)
    BY DEF RowsMirrorBroker
  <2>1. Mirrors(Len(Symbols) + 1)
    BY DEF RunnerInv, Rows
  <2>2. PICK i \in 1..Len(Symbols) : s = Symbols[i]
    BY RunnerAssumption DEF SymbolSet
  <2>3. Len(Symbols) \in Nat
    BY RunnerAssumption
  <2> QED BY <2>1, <2>2, <2>3 DEF Mirrors
<1> QED BY Invariance, <1>1, PTL

\* Between cycles the store has the first fill of every order of this run, but
\* those whose own write raised (runner.py:642-681, paper_orchestrator.py:174-215).
THEOREM FillsCorrect == Spec => []FillsAccounted
<1>1. RunnerInv => FillsAccounted
  BY DEF RunnerInv, FillsAccounted, Fills, OfThisRun, FirstFills, Pending
<1> QED BY Invariance, <1>1, PTL

\* No order is stored without its fill, through crashes and failed writes
\* (runner.py:655-679).
THEOREM BlotterCorrect == Spec => []OrdersHaveFills
<1>1. RunnerInv => OrdersHaveFills
  BY DEF RunnerInv
<1> QED BY Invariance, <1>1, PTL

\* The run gives up on the third failure in a row, and says so once
\* (runner.py:533-554, 580-626).
THEOREM StrikesCorrect == Spec => []ThreeStrikes
<1>1. RunnerInv => ThreeStrikes
  <2> SUFFICES ASSUME RunnerInv PROVE ThreeStrikes
    OBVIOUS
  <2>1. strikes \in 0..3 /\ errors \in 0..3 /\ Failures /\ Endings
    BY DEF RunnerInv, TypeOK
  <2>2. Len(<<>>) = 0 /\ <<>> # <<2>> /\ <<>> # <<0>>
    OBVIOUS
  <2>3. exit = "strikes" => errors = 3 /\ farewells = <<2>>
    BY <2>1 DEF Endings
  <2>4. pc \in {"tick", "prices"} /\ ~blurred => errors < 3
    BY <2>1 DEF Failures
  <2>5. exit = "clean" /\ run > 0 => farewells = <<0>>
    BY <2>1 DEF Endings
  <2>6. Len(farewells) <= 1
    BY <2>1, <2>2 DEF Endings
  <2> QED BY <2>3, <2>4, <2>5, <2>6 DEF ThreeStrikes
<1> QED BY Invariance, <1>1, PTL

-----------------------------------------------------------------------------
(* The gate of the governor *)
\* The premise of GateHolds, with one position at a time.
Disciplined == ~careless /\ Sound(profile)

OneSlot == \A s, u \in Slots : s = u

\* The reference of the floor once the governor has seen the balance.
NextReference == IF Trails(profile) THEN UpdatedPeak(cash) ELSE Initial

\* A balance that breaches neither rule.
Safe(c) ==
  /\ 100 * c > FloorAt(NextReference)
  /\ 100 * DailyLoss(c) < DailyLimit

\* The account is safe as it is when flat, and at its stop when not.
GateInv ==
  /\ GovernorTypeOK
  /\ status \in {"in_progress", "passed"}
  /\ cash >= 0
  /\ peak >= Initial
  /\ profile.mode \in {"static", "lock", "trailing_intraday"} => peak >= bal
  /\ Flat => equity = cash /\ Safe(cash)
  /\ \A s \in Slots : IsOpen(s) =>
       /\ bal = cash /\ equity = cash + pos[s].float /\ pos[s].float > -pos[s].risk
       /\ Safe(cash - pos[s].risk)

-----------------------------------------------------------------------------
(* Arithmetic of the limits *)

LEMMA Products ==
  ASSUME NEW a \in Nat, NEW b \in Nat
  PROVE  /\ a * b \in Nat
         /\ a > 0 /\ b > 0 => a * b > 0
         /\ (100 - a) * b = 100 * b - a * b
  OBVIOUS

LEMMA ProfileTypes ==
  ASSUME GovernorTypeOK, Disciplined
  PROVE  /\ profile \in ProfileType /\ Sound(profile)
         /\ profile.dailyPct \in Nat /\ profile.overallPct \in Nat
         /\ profile.daily # Absent => profile.daily \in Nat \ {0}
         /\ profile.overall # Absent => profile.overall \in Nat \ {0}
  BY ProfileAssumption DEF GovernorTypeOK, Disciplined, Sound, ProfileType

LEMMA FloorFacts ==
  ASSUME GovernorTypeOK, Disciplined, NEW ref \in Nat, ref > 0
  PROVE  /\ FloorAt(ref) \in Int
         /\ FloorAt(ref) < 100 * ref
         /\ profile.daily = Absent => FloorAt(ref) >= 0
<1>1. CASE profile.overall # Absent
  BY <1>1, ProfileTypes, MoneyAssumption, ProfileAssumption DEF FloorAt, Smaller, Sound
<1>2. CASE profile.overall = Absent
  <2>1. /\ profile.overallPct \in 1..100 /\ profile.mode # "trailing_closed"
        /\ profile.overallPct \in Nat
    BY <1>2, ProfileTypes, ProfileAssumption DEF Sound
  <2>2. FloorAt(ref) = (100 - profile.overallPct) * ref
    BY <1>2, <2>1 DEF FloorAt
  <2>3. (100 - profile.overallPct) \in Nat
    BY <2>1
  <2>4. FloorAt(ref) = 100 * ref - profile.overallPct * ref /\ profile.overallPct * ref > 0
    BY <2>1, <2>2, Products
  <2>5. FloorAt(ref) \in Nat
    BY <2>2, <2>3, Products
  <2> QED BY <2>1, <2>4, <2>5, Products
<1> QED BY <1>1, <1>2

\* An order the overall check admits stays above the floor at its stop.
LEMMA GateFloor ==
  ASSUME GovernorTypeOK, Disciplined, NEW e \in Int, NEW r \in Nat,
         OverallReference \in Nat, OverallReference > 0,
         100 * (OverallLoss(e) + r) < OverallLimit
  PROVE  100 * (e - r) > Floor
<1> DEFINE ref == OverallReference
<1>1. OverallLoss(e) \in Nat /\ OverallLoss(e) >= ref - e
  BY DEF OverallLoss, Larger
<1>2. CASE profile.overall # Absent
  <2>1. OverallLimit = 100 * profile.overall /\ profile.overall \in Nat
    BY <1>2, ProfileTypes DEF OverallLimit
  <2>2. Floor <= 100 * (ref - profile.overall)
    BY <1>2, <2>1, MoneyAssumption DEF Floor, FloorAt, Smaller
  <2>3. Floor \in Int
    BY FloorFacts DEF Floor
  <2> HIDE DEF ref
  <2> QED BY <1>1, <2>1, <2>2, <2>3 DEF ref
<1>3. CASE profile.overall = Absent
  <2>1. profile.mode # "trailing_closed" /\ profile.overallPct \in Nat
    BY <1>3, ProfileTypes, ProfileAssumption DEF Sound
  <2>2. OverallLimit = profile.overallPct * ref
    BY <1>3 DEF OverallLimit
  <2>3. Floor = 100 * ref - profile.overallPct * ref /\ profile.overallPct * ref \in Nat
    BY <1>3, <2>1, Products DEF Floor, FloorAt
  <2> QED BY <1>1, <2>2, <2>3
<1> QED BY <1>2, <1>3

-----------------------------------------------------------------------------
(* What the steps share *)

LEMMA Types ==
  ASSUME GovernorTypeOK, Disciplined
  PROVE  DailyReference \in Int /\ DailyLimit \in Int
<1>1. DailyReference \in Int
  BY DEF GovernorTypeOK, DailyReference
<1>2. profile.dailyPct \in Int /\ (profile.daily # Absent => profile.daily \in Int)
  BY ProfileTypes
<1>3. profile.dailyPct * DailyReference \in Int
  BY <1>1, <1>2
<1> QED BY <1>1, <1>2, <1>3 DEF DailyLimit

LEMMA LossFalls ==
  ASSUME GovernorTypeOK, Disciplined, NEW c \in Int, NEW d \in Int, c <= d,
         100 * DailyLoss(c) < DailyLimit
  PROVE  100 * DailyLoss(d) < DailyLimit
<1>1. DailyLoss(c) \in Int /\ DailyLoss(d) \in Int /\ DailyLoss(d) <= DailyLoss(c)
  BY Types DEF DailyLoss, Larger
<1> QED BY <1>1, Types

\* With nothing lost yet, the day's limit is not reached.
LEMMA NoLoss ==
  ASSUME GovernorTypeOK, Disciplined, DailyReference > 0, NEW c \in Int, c = DailyReference
  PROVE  100 * DailyLoss(c) < DailyLimit
<1>1. DailyLoss(c) = 0
  BY Types DEF DailyLoss, Larger
<1>2. CASE profile.daily # Absent
  BY <1>1, <1>2, ProfileTypes DEF DailyLimit
<1>3. CASE profile.daily = Absent
  <2>1. profile.dailyPct \in Nat /\ profile.dailyPct > 0
    BY <1>3, ProfileTypes, ProfileAssumption DEF Sound
  <2>2. profile.dailyPct * DailyReference > 0
    BY <2>1, Types, Products
  <2> QED BY <1>1, <1>3, <2>2 DEF DailyLimit
<1> QED BY <1>2, <1>3

LEMMA ReferenceTypes ==
  ASSUME GovernorTypeOK, peak >= Initial
  PROVE  /\ NextReference \in Nat /\ NextReference > 0
         /\ OverallReference \in Nat /\ OverallReference > 0
         /\ peak \in Nat /\ peak > 0
  BY MoneyAssumption DEF GovernorTypeOK, NextReference, OverallReference, UpdatedPeak, Larger

LEMMA SlotTypes ==
  ASSUME NEW v \in [risk : Risks, float : Int]
  PROVE  v.risk \in Int /\ v.float \in Int
<1>1. v.risk \in Risks /\ v.float \in Int
  OBVIOUS
<1>2. \A r \in Risks : r \in Int
  BY MoneyAssumption
<1> QED BY <1>1, <1>2

LEMMA GovernorTypeInit == GovernorInit => GovernorTypeOK
<1> SUFFICES ASSUME GovernorInit PROVE GovernorTypeOK
  OBVIOUS
<1>1. pos \in [Slots -> [risk : Risks, float : Int] \cup {Absent}]
  BY DEF GovernorInit
<1>2. /\ bal \in Int /\ eq \in Int /\ dayBal \in Int /\ dayEq \in Int
      /\ peak \in Int /\ cash \in Int /\ equity \in Int
  BY MoneyAssumption DEF GovernorInit
<1> QED BY <1>1, <1>2 DEF GovernorInit, GovernorTypeOK, Statuses

LEMMA GovernorTypeStep == GovernorTypeOK /\ GovernorNext => GovernorTypeOK'
<1> SUFFICES ASSUME GovernorTypeOK, GovernorNext PROVE GovernorTypeOK'
  OBVIOUS
<1> USE MoneyAssumption
<1>1. ASSUME NEW s \in Slots, NEW r \in Risks, Open(s, r) PROVE GovernorTypeOK'
  BY <1>1 DEF GovernorTypeOK, Open, governorVars
<1>2. ASSUME NEW s \in Slots, NEW x \in Results, Move(s, x) PROVE GovernorTypeOK'
  <2>1. pos[s] \in [risk : Risks, float : Int] /\ x \in Int
    BY <1>2 DEF GovernorTypeOK, Move, IsOpen
  <2>2. [pos[s] EXCEPT !.float = x] \in [risk : Risks, float : Int]
    BY <2>1
  <2>3. pos' = [pos EXCEPT ![s] = [pos[s] EXCEPT !.float = x]] /\ equity' \in Int
    BY <1>2, <2>1 DEF GovernorTypeOK, Move
  <2> QED BY <1>2, <2>2, <2>3 DEF GovernorTypeOK, Move, governorVars
<1>3. ASSUME NEW s \in Slots, NEW x \in Results, CloseTrade(s, x) PROVE GovernorTypeOK'
  <2>1. pos[s] \in [risk : Risks, float : Int] /\ x \in Int
    BY <1>3 DEF GovernorTypeOK, CloseTrade, IsOpen
  <2>2. equity' \in Int /\ cash' \in Int /\ peak' \in Int
    BY <1>3, <2>1 DEF GovernorTypeOK, CloseTrade, RecordTrade, Larger
  <2> QED BY <1>3, <2>2 DEF GovernorTypeOK, CloseTrade, RecordTrade
<1>4. CASE Observe
  BY <1>4 DEF GovernorTypeOK, Observe, UpdatedPeak, Larger, Promoted, Statuses, accountVars
<1>5. CASE Rollover
  <2>1. status' \in {status, "in_progress", "failed_overall"}
    BY <1>5 DEF Rollover, Resumed
  <2>2. peak' \in Int /\ rolled' \in Nat /\ traded' = FALSE /\ careless' \in BOOLEAN
    BY <1>5 DEF GovernorTypeOK, Rollover, RolledPeak, Larger
  <2>3. days' = days \/ days' = days + 1
    BY <1>5 DEF Rollover
  <2>4. status' \in Statuses /\ days' \in Nat
    BY <2>1, <2>3 DEF GovernorTypeOK, Statuses
  <2>5. /\ UNCHANGED <<profile, bal, eq, cash, equity, pos>>
        /\ dayBal' = bal /\ dayEq' = eq
    BY <1>5 DEF Rollover, accountVars
  <2> QED BY <2>2, <2>4, <2>5 DEF GovernorTypeOK
<1>6. CASE Outcome
  BY <1>6 DEF GovernorTypeOK, Outcome, Statuses, accountVars
<1> QED BY <1>1, <1>2, <1>3, <1>4, <1>5, <1>6 DEF GovernorNext

-----------------------------------------------------------------------------
(* The invariant *)

LEMMA GateInit == GovernorInit /\ Sound(profile) => GateInv
<1> SUFFICES ASSUME GovernorInit, Sound(profile) PROVE GateInv
  OBVIOUS
<1>1. GovernorTypeOK /\ Disciplined
  BY GovernorTypeInit DEF GovernorInit, Disciplined
<1>2. DailyReference = Initial /\ NextReference = Initial
  BY MoneyAssumption DEF GovernorInit, DailyReference, NextReference, UpdatedPeak, Larger
<1>3. 100 * DailyLoss(cash) < DailyLimit
  BY <1>1, <1>2, NoLoss, MoneyAssumption DEF GovernorInit
<1>4. 100 * cash > FloorAt(NextReference)
  BY <1>1, <1>2, FloorFacts, MoneyAssumption DEF GovernorInit
<1> QED BY <1>1, <1>3, <1>4, MoneyAssumption DEF GateInv, GovernorInit, Safe, IsOpen

\* A safe balance stays safe when only the floor's reference rises to it.
LEMMA RaisedReference ==
  ASSUME GovernorTypeOK, Disciplined, peak >= Initial, NEW c \in Int, NEW ref \in Nat, ref > 0,
         100 * c > FloorAt(NextReference), ref = NextReference \/ ref <= c
  PROVE  100 * c > FloorAt(ref)
<1>1. CASE ref = NextReference
  BY <1>1
<1>2. CASE ref <= c
  BY <1>2, FloorFacts
<1> QED BY <1>1, <1>2

LEMMA StepOpen ==
  ASSUME Disciplined, OneSlot, GateInv, NEW s \in Slots, NEW r \in Risks, Open(s, r),
         ~careless', GovernorTypeOK'
  PROVE  GateInv'
<1>1. /\ Flat /\ bal = cash /\ eq = cash /\ equity = cash
      /\ cash \in Int /\ r \in Nat /\ r > 0
  <2>1. Observed
    BY DEF Open
  <2> QED BY <2>1, MoneyAssumption DEF GateInv, GovernorTypeOK, Open, OneSlot, Observed, Flat, IsOpen
<1>2. GovernorTypeOK /\ peak >= Initial /\ Safe(cash)
  BY <1>1 DEF GateInv
<1>3. NextReference = OverallReference
  BY <1>1, <1>2, ProfileTypes DEF GateInv, GovernorTypeOK, NextReference, OverallReference,
     UpdatedPeak, Larger, Trails, ProfileType, Modes
<1>4. 100 * (cash - r) > FloorAt(NextReference)
  <2>1. 100 * (OverallLoss(cash) + r) < OverallLimit
    <3>1. OverallLimit \in Int /\ OverallLoss(cash) \in Int
      <4>1. OverallReference \in Nat /\ profile.overallPct \in Nat
        BY <1>2, ReferenceTypes, ProfileTypes
      <4>2. profile.overallPct * OverallReference \in Nat
        BY <4>1, Products
      <4> QED BY <1>1, <1>2, <4>1, <4>2, ProfileTypes DEF OverallLimit, OverallLoss, Larger
    <3> QED BY <1>1, <3>1 DEF Open, Allowed, BreachesOverall
  <2> QED BY <1>1, <1>2, <1>3, <2>1, ReferenceTypes, GateFloor DEF Floor
<1>5. 100 * DailyLoss(cash - r) < DailyLimit
  <2>1. 100 * (DailyLoss(cash) + r) < DailyLimit
    BY <1>1, <1>2, Types DEF Open, Allowed, BreachesDaily, DailyLoss, Larger
  <2>2. DailyLoss(cash - r) <= DailyLoss(cash) + r
    BY <1>1, <1>2, Types DEF DailyLoss, Larger
  <2>3. DailyLoss(cash - r) \in Int /\ DailyLoss(cash) \in Int
    BY <1>1, <1>2, Types DEF DailyLoss, Larger
  <2> QED BY <1>1, <1>2, <2>1, <2>2, <2>3, Types
<1>6. /\ Safe(cash)' /\ Safe(cash - r)'
      /\ UNCHANGED <<status, cash, peak, profile, bal, equity>>
  BY <1>2, <1>4, <1>5 DEF Open, governorVars, Safe, NextReference, UpdatedPeak, Trails,
     FloorAt, DailyLoss, DailyLimit, DailyReference
<1>7. pos'[s] = [risk |-> r, float |-> 0] /\ \A u \in Slots : u = s
  BY DEF Open, OneSlot, GateInv, GovernorTypeOK
<1>8. \A u \in Slots : IsOpen(u)' =>
        /\ bal' = cash' /\ equity' = cash' + pos'[u].float /\ pos'[u].float > -pos'[u].risk
        /\ Safe(cash - pos[u].risk)'
  BY <1>1, <1>6, <1>7
<1> QED BY <1>1, <1>6, <1>8 DEF GateInv

LEMMA StepMove ==
  ASSUME Disciplined, OneSlot, GateInv, NEW s \in Slots, NEW x \in Results, Move(s, x),
         GovernorTypeOK'
  PROVE  GateInv'
<1>1. /\ pos[s] \in [risk : Risks, float : Int] /\ x \in Int /\ IsOpen(s)
      /\ bal = cash /\ equity = cash + pos[s].float /\ Safe(cash - pos[s].risk)
      /\ x > -pos[s].risk /\ cash \in Int
  BY MoneyAssumption DEF Move, GateInv, GovernorTypeOK, IsOpen
<1>2. /\ pos'[s] = [pos[s] EXCEPT !.float = x] /\ pos'[s].risk = pos[s].risk
      /\ pos'[s].float = x /\ \A u \in Slots : u = s
      /\ equity' = cash + x
  BY <1>1 DEF Move, OneSlot, GateInv, GovernorTypeOK
<1>3. Safe(cash - pos[s].risk)' /\ UNCHANGED <<status, cash, peak, profile, bal>>
  BY <1>1, <1>2 DEF Move, governorVars, Safe, NextReference, UpdatedPeak, Trails,
     FloorAt, DailyLoss, DailyLimit, DailyReference
<1>4. Flat' => equity' = cash' /\ Safe(cash)'
  <2>1. pos'[s] \in [risk : Nat, float : Int]
    BY <1>1, <1>2, MoneyAssumption
  <2> QED BY <2>1, AbsentAssumption DEF Flat, IsOpen
<1> QED BY <1>1, <1>2, <1>3, <1>4 DEF GateInv

LEMMA StepClose ==
  ASSUME Disciplined, OneSlot, GateInv, NEW s \in Slots, NEW x \in Results, CloseTrade(s, x),
         GovernorTypeOK'
  PROVE  GateInv'
<1>0. /\ IsOpen(s) /\ x \in Int /\ x >= -pos[s].risk /\ GovernorTypeOK /\ peak >= Initial
      /\ cash \in Int /\ peak \in Int /\ pos[s] \in [risk : Risks, float : Int]
  BY MoneyAssumption DEF CloseTrade, GateInv, GovernorTypeOK, IsOpen
<1>1. /\ pos[s].risk \in Int /\ pos[s].float \in Int
      /\ bal = cash /\ equity = cash + pos[s].float /\ Safe(cash - pos[s].risk)
      /\ IsOpen(s) /\ x \in Int /\ x >= -pos[s].risk /\ GovernorTypeOK /\ peak >= Initial
      /\ cash \in Int /\ peak \in Int
  <2>1. pos[s].risk \in Int /\ pos[s].float \in Int
    BY <1>0, SlotTypes
  <2> QED BY <1>0, <2>1 DEF GateInv
<1>2. Flat' /\ \A u \in Slots : ~IsOpen(u)'
  BY DEF CloseTrade, OneSlot, GateInv, GovernorTypeOK, Flat, IsOpen
<1>3. /\ cash' = cash + x /\ cash' \in Nat /\ equity' = cash'
      /\ UNCHANGED <<status, profile, bal, dayBal, dayEq>> /\ peak' >= peak
  BY <1>1, MoneyAssumption DEF CloseTrade, RecordTrade, Larger
<1>4. 100 * DailyLoss(cash + x) < DailyLimit
  BY <1>1, LossFalls DEF Safe
<1>5. 100 * (cash + x) > FloorAt(NextReference)
  BY <1>1, ReferenceTypes, FloorFacts DEF Safe
<1>6. NextReference' \in Nat /\ NextReference' > 0
  BY <1>1, <1>3, MoneyAssumption DEF GovernorTypeOK, NextReference, UpdatedPeak, Larger
<1>7. NextReference' = NextReference \/ NextReference' <= cash + x
  BY <1>1, <1>3, ProfileTypes DEF GateInv, CloseTrade, RecordTrade, NextReference, UpdatedPeak, Larger,
     Trails, ProfileType, Modes
<1>8. 100 * (cash + x) > FloorAt(NextReference')
  <2> DEFINE ref == NextReference'
  <2>1. /\ ref \in Nat /\ ref > 0 /\ (ref = NextReference \/ ref <= cash + x)
        /\ cash + x \in Int
    BY <1>1, <1>6, <1>7
  <2> HIDE DEF ref
  <2>2. 100 * (cash + x) > FloorAt(ref)
    BY <1>1, <1>5, <2>1, RaisedReference
  <2> QED BY <2>2 DEF ref
<1>9. Safe(cash)'
  BY <1>3, <1>4, <1>8 DEF Safe, FloorAt, DailyLoss, DailyLimit, DailyReference
<1> QED BY <1>1, <1>2, <1>3, <1>9, MoneyAssumption DEF GateInv, CloseTrade, RecordTrade, GovernorTypeOK

LEMMA StepObserve ==
  ASSUME Disciplined, GateInv, Observe, GovernorTypeOK'
  PROVE  GateInv'
<1>1. GovernorTypeOK /\ peak >= Initial /\ cash \in Int /\ equity \in Int /\ peak \in Int
  BY DEF GateInv, GovernorTypeOK
<1>2. 100 * DailyLoss(equity) < DailyLimit /\ 100 * equity > FloorAt(NextReference)
  <2>1. CASE Flat
    BY <2>1 DEF GateInv, Safe
  <2>2. ASSUME NEW s \in Slots, IsOpen(s)
        PROVE  100 * DailyLoss(equity) < DailyLimit /\ 100 * equity > FloorAt(NextReference)
    <3>0. pos[s] \in [risk : Risks, float : Int]
      BY <2>2 DEF GateInv, GovernorTypeOK, IsOpen
    <3>1. pos[s].risk \in Int /\ pos[s].float \in Int
      BY <3>0, SlotTypes
    <3>2. Safe(cash - pos[s].risk) /\ cash - pos[s].risk <= equity
      BY <1>1, <2>2, <3>1 DEF GateInv
    <3> QED BY <1>1, <3>1, <3>2, LossFalls, ReferenceTypes, FloorFacts DEF Safe
  <2> QED BY <2>1, <2>2 DEF Flat
<1>3. status' = status
  <2>1. ~DailyHit
    BY <1>1, <1>2, Types DEF Observe, DailyHit, DailyLoss, Larger
  <2>2. ~OverallHit
    BY <1>1, <1>2, ReferenceTypes, FloorFacts DEF Observe, OverallHit, NextReference
  <2> QED BY <2>1, <2>2 DEF Observe, Promoted
<1>4. /\ peak' >= Initial /\ NextReference' = NextReference
      /\ profile.mode \in {"static", "lock", "trailing_intraday"} => peak' >= bal'
      /\ UNCHANGED <<profile, dayBal, dayEq, cash, equity, pos>> /\ bal' = cash
  BY <1>1, MoneyAssumption DEF Observe, NextReference, UpdatedPeak, Larger, Trails, accountVars
<1>5. /\ Flat' = Flat /\ \A s \in Slots : IsOpen(s)' = IsOpen(s)
      /\ Safe(cash)' = Safe(cash)
      /\ \A s \in Slots : Safe(cash - pos[s].risk)' = Safe(cash - pos[s].risk)
  BY <1>4 DEF Flat, IsOpen, Safe, FloorAt, DailyLoss, DailyLimit, DailyReference
<1> QED BY <1>1, <1>3, <1>4, <1>5 DEF GateInv

LEMMA StepRollover ==
  ASSUME Disciplined, GateInv, Rollover, ~careless', GovernorTypeOK'
  PROVE  GateInv'
<1>1. /\ GovernorTypeOK /\ peak >= Initial /\ cash \in Int /\ peak \in Int
      /\ Flat /\ bal = cash /\ eq = cash /\ equity = cash /\ Safe(cash)
  BY DEF GateInv, GovernorTypeOK, Rollover, Observed
<1>2. /\ status' = status /\ dayBal' = cash /\ dayEq' = cash
      /\ UNCHANGED <<profile, bal, eq, cash, equity, pos>> /\ peak' >= peak
  BY <1>1 DEF GateInv, Rollover, Resumed, RolledPeak, Larger, accountVars
<1>3. NextReference' \in Nat /\ NextReference' > 0
  BY <1>1, <1>2, MoneyAssumption DEF GovernorTypeOK, NextReference, UpdatedPeak, Larger
<1>4. NextReference' = NextReference \/ NextReference' <= cash
  BY <1>1, <1>2 DEF Rollover, NextReference, UpdatedPeak, RolledPeak, Larger, Trails
<1>5. 100 * cash > FloorAt(NextReference')
  BY <1>1, <1>3, <1>4, RaisedReference DEF Safe
<1>6. 100 * DailyLoss(cash)' < DailyLimit'
  <2>1. DailyReference' = cash /\ DailyLoss(cash)' = 0
    BY <1>1, <1>2 DEF DailyReference, DailyLoss, Larger
  <2>2. CASE profile.daily # Absent
    BY <1>1, <1>2, <2>1, <2>2, ProfileTypes DEF DailyLimit
  <2>3. CASE profile.daily = Absent
    <3>1. profile.dailyPct \in Nat /\ profile.dailyPct > 0
      BY <1>1, <2>3, ProfileTypes, ProfileAssumption DEF Sound
    <3>2. cash \in Nat /\ cash > 0
      BY <1>1, <2>3, ReferenceTypes, FloorFacts DEF Safe
    <3>3. profile.dailyPct * cash > 0
      BY <3>1, <3>2, Products
    <3> QED BY <1>2, <2>1, <2>3, <3>3 DEF DailyLimit
  <2> QED BY <2>2, <2>3
<1>7. Safe(cash)'
  BY <1>2, <1>5, <1>6 DEF Safe, FloorAt
<1>8. Flat' /\ \A s \in Slots : ~IsOpen(s)'
  BY <1>1, <1>2 DEF Flat, IsOpen
<1>9. /\ peak' >= Initial
      /\ profile.mode \in {"static", "lock", "trailing_intraday"} => peak' >= bal'
  BY <1>1, <1>2, MoneyAssumption DEF GateInv, GovernorTypeOK
<1> QED BY <1>1, <1>2, <1>7, <1>8, <1>9 DEF GateInv

LEMMA StepSame ==
  ASSUME GateInv, GovernorTypeOK', status' \in {"in_progress", "passed"},
         UNCHANGED <<profile, bal, eq, dayBal, dayEq, peak, accountVars>>
  PROVE  GateInv'
  BY DEF GateInv, accountVars, Flat, IsOpen, Safe, NextReference, UpdatedPeak, Trails,
     FloorAt, DailyLoss, DailyLimit, DailyReference

\* The invariant holds for as long as nothing careless was done.
GuardedInv == GovernorTypeOK /\ (Disciplined => GateInv)

LEMMA GateStep == ASSUME OneSlot PROVE GuardedInv /\ [GovernorNext]_sessionVars => GuardedInv'
<1> SUFFICES ASSUME GuardedInv, [GovernorNext]_sessionVars PROVE GuardedInv'
  OBVIOUS
<1>1. CASE GovernorNext
  <2>1. GovernorTypeOK'
    BY <1>1, GovernorTypeStep DEF GuardedInv
  <2>2. Disciplined' => Disciplined
    BY <1>1 DEF GovernorNext, Open, Move, CloseTrade, Observe, Rollover, Outcome, Disciplined, Sound
  <2> SUFFICES ASSUME Disciplined' PROVE GateInv'
    BY <2>1 DEF GuardedInv
  <2>3. Disciplined /\ GateInv /\ ~careless'
    BY <2>2 DEF GuardedInv, Disciplined
  <2>4. ASSUME NEW s \in Slots, NEW r \in Risks, Open(s, r) PROVE GateInv'
    BY <2>1, <2>3, <2>4, StepOpen
  <2>5. ASSUME NEW s \in Slots, NEW x \in Results, Move(s, x) PROVE GateInv'
    BY <2>1, <2>3, <2>5, StepMove
  <2>6. ASSUME NEW s \in Slots, NEW x \in Results, CloseTrade(s, x) PROVE GateInv'
    BY <2>1, <2>3, <2>6, StepClose
  <2>7. CASE Observe
    BY <2>1, <2>3, <2>7, StepObserve
  <2>8. CASE Rollover
    BY <2>1, <2>3, <2>8, StepRollover
  <2>9. CASE Outcome
    BY <2>1, <2>3, <2>9, StepSame DEF Outcome
  <2> QED BY <1>1, <2>4, <2>5, <2>6, <2>7, <2>8, <2>9 DEF GovernorNext
<1>2. CASE UNCHANGED sessionVars
  <2>1. GovernorTypeOK' /\ (Disciplined' => Disciplined)
    BY <1>2 DEF GuardedInv, GovernorTypeOK, sessionVars, governorVars, accountVars, Disciplined, Sound
  <2>2. Disciplined => GateInv'
    BY <1>2, <2>1, StepSame DEF GuardedInv, GateInv, sessionVars, governorVars, accountVars
  <2> QED BY <2>1, <2>2 DEF GuardedInv
<1> QED BY <1>1, <1>2

-----------------------------------------------------------------------------
(* The floor *)

LEMMA FloorRises ==
  ASSUME GovernorTypeOK, profile.overall = Absent => profile.overallPct <= 100,
         NEW x \in Int, NEW y \in Int, x <= y
  PROVE  FloorAt(x) <= FloorAt(y)
<1>1. profile.overallPct \in Nat /\ (profile.overall # Absent => profile.overall \in Nat)
  BY ProfileAssumption DEF GovernorTypeOK, ProfileType
<1>2. CASE profile.overall # Absent
  BY <1>1, <1>2, MoneyAssumption DEF FloorAt, Smaller
<1>3. CASE profile.overall = Absent
  <2>1. profile.overallPct * Initial \in Int
    BY <1>1, MoneyAssumption
  <2>2. CASE profile.mode = "trailing_closed"
    BY <1>3, <2>1, <2>2 DEF FloorAt
  <2>3. CASE profile.mode # "trailing_closed"
    <3>1. (100 - profile.overallPct) * (y - x) \in Nat
      <4>1. 100 - profile.overallPct \in Nat /\ y - x \in Nat
        BY <1>1, <1>3
      <4> QED BY <4>1, Products
    <3>2. (100 - profile.overallPct) * y = (100 - profile.overallPct) * x
                                           + (100 - profile.overallPct) * (y - x)
      BY <1>1
    <3>3. (100 - profile.overallPct) * x \in Int
      BY <1>1
    <3> QED BY <1>3, <2>3, <3>1, <3>2, <3>3 DEF FloorAt
  <2> QED BY <2>2, <2>3
<1> QED BY <1>2, <1>3

\* The peak only rises, and for the programs that wait only at rollover or on a
\* trade closed with a profit.
LEMMA PeakRises ==
  ASSUME GovernorTypeOK, GovernorNext
  PROVE  /\ profile' = profile /\ peak' \in Int /\ peak' >= peak
         /\ profile.mode \in {"trailing_eod", "trailing_closed"} /\ peak' # peak
              => rolled' # rolled \/ cash' > cash
<1> USE MoneyAssumption
<1> DEFINE Goal == /\ profile' = profile /\ peak' \in Int /\ peak' >= peak
                   /\ profile.mode \in {"trailing_eod", "trailing_closed"} /\ peak' # peak
                        => rolled' # rolled \/ cash' > cash
<1>1. ASSUME NEW s \in Slots, NEW r \in Risks, Open(s, r) PROVE Goal
  BY <1>1 DEF GovernorTypeOK, Open, governorVars
<1>2. ASSUME NEW s \in Slots, NEW x \in Results, Move(s, x) PROVE Goal
  BY <1>2 DEF GovernorTypeOK, Move, governorVars
<1>3. ASSUME NEW s \in Slots, NEW x \in Results, CloseTrade(s, x) PROVE Goal
  <2>1. /\ cash' = cash + x /\ x \in Int /\ cash \in Int /\ peak \in Int /\ bal \in Int
        /\ profile' = profile
    BY <1>3 DEF GovernorTypeOK, CloseTrade
  <2>2. peak' = IF x > 0 /\ profile.mode = "trailing_closed" THEN Larger(peak, bal + x) ELSE peak
    BY <1>3 DEF CloseTrade, RecordTrade
  <2> QED BY <2>1, <2>2 DEF Larger
<1>4. CASE Observe
  BY <1>4 DEF GovernorTypeOK, Observe, UpdatedPeak, Larger
<1>5. CASE Rollover
  BY <1>5 DEF GovernorTypeOK, Rollover, RolledPeak, Larger
<1>6. CASE Outcome
  BY <1>6 DEF GovernorTypeOK, Outcome
<1> QED BY <1>1, <1>2, <1>3, <1>4, <1>5, <1>6 DEF GovernorNext

-----------------------------------------------------------------------------
(* The theorems *)

\* Every variable of the governor and of the account keeps its type.
THEOREM GovernorTypeCorrect == GovernorSpec => []GovernorTypeOK
<1>1. GovernorInit => GovernorTypeOK
  BY GovernorTypeInit
<1>2. GovernorTypeOK /\ [GovernorNext]_sessionVars => GovernorTypeOK'
  BY GovernorTypeStep DEF GovernorTypeOK, sessionVars, governorVars, accountVars
<1> QED BY <1>1, <1>2, PTL DEF GovernorSpec

\* Where the account holds one position at a time, closes it before midnight
\* and asks the gate with fresh numbers, a challenge of a sound program never
\* fails while the stops are honoured: for every balance, limit, percentage and
\* sequence of results (governor.py:366-466 against 471-577).
THEOREM StopsHonouredNeverFail == ASSUME OneSlot PROVE GovernorSpec => []GateHolds
<1>1. GovernorInit => GuardedInv
  BY GovernorTypeInit, GateInit DEF GuardedInv, Disciplined
<1>2. GuardedInv /\ [GovernorNext]_sessionVars => GuardedInv'
  BY GateStep
<1>3. GuardedInv => GateHolds
  BY DEF GuardedInv, Disciplined, GateInv, GateHolds, Failed
<1> QED BY <1>1, <1>2, <1>3, PTL DEF GovernorSpec

\* The floor never falls, and waits where the program says so, whatever the
\* account does: with any number of positions, overnight and on old numbers
\* (governor.py:175-190, 206-209, 246-248, 296-313).
THEOREM FloorHolds ==
  ASSUME \A p \in Profiles : p.overall = Absent => p.overallPct <= 100
  PROVE  GovernorSpec => FloorNeverFalls
<1> DEFINE Holds == /\ Floor' >= Floor
                    /\ profile.mode \in {"trailing_eod", "trailing_closed"} /\ Floor' # Floor
                         => rolled' # rolled \/ cash' > cash
<1>1. GovernorTypeOK /\ [GovernorNext]_sessionVars => [Holds]_sessionVars
  <2> SUFFICES ASSUME GovernorTypeOK, GovernorNext PROVE Holds
    OBVIOUS
  <2>1. /\ profile' = profile /\ peak \in Int /\ peak' \in Int /\ peak' >= peak
        /\ profile.overall = Absent => profile.overallPct <= 100
    BY PeakRises DEF GovernorTypeOK
  <2>2. /\ OverallReference' = IF Trails(profile) THEN peak' ELSE Initial
        /\ Floor' = FloorAt(OverallReference')
    BY <2>1 DEF OverallReference, Floor, FloorAt, Trails
  <2>3. OverallReference \in Int /\ OverallReference' \in Int
        /\ OverallReference <= OverallReference'
    BY <2>1, <2>2, MoneyAssumption DEF OverallReference
  <2> DEFINE next == OverallReference'
  <2>4. /\ next \in Int /\ OverallReference <= next /\ Floor' = FloorAt(next)
        /\ next = IF Trails(profile) THEN peak' ELSE Initial
    BY <2>2, <2>3
  <2> HIDE DEF next
  <2>5. FloorAt(OverallReference) <= FloorAt(next)
    BY <2>1, <2>3, <2>4, FloorRises
  <2>6. Floor' # Floor => peak' # peak
    BY <2>4 DEF Floor, OverallReference
  <2>7. FloorAt(OverallReference) \in Int /\ FloorAt(next) \in Int
    <3>1. profile.overallPct \in Nat /\ (profile.overall # Absent => profile.overall \in Nat)
      BY ProfileAssumption DEF GovernorTypeOK, ProfileType
    <3>2. ASSUME NEW r \in Int PROVE FloorAt(r) \in Int
      <4>1. (100 - profile.overallPct) * r \in Int /\ profile.overallPct * Initial \in Int
        BY <3>1, MoneyAssumption
      <4> QED BY <3>1, <4>1, MoneyAssumption DEF FloorAt, Smaller
    <3> QED BY <2>3, <2>4, <3>2
  <2> QED BY <2>4, <2>5, <2>6, <2>7, PeakRises DEF Floor
<1>2. GovernorSpec => []GovernorTypeOK
  BY GovernorTypeCorrect
<1> QED BY <1>1, <1>2, PTL DEF GovernorSpec, FloorNeverFalls


-----------------------------------------------------------------------------
(* The circuit breaker *)

\* The clock of the circuit starts at a failure, so it never runs ahead of the
\* time that has been quiet.
ClockInv == age # Unset => age <= quiet

CircuitInv == CircuitTypeOK /\ TripsAtThreshold /\ ClockInv

LEMMA CircuitInitial == CircuitInit => CircuitInv
  BY CircuitAssumption DEF CircuitInit, CircuitInv, CircuitTypeOK, TripsAtThreshold, ClockInv, CircuitStates

LEMMA CallTypes ==
  ASSUME CircuitTypeOK, NEW c \in Calls, NEW v \in {"idle", "closed", "half_open"},
         call' = [call EXCEPT ![c] = v]
  PROVE  call' \in [Calls -> {"idle", "closed", "half_open"}]
  BY DEF CircuitTypeOK

LEMMA ObservedFacts ==
  ASSUME CircuitInv
  PROVE  /\ StateNow \in CircuitStates
         /\ StateNow = "closed" <=> state = "closed"
         /\ StateNow = "half_open" => age = Timeout
  BY DEF CircuitInv, CircuitTypeOK, TripsAtThreshold, StateNow, CircuitStates

LEMMA SuccessKeeps ==
  ASSUME CircuitInv, RecordSuccess, quiet' = quiet, up' = up,
         call' \in [Calls -> {"idle", "closed", "half_open"}]
  PROVE  CircuitInv'
  BY CircuitAssumption
  DEF CircuitInv, CircuitTypeOK, TripsAtThreshold, ClockInv, RecordSuccess, CircuitStates

LEMMA FailureKeeps ==
  ASSUME CircuitInv, RecordFailure, quiet' = 0, up' = up,
         call' \in [Calls -> {"idle", "closed", "half_open"}]
  PROVE  CircuitInv'
<1>1. failures' \in 0..Threshold /\ (failures' = Threshold <=> failures >= Threshold - 1)
  BY CircuitAssumption DEF CircuitInv, CircuitTypeOK, RecordFailure
<1>2. CASE state = "half_open" \/ failures' = Threshold
  <2>1. state' = "open" /\ age' = 0 /\ failures' = Threshold
    BY <1>1, <1>2, CircuitAssumption DEF CircuitInv, CircuitTypeOK, TripsAtThreshold, RecordFailure
  <2> QED BY <2>1, CircuitAssumption
          DEF CircuitInv, CircuitTypeOK, TripsAtThreshold, ClockInv, CircuitStates
<1>3. CASE ~(state = "half_open" \/ failures' = Threshold)
  <2>1. state' = state /\ age' = age /\ failures' < Threshold
    BY <1>1, <1>3, CircuitAssumption DEF RecordFailure
  <2>2. state = "closed" /\ age = Unset
    BY <1>1, <1>3, CircuitAssumption DEF CircuitInv, CircuitTypeOK, TripsAtThreshold
  <2> QED BY <1>1, <2>1, <2>2, CircuitAssumption
          DEF CircuitInv, CircuitTypeOK, TripsAtThreshold, ClockInv
<1> QED BY <1>2, <1>3

LEMMA CircuitStep == CircuitInv /\ [CircuitNext]_circuitVars => CircuitInv'
<1> SUFFICES ASSUME CircuitInv, [CircuitNext]_circuitVars PROVE CircuitInv'
  OBVIOUS
<1> USE CircuitAssumption
<1>1. ASSUME NEW c \in Calls, Begin(c) PROVE CircuitInv'
  <2>1. StateNow \in {"closed", "half_open"}
    BY <1>1, ObservedFacts DEF Begin, CircuitStates
  <2>2. call' \in [Calls -> {"idle", "closed", "half_open"}]
    BY <1>1, <2>1, CallTypes DEF Begin, CircuitInv
  <2>3. /\ state' = StateNow
        /\ UNCHANGED <<failures, age, up, quiet>>
    BY <1>1 DEF Begin
  <2> QED BY <2>2, <2>3, ObservedFacts
          DEF CircuitInv, CircuitTypeOK, TripsAtThreshold, ClockInv
<1>2. ASSUME NEW c \in Calls, Succeed(c) PROVE CircuitInv'
  BY <1>2, CallTypes, SuccessKeeps DEF Succeed, Finish, CircuitInv
<1>3. ASSUME NEW c \in Calls, Fail(c) PROVE CircuitInv'
  BY <1>3, CallTypes, FailureKeeps DEF Fail, Finish, CircuitInv
<1>4. ASSUME NEW c \in Calls, Cancel(c) PROVE CircuitInv'
  BY <1>4, CallTypes DEF Cancel, Finish, CircuitInv, CircuitTypeOK, TripsAtThreshold, ClockInv
<1>5. CASE Look
  BY <1>5, ObservedFacts DEF Look, CircuitInv, CircuitTypeOK, TripsAtThreshold, ClockInv
<1>6. CASE Reset
  BY <1>6, SuccessKeeps DEF Reset, CircuitInv, CircuitTypeOK
<1>7. CASE Tick
  BY <1>7 DEF Tick, Older, CircuitInv, CircuitTypeOK, TripsAtThreshold, ClockInv
<1>8. CASE Outage \/ Recovery
  BY <1>8 DEF Outage, Recovery, CircuitInv, CircuitTypeOK, TripsAtThreshold, ClockInv
<1>9. CASE UNCHANGED circuitVars
  BY <1>9 DEF circuitVars, CircuitInv, CircuitTypeOK, TripsAtThreshold, ClockInv
<1> QED BY <1>1, <1>2, <1>3, <1>4, <1>5, <1>6, <1>7, <1>8, <1>9 DEF CircuitNext

\* A step that puts a call in flight is that call's Begin.
LEMMA BeginStep ==
  ASSUME CircuitInv, [CircuitNext]_circuitVars, NEW c \in Calls, ~InFlight(c), InFlight(c)'
  PROVE  state' = "closed" \/ quiet = Timeout
<1> USE DEF InFlight
<1>1. ASSUME NEW d \in Calls, Begin(d) PROVE state' = "closed" \/ quiet = Timeout
  <2>1. StateNow = "closed" \/ (StateNow = "half_open" /\ age = Timeout)
    BY <1>1, ObservedFacts DEF Begin, CircuitStates
  <2>2. age = Timeout => quiet = Timeout
    BY CircuitAssumption DEF CircuitInv, ClockInv, CircuitTypeOK
  <2> QED BY <1>1, <2>1, <2>2 DEF Begin
<1>2. ASSUME NEW d \in Calls, Finish(d) PROVE FALSE
  BY <1>2 DEF Finish, CircuitInv, CircuitTypeOK
<1>3. call' # call
  OBVIOUS
<1> QED BY <1>1, <1>2, <1>3
    DEF CircuitNext, Succeed, Fail, Cancel, Look, Reset, Tick, Outage, Recovery, circuitVars

\* State, counter and clock of the circuit stay in step, and every variable
\* keeps its type, for any number of overlapping calls.
THEOREM CircuitCorrect == CircuitSpec => [](CircuitTypeOK /\ TripsAtThreshold)
<1>1. CircuitInv => CircuitTypeOK /\ TripsAtThreshold
  BY DEF CircuitInv
<1> QED BY <1>1, CircuitInitial, CircuitStep, PTL DEF CircuitSpec

\* No call begins on a tripped circuit before the recovery timeout has passed
\* since the last failure of any call.
THEOREM ProviderIsLeftAlone == CircuitSpec => NoEarlyProbe
<1>1. CircuitInv /\ [CircuitNext]_circuitVars =>
        [\A c \in Calls : ~InFlight(c) /\ InFlight(c)' => state' = "closed" \/ quiet = Timeout]_circuitVars
  BY BeginStep
<1> QED BY <1>1, CircuitInitial, CircuitStep, PTL DEF CircuitSpec, NoEarlyProbe
=============================================================================
