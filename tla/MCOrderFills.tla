---------------------------- MODULE MCOrderFills ----------------------------
(***************************************************************************)
(* An entry of four lots and an exit of two; fills that complete, exceed  *)
(* and close them; one fill without a broker_fill_id; an account that the  *)
(* dear fill overdraws.                                                    *)
(***************************************************************************)
EXTENDS OrderFills

Fill(o, q, p, side, pnl, fee) ==
  [order |-> o, account |-> "acc", qty |-> q, price |-> p, side |-> side,
   pnl |-> pnl, fee |-> fee]

MCQuantity == [o \in OrderIds |-> IF o = "entry" THEN 4 ELSE 2]

Buy2     == Fill("entry", 2, 2, "buy", 0, 1)
Buy1     == Fill("entry", 1, 3, "buy", 0, 0)
BuyDear  == Fill("entry", 2, 9, "buy", 0, 0)
Sell2    == Fill("exit", 2, 3, "sell", -1, 1)
SellLoss == Fill("exit", 1, 3, "sell", -9, 0)

EntryFills == {Buy2, Buy1, BuyDear}
EntryIdentified == {Buy2, BuyDear}
ExitFills == {Sell2, SellLoss}
BothFills == {Buy2, Buy1, Sell2}
BothIdentified == {Buy1, Sell2}
=============================================================================
