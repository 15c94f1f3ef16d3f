---------------------------- MODULE MCPaperBroker ----------------------------
(***************************************************************************)
(* Prices 1, 2 and 3 around a start of 2: an entry with a stop at 1 and a  *)
(* take-profit at 3, plain and resting orders on a second instrument.      *)
(***************************************************************************)
EXTENDS PaperBroker

Entry   == Request("market", "buy", "A", 2, NoPrice, 1, 3)
Short   == Request("limit", "sell", "A", 2, 2, 3, 1)
Market  == Request("market", "buy", "A", 3, NoPrice, NoPrice, NoPrice)
Limit   == Request("limit", "buy", "B", 2, 1, NoPrice, NoPrice)
BuyStop == Request("stop", "buy", "B", 1, NoPrice, 3, NoPrice)

\* Brackets on a broker that fills orders whole and yields nowhere; plain orders
\* on one that fills them in parts and yields in front of every submission.
Whole   == Setup(FALSE, FALSE, {Entry, Short, Limit}, {<<"stop", 3>>}, 6)
InParts == Setup(TRUE, TRUE, {Market, Limit}, {<<"qty", 1>>}, 3)

BothSetups == {Whole, InParts}

\* The brackets in parts; buys on a broker that yields.
BracketsInParts == {Setup(TRUE, FALSE, {Entry, Short}, {}, 7)}
Yielding        == {Setup(FALSE, TRUE, {Market}, {}, 7)}
=============================================================================
