---------------------------- MODULE MCPaperRunner ----------------------------
(***************************************************************************)
(* Two symbols, one bought and one sold.                                   *)
(***************************************************************************)
EXTENDS PaperRunner

MCSymbols == <<"ES", "SPY">>
MCIntents == {[symbol |-> "ES", sign |-> 1], [symbol |-> "SPY", sign |-> -1]}
=============================================================================
