--------------------------- MODULE MCOrderManager ---------------------------
(***************************************************************************)
(* Requests of two lots, one that buys and one that sells.                 *)
(***************************************************************************)
EXTENDS OrderManager, TLC

TwoLots == [r \in Requests |-> 2]

Symmetry == Permutations(Tasks) \cup Permutations(OrderIds)
=============================================================================
