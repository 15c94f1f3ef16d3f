---------------------------- MODULE MCPostgresOMS ----------------------------
EXTENDS PostgresOMS

CONSTANTS p1, p2, t1, t2, c1, c2, o1, o2, o3

OneProcess == [t \in {t1, t2} |-> p1]
TwoProcesses == [t \in {t1, t2} |-> IF t = t1 THEN p1 ELSE p2]

\* The caller of c1 rebuilds its order, with a new order id, before a retry.
Orders == {[client |-> c1, order |-> o1], [client |-> c1, order |-> o2],
           [client |-> c2, order |-> o3]}
OneOrder == {[client |-> c1, order |-> o1]}

Lots == [o \in {o1, o2, o3} |-> 3]

Fill(id, o, qty, notional, fee) ==
  [id |-> id, order |-> o, qty |-> qty, notional |-> notional, fee |-> fee]

\* The third is more than the account can pay once another was paid.
BuyFills == {Fill("a", o1, 1, -3, 1), Fill("b", o1, 2, -4, 0), Fill("c", o1, 1, -8, 1)}
ManyFills == BuyFills \cup {Fill("d", o3, 2, 5, 1)}
TwoFills == {Fill("a", o1, 1, -3, 1), Fill("b", o1, 2, -4, 0)}
=============================================================================
