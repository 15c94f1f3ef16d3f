---------------------------- MODULE MCSupervision ----------------------------
(***************************************************************************)
(* One instrument, two lots bought and one sold, up to two tasks of the    *)
(* worker.                                                                 *)
(***************************************************************************)
EXTENDS Supervision

CONSTANTS o1, o2, es

MCInstrumentOf == [o \in Orders |-> es]
MCLotsOf == [o \in Orders |-> IF o = o1 THEN 2 ELSE -1]

\* A bound: any two of a kill, its retry, a pass by run_once and fees meet, and
\* not three of them.
Passing == {c \in Callers : pass[c].at # "idle"}
PairsMeet ==
  Cardinality({k \in Kills : Begun(k)}) + Cardinality(Passing)
    + Cardinality({c \in {cash} : c < MaxCash}) <= 2
=============================================================================
