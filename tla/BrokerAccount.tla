---------------------------- MODULE BrokerAccount ----------------------------
(***************************************************************************)
(* A broker's account and the books kept of it: what reconciliation        *)
(* (core/reconciliation.py) compares and the kill switch (core/kill.py)    *)
(* closes.                                                                 *)
(*                                                                         *)
(* The order manager places orders; the broker executes them some time     *)
(* later, and reports each fill to the OMS later still, or never.  Fees    *)
(* reach the ledger after the broker has taken them.  The broker may be    *)
(* out of reach.  What a call to it does then, and what it gives for a     *)
(* position, is its adapter's: paper, mt5, ccxt or ibkr                    *)
(* (execution/brokers).  Each instrument is one position, as on a netting  *)
(* account.                                                                *)
(***************************************************************************)
EXTENDS Integers, FiniteSets

CONSTANTS
  Instruments,
  Orders,       \* orders the order manager may place
  InstrumentOf, \* the instrument of each
  LotsOf,       \* its signed quantity
  MaxCash,      \* the cash both sides start with
  Adapters      \* adapters the broker may be behind; each call may meet any

ASSUME AccountAssumption ==
  /\ InstrumentOf \in [Orders -> Instruments]
  /\ LotsOf \in [Orders -> Int]
  /\ MaxCash \in Nat
  /\ Adapters \subseteq {"paper", "mt5", "ccxt", "ibkr"} /\ Adapters # {}

VARIABLES
  order,        \* each order: new, working at the broker, executed, cancelled
  listed,       \* orders whose broker id the OMS has
  unreported,   \* executed orders the OMS has not heard of
  held,         \* the broker's positions
  booked,       \* the OMS's positions, summed from its filled quantities
  cash,         \* the broker's cash, in hundreds
  balance,      \* the ledger's
  reachable     \* does the broker answer?

accountVars == <<order, listed, unreported, held, booked, cash, balance, reachable>>

Nothing == [i \in Instruments |-> 0]

AccountTypeOK ==
  /\ order \in [Orders -> {"new", "working", "executed", "cancelled"}]
  /\ listed \subseteq Orders
  /\ unreported \subseteq {o \in Orders : order[o] = "executed"}
  /\ held \in [Instruments -> Int]
  /\ booked \in [Instruments -> Int]
  /\ cash \in 0..MaxCash /\ balance \in cash..MaxCash
  /\ reachable \in BOOLEAN

AccountInit ==
  /\ order = [o \in Orders |-> "new"]
  /\ listed = {} /\ unreported = {}
  /\ held = Nothing /\ booked = Nothing
  /\ cash = MaxCash /\ balance = MaxCash
  /\ reachable = TRUE

Working == {o \in Orders : order[o] = "working"}
Flat == held = Nothing

\* Who answers: paper is in memory, mt5 raises when the broker is out of reach,
\* ccxt swallows the exception and ibkr looks for a connection first.
Hears(a) == a = "paper" \/ reachable
Refuses(a) == a = "mt5" /\ ~reachable
Positions(a) == IF Hears(a) THEN held ELSE Nothing

\* paper and mt5 give BrokerPosition; the symbol and the size of the others' dicts
\* and tuples go by other names than those looked up.
Typed(a) == a \in {"paper", "mt5"}

-----------------------------------------------------------------------------

\* submit_order reaches the broker; the OMS learns the broker's id afterwards.
Submit(o) ==
  /\ reachable
  /\ order[o] = "new"
  /\ order' = [order EXCEPT ![o] = "working"]
  /\ UNCHANGED <<listed, unreported, held, booked, cash, balance, reachable>>

Acknowledge(o) ==
  /\ order[o] # "new" /\ o \notin listed
  /\ listed' = listed \cup {o}
  /\ UNCHANGED <<order, unreported, held, booked, cash, balance, reachable>>

Execute(o) ==
  /\ order[o] = "working"
  /\ order' = [order EXCEPT ![o] = "executed"]
  /\ unreported' = unreported \cup {o}
  /\ held' = [held EXCEPT ![InstrumentOf[o]] = @ + LotsOf[o]]
  /\ UNCHANGED <<listed, booked, cash, balance, reachable>>

\* The fill is recorded in the OMS.
Report(o) ==
  /\ o \in unreported
  /\ unreported' = unreported \ {o}
  /\ booked' = [booked EXCEPT ![InstrumentOf[o]] = @ + LotsOf[o]]
  /\ UNCHANGED <<order, listed, held, cash, balance, reachable>>

\* The fill's report is lost.
LoseReport(o) ==
  /\ o \in unreported
  /\ unreported' = unreported \ {o}
  /\ UNCHANGED <<order, listed, held, booked, cash, balance, reachable>>

Charge ==
  /\ cash > 0
  /\ cash' = cash - 1
  /\ UNCHANGED <<order, listed, unreported, held, booked, balance, reachable>>

Post ==
  /\ balance > cash
  /\ balance' = balance - 1
  /\ UNCHANGED <<order, listed, unreported, held, booked, cash, reachable>>

Outage ==
  /\ reachable' = ~reachable
  /\ UNCHANGED <<order, listed, unreported, held, booked, cash, balance>>
=============================================================================
