---------------------------- MODULE DurableNaming ----------------------------
(***************************************************************************)
(* What order intake promises (create_order, core/oms.py), free of         *)
(* processes, caches, lookups and crashes: a client_order_id gets one       *)
(* durable name, every answer gives that name, and only an order that was   *)
(* given as an answer is sent, under that name.  A client_order_id may be   *)
(* spoilt; from then on nothing is promised for it but that.                *)
(***************************************************************************)
EXTENDS Naturals

CONSTANTS Clients, OrderIds, None

VARIABLES name, told, sent, spoilt

vars == <<name, told, sent, spoilt>>

Init ==
  /\ name = [c \in Clients |-> None]
  /\ told = {}
  /\ sent = [c \in Clients |-> [o \in OrderIds |-> 0]]
  /\ spoilt = {}

\* The name is given and answered in one step; a rival may spoil it there.
Record(c, o) ==
  /\ name[c] = None
  /\ name' = [name EXCEPT ![c] = o]
  /\ told' = told \cup {<<c, o>>}
  /\ spoilt' \in {spoilt, spoilt \cup {c}}
  /\ UNCHANGED sent

Answer(c, o) ==
  /\ name[c] = o \/ c \in spoilt
  /\ told' = told \cup {<<c, o>>}
  /\ UNCHANGED <<name, sent, spoilt>>

Submit(c, o) ==
  /\ <<c, o>> \in told
  /\ name[c] = o \/ c \in spoilt
  /\ sent' = [sent EXCEPT ![c][o] = @ + 1]
  /\ UNCHANGED <<name, told, spoilt>>

Spoil(c) ==
  /\ spoilt' = spoilt \cup {c}
  /\ UNCHANGED <<name, told, sent>>

Next ==
  \E c \in Clients :
    \/ \E o \in OrderIds : Record(c, o) \/ Answer(c, o) \/ Submit(c, o)
    \/ Spoil(c)

Spec == Init /\ [][Next]_vars
=============================================================================
