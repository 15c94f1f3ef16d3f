------------------------------ MODULE KillSwitch ------------------------------
(***************************************************************************)
(* KillSwitch.flatten_all (core/kill.py), on a broker's account.           *)
(*                                                                         *)
(* A kill cancels every open order, reads the positions, sends a market    *)
(* order against each and reads the positions again.  The broker executes  *)
(* those orders at once or later; the OMS never hears of them.             *)
(***************************************************************************)
EXTENDS BrokerAccount

CONSTANT Kills  \* calls of the kill switch; the retry of one is another

VARIABLES
  kill,         \* each call: [at, todo, failed]
  closing,      \* orders against positions, open at the broker: [kill, instrument, lots]
  crossed       \* history: kills that somebody else trades beside, or since

killVars == <<kill, closing, crossed>>

\* An order against a position.
Against == [kill : Kills, instrument : Instruments, lots : Int]

KillTypeOK ==
  /\ kill \in [Kills -> [at : {"idle", "cancel", "read", "submit", "verify", "done"},
                        todo : SUBSET Against, failed : BOOLEAN]]
  /\ closing \subseteq Against
  /\ crossed \subseteq Kills

KillInit ==
  /\ kill = [k \in Kills |-> [at |-> "idle", todo |-> {}, failed |-> FALSE]]
  /\ closing = {}
  /\ crossed = {}

Begun(k) == kill[k].at # "idle"
Active(k) == kill[k].at \in {"cancel", "read", "submit", "verify"}

\* A kill crosses those before it.
Begin(k) ==
  /\ ~Begun(k)
  /\ kill' = [kill EXCEPT ![k].at = "cancel"]
  /\ crossed' = crossed \cup {j \in Kills \ {k} : Begun(j)}
  /\ UNCHANGED <<closing, accountVars>>

\* A call outside the try around one position raises: the kill is over.
Raises(k) ==
  /\ kill[k].at \in {"read", "verify"} /\ \E a \in Adapters : Refuses(a)
  /\ kill' = [kill EXCEPT ![k].at = "done", ![k].failed = TRUE]
  /\ UNCHANGED <<closing, crossed, accountVars>>

\* The kill is crossed by what is open besides it.
CrossedBy(k) ==
  crossed' = IF closing' # {} \/ Working' # {} \/ (\E j \in Kills \ {k} : Active(j))
               THEN crossed \cup {k} ELSE crossed \ {k}

CancelOnly(cancelled) ==
  order' = [o \in Orders |-> IF o \in cancelled THEN "cancelled" ELSE order[o]]

\* Mutant: only orders the OMS knows are cancelled.
CancelListed(k) ==
  /\ kill[k].at = "cancel"
  /\ kill' = [kill EXCEPT ![k].at = "read"]
  /\ CancelOnly(Working \cap listed)
  /\ crossed' = crossed \ {k}
  /\ UNCHANGED <<closing, listed, unreported, held, booked, cash, balance, reachable>>

\* Every open order goes, closes of earlier kills too; of the adapters only
\* paper's has the method, the others are not asked.
CancelAll(k) ==
  /\ kill[k].at = "cancel"
  /\ kill' = [kill EXCEPT ![k].at = "read"]
  /\ \E a \in Adapters :
       IF a = "paper" THEN CancelOnly(Working) /\ closing' = {}
                      ELSE UNCHANGED <<order, closing>>
  /\ CrossedBy(k)
  /\ UNCHANGED <<listed, unreported, held, booked, cash, balance, reachable>>

\* Typed positions are to be closed.  A dict is skipped for want of the name it
\* is looked up by, and a tuple is an error, for it has no get.
ReadPositions(k) ==
  \E a \in Adapters :
    /\ kill[k].at = "read" /\ ~Refuses(a)
    /\ kill' = [kill EXCEPT ![k].at = "submit",
                            ![k].todo = {[kill |-> k, instrument |-> i, lots |-> -held[i]] :
                                  i \in {j \in Instruments : Typed(a) /\ Positions(a)[j] # 0}},
                            ![k].failed = @ \/ (a = "ibkr" /\ Positions(a) # Nothing)]
    /\ UNCHANGED <<closing, crossed, accountVars>>

\* One position: a market order against it, or an error and the next one; a
\* broker that answers may refuse the order.
SubmitClose(k) ==
  \E c \in kill[k].todo, a \in Adapters, taken \in BOOLEAN :
    /\ kill[k].at = "submit"
    /\ taken => Hears(a)
    /\ kill' = [kill EXCEPT ![k].todo = @ \ {c}, ![k].failed = @ \/ ~taken]
    /\ closing' = IF taken THEN closing \cup {c} ELSE closing
    /\ UNCHANGED <<crossed, accountVars>>

Submitted(k) ==
  /\ kill[k].at = "submit" /\ kill[k].todo = {}
  /\ kill' = [kill EXCEPT ![k].at = "verify"]
  /\ UNCHANGED <<closing, crossed, accountVars>>

\* Mutant: success is that every close was submitted.
Unverified(k) ==
  /\ kill[k].at = "verify" /\ \E a \in Adapters : ~Refuses(a)
  /\ kill' = [kill EXCEPT ![k].at = "done"]
  /\ UNCHANGED <<closing, crossed, accountVars>>

\* Success takes positions that read flat; those that are not typed always do.
Verify(k) ==
  \E a \in Adapters :
    /\ kill[k].at = "verify" /\ ~Refuses(a)
    /\ kill' = [kill EXCEPT ![k].at = "done",
                            ![k].failed = @ \/ (Typed(a) /\ Positions(a) # Nothing)]
    /\ UNCHANGED <<closing, crossed, accountVars>>

\* The broker executes a close.
ExecuteClose(c) ==
  /\ c \in closing
  /\ closing' = closing \ {c}
  /\ held' = [held EXCEPT ![c.instrument] = @ + c.lots]
  /\ UNCHANGED <<kill, crossed, order, listed, unreported, booked, cash, balance, reachable>>

KillProceeds(k) ==
  Raises(k) \/ CancelAll(k) \/ ReadPositions(k) \/ SubmitClose(k) \/ Submitted(k) \/ Verify(k)

Succeeded(k) == kill[k].at = "done" /\ ~kill[k].failed
=============================================================================
