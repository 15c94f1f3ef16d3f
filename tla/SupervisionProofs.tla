-------------------------- MODULE SupervisionProofs --------------------------
(***************************************************************************)
(* The kill switch on any account, with any callers, the worker's loops,   *)
(* for any number of them, and what the passes of the engine block for.    *)
(*                                                                         *)
(* A kill is clear when nobody has traded beside it or since and it has    *)
(* got past its cancellation, or left closes at the broker.  While it is,  *)
(* nothing else is at work on the account, and what it has open or in mind *)
(* is the opposite of what is held.                                        *)
(*                                                                         *)
(* A block is earned because the books, as long as they missed nothing,    *)
(* lack just the fills under way, and every answer a pass carries is as    *)
(* near the books as what came in since it was given.                      *)
(***************************************************************************)
EXTENDS Supervision, Sums, TLAPS

Clear(k) ==
  /\ k \notin crossed
  /\ \/ kill[k].at \in {"read", "submit", "verify"}
     \/ Succeeded(k)
     \/ \E c \in closing : c.kill = k

Intended(k) == closing \cup kill[k].todo

\* What a kill has in mind after it has read the positions.
ToClose(k, a) ==
  {[kill |-> k, instrument |-> i, lots |-> -held[i]] :
     i \in {j \in Instruments : Typed(a) /\ Positions(a)[j] # 0}}

\* What a clear kill may rely on.
Alone(k) ==
  /\ Working = {}
  /\ \A j \in Kills \ {k} : ~Active(j)
  /\ \A c \in Intended(k) : c.kill = k /\ c.lots = -held[c.instrument] /\ c.lots # 0
  /\ closing \cap kill[k].todo = {}
  /\ kill[k].at = "read" => closing = {}
  /\ Succeeded(k) => Flat /\ closing = {}

Todo == \A k \in Kills : kill[k].at # "submit" => kill[k].todo = {}
Owned == \A c \in closing : Begun(c.kill)
Owners == \A k \in Kills : \A c \in kill[k].todo : c.kill = k

KillInv ==
  /\ AccountTypeOK /\ KillTypeOK
  /\ Todo /\ Owned /\ Owners
  /\ \A k \in Kills : Clear(k) => Alone(k)

-----------------------------------------------------------------------------
(* Types *)

LEMMA AccountTypesInit == Init => AccountTypeOK
  BY AccountAssumption DEF Init, AccountInit, AccountTypeOK, Nothing

LEMMA AccountTypesStep == AccountTypeOK /\ KillTypeOK /\ [Next]_vars => AccountTypeOK'
<1> SUFFICES ASSUME AccountTypeOK, KillTypeOK, [Next]_vars PROVE AccountTypeOK'
  OBVIOUS
<1> USE AccountAssumption
<1>1. ASSUME NEW o \in Orders, Submit(o) PROVE AccountTypeOK'
  BY <1>1 DEF Submit, AccountTypeOK
<1>2. ASSUME NEW o \in Orders, Acknowledge(o) PROVE AccountTypeOK'
  BY <1>2 DEF Acknowledge, AccountTypeOK
<1>3. ASSUME NEW o \in Orders, Execute(o) PROVE AccountTypeOK'
  BY <1>3 DEF Execute, AccountTypeOK
<1>4. ASSUME NEW o \in Orders, Report(o) PROVE AccountTypeOK'
  BY <1>4 DEF Report, AccountTypeOK
<1>5. ASSUME NEW o \in Orders, LoseReport(o) PROVE AccountTypeOK'
  BY <1>5 DEF LoseReport, AccountTypeOK
<1>6. CASE Charge
  BY <1>6 DEF Charge, AccountTypeOK
<1>7. CASE Post
  BY <1>7 DEF Post, AccountTypeOK
<1>8. CASE Outage
  BY <1>8 DEF Outage, AccountTypeOK
<1>9. CASE UNCHANGED accountVars
  BY <1>9 DEF accountVars, AccountTypeOK
<1>10. ASSUME NEW k \in Kills, CancelAll(k) PROVE AccountTypeOK'
  <2>1. /\ order' \in [Orders -> {"new", "working", "executed", "cancelled"}]
        /\ \A o \in Orders : order[o] = "executed" => order'[o] = "executed"
        /\ UNCHANGED <<listed, unreported, held, booked, cash, balance, reachable>>
    BY <1>10 DEF CancelAll, CancelOnly, Working, AccountTypeOK
  <2> QED BY <2>1 DEF AccountTypeOK
<1>11. ASSUME NEW c \in closing, ExecuteClose(c) PROVE AccountTypeOK'
  <2>1. c.instrument \in Instruments /\ c.lots \in Int
    BY DEF KillTypeOK, Against
  <2> QED BY <1>11, <2>1 DEF ExecuteClose, AccountTypeOK
<1>12. ASSUME NEW k \in Kills, KillProceeds(k) PROVE AccountTypeOK'
  BY <1>9, <1>10, <1>12 DEF KillProceeds, Raises, ReadPositions, SubmitClose, Submitted, Verify
<1>13. CASE Reconciles \/ KillBegins \/ UNCHANGED vars
  BY <1>9, <1>13 DEF Reconciles, KillBegins, Begin, vars
<1> QED BY <1>1, <1>2, <1>3, <1>4, <1>5, <1>6, <1>7, <1>8, <1>11, <1>12, <1>13
    DEF Next, Trades, KillRuns, Closes

LEMMA KillTypesStep == AccountTypeOK /\ KillTypeOK /\ [Next]_vars => KillTypeOK'
<1> SUFFICES ASSUME AccountTypeOK, KillTypeOK, [Next]_vars PROVE KillTypeOK'
  OBVIOUS
<1>1. ASSUME NEW k \in Kills, Begin(k) PROVE KillTypeOK'
  BY <1>1 DEF Begin, KillTypeOK
<1>2. ASSUME NEW k \in Kills, Raises(k) PROVE KillTypeOK'
  BY <1>2 DEF Raises, KillTypeOK
<1>3. ASSUME NEW k \in Kills, CancelAll(k) PROVE KillTypeOK'
  <2>1. /\ kill' = [kill EXCEPT ![k].at = "read"]
        /\ closing' \subseteq closing
        /\ crossed' \subseteq crossed \cup {k}
    BY <1>3 DEF CancelAll, CrossedBy
  <2> QED BY <2>1 DEF KillTypeOK
<1>4. ASSUME NEW k \in Kills, ReadPositions(k) PROVE KillTypeOK'
  <2>1. PICK a \in Adapters :
          kill' = [kill EXCEPT ![k].at = "submit",
                               ![k].todo = ToClose(k, a),
                               ![k].failed = @ \/ (a = "ibkr" /\ Positions(a) # Nothing)]
    BY <1>4 DEF ReadPositions, ToClose
  <2>2. UNCHANGED <<closing, crossed>>
    BY <1>4 DEF ReadPositions
  <2>3. ToClose(k, a) \subseteq Against
    BY DEF Against, AccountTypeOK, ToClose
  <2>4. PICK f \in BOOLEAN, todo \in SUBSET Against :
          kill' = [kill EXCEPT ![k].at = "submit", ![k].todo = todo, ![k].failed = f]
    BY <2>1, <2>3
  <2> QED BY <2>2, <2>4 DEF KillTypeOK
<1>5. ASSUME NEW k \in Kills, SubmitClose(k) PROVE KillTypeOK'
  <2>1. PICK c \in kill[k].todo, taken \in BOOLEAN :
          /\ kill' = [kill EXCEPT ![k].todo = @ \ {c}, ![k].failed = @ \/ ~taken]
          /\ closing' = IF taken THEN closing \cup {c} ELSE closing
          /\ crossed' = crossed
    BY <1>5 DEF SubmitClose
  <2>2. c \in Against /\ kill[k].todo \ {c} \subseteq Against
    BY DEF KillTypeOK
  <2>3. closing' \subseteq Against
    BY <2>1, <2>2 DEF KillTypeOK
  <2>4. PICK f \in BOOLEAN, todo \in SUBSET Against :
          kill' = [kill EXCEPT ![k].todo = todo, ![k].failed = f]
    BY <2>1, <2>2
  <2>5. crossed' = crossed
    BY <2>1
  <2> QED BY <2>3, <2>4, <2>5 DEF KillTypeOK
<1>6. ASSUME NEW k \in Kills, Submitted(k) PROVE KillTypeOK'
  BY <1>6 DEF Submitted, KillTypeOK
<1>7. ASSUME NEW k \in Kills, Verify(k) PROVE KillTypeOK'
  <2>1. PICK f \in BOOLEAN : kill' = [kill EXCEPT ![k].at = "done", ![k].failed = f]
    BY <1>7 DEF Verify
  <2>2. UNCHANGED <<closing, crossed>>
    BY <1>7 DEF Verify
  <2> QED BY <2>1, <2>2 DEF KillTypeOK
<1>8. ASSUME NEW c \in closing, ExecuteClose(c) PROVE KillTypeOK'
  BY <1>8 DEF ExecuteClose, KillTypeOK
<1>9. CASE Trades
  <2>1. UNCHANGED <<kill, closing>> /\ (crossed' = crossed \/ crossed' \subseteq crossed \cup Kills)
    BY <1>9 DEF Trades, killVars
  <2> QED BY <2>1 DEF KillTypeOK
<1>10. CASE Reconciles \/ UNCHANGED vars
  BY <1>10 DEF Reconciles, vars, killVars, KillTypeOK
<1> QED BY <1>1, <1>2, <1>3, <1>4, <1>5, <1>6, <1>7, <1>8, <1>9, <1>10
    DEF Next, KillBegins, KillRuns, KillProceeds, Closes
-----------------------------------------------------------------------------
(* The kill switch *)

\* The adapters a kill is right with: those whose positions are typed.
Legible == Adapters \subseteq {"paper", "mt5"}

\* What they read is what is held.
LEMMA LegibleReads ==
  ASSUME Legible, NEW a \in Adapters, ~Refuses(a)
  PROVE  Typed(a) /\ a # "ibkr" /\ Positions(a) = held
  BY DEF Legible, Refuses, Typed, Positions, Hears

LEMMA KillInitial == Init => KillInv
<1> SUFFICES ASSUME Init PROVE KillInv
  OBVIOUS
<1>1. AccountTypeOK
  BY AccountTypesInit
<1>2. KillTypeOK /\ Todo /\ Owned /\ Owners
  BY DEF Init, KillInit, KillTypeOK, Todo, Owned, Owners, Begun
<1>3. \A k \in Kills : ~Clear(k)
  BY DEF Init, KillInit, Clear, Succeeded
<1> QED BY <1>1, <1>2, <1>3 DEF KillInv

\* A step that touches no order, position, close or kill.
LEMMA KillUnmoved ==
  ASSUME KillInv, UNCHANGED <<order, held, kill, closing, crossed>>
  PROVE  Todo' /\ Owned' /\ \A k \in Kills : Clear(k)' => Alone(k)'
<1>1. Todo' /\ Owned'
  BY DEF KillInv, Todo, Owned, Begun
<1>2. \A k \in Kills : (Clear(k)' <=> Clear(k)) /\ (Alone(k)' <=> Alone(k))
  BY DEF Clear, Alone, Succeeded, Working, Active, Intended, Flat, Nothing
<1> QED BY <1>1, <1>2 DEF KillInv

LEMMA TradesKeep ==
  ASSUME KillInv, Trades
  PROVE  Todo' /\ Owned' /\ \A k \in Kills : Clear(k)' => Alone(k)'
<1>1. ASSUME NEW o \in Orders, Submit(o), crossed' = crossed \cup {k \in Kills : Begun(k)},
             UNCHANGED <<kill, closing>>
      PROVE  Todo' /\ Owned' /\ \A k \in Kills : Clear(k)' => Alone(k)'
  <2>1. Todo' /\ Owned'
    BY <1>1 DEF KillInv, Todo, Owned, Begun
  <2>2. \A k \in Kills : ~Clear(k)'
    BY <1>1 DEF KillInv, Owned, Clear, Begun, Succeeded
  <2> QED BY <2>1, <2>2
<1>2. ASSUME NEW o \in Orders, Execute(o), UNCHANGED killVars
      PROVE  Todo' /\ Owned' /\ \A k \in Kills : Clear(k)' => Alone(k)'
  <2>1. Todo' /\ Owned'
    BY <1>2 DEF KillInv, Todo, Owned, Begun, killVars
  <2>2. \A k \in Kills : ~Alone(k)
    BY <1>2 DEF Execute, Alone, Working
  <2>3. \A k \in Kills : Clear(k)' <=> Clear(k)
    BY <1>2 DEF Clear, Succeeded, killVars
  <2> QED BY <2>1, <2>2, <2>3 DEF KillInv
<1>3. CASE UNCHANGED <<order, held, kill, closing, crossed>>
  BY <1>3, KillUnmoved
<1> QED BY <1>1, <1>2, <1>3 DEF Trades, Acknowledge, Report, LoseReport, Charge, Post, Outage,
    killVars

LEMMA BeginKeeps ==
  ASSUME KillInv, NEW k \in Kills, Begin(k)
  PROVE  Todo' /\ Owned' /\ \A j \in Kills : Clear(j)' => Alone(j)'
<1>1. /\ ~Begun(k) /\ UNCHANGED <<order, held, closing>>
      /\ kill' = [kill EXCEPT ![k].at = "cancel"]
      /\ crossed' = crossed \cup {j \in Kills \ {k} : Begun(j)}
  BY DEF Begin, accountVars
<1>2. /\ kill'[k].at = "cancel" /\ kill'[k].todo = {}
      /\ \A j \in Kills \ {k} : kill'[j] = kill[j]
  BY <1>1 DEF KillInv, KillTypeOK, Todo, Begun
<1>3. Todo' /\ Owned'
  <2>1. Todo'
    BY <1>2 DEF KillInv, Todo
  <2>2. \A c \in closing : c.kill \in Kills
    BY DEF KillInv, KillTypeOK, Against
  <2> QED BY <1>1, <1>2, <2>1, <2>2 DEF KillInv, Owned, Begun
<1>4. ASSUME NEW j \in Kills \ {k}, Clear(j)' PROVE FALSE
  <2>1. Begun(j)
    BY <1>1, <1>2, <1>4 DEF Clear, Succeeded, KillInv, Owned, Begun
  <2> QED BY <1>1, <1>4, <2>1 DEF Clear
<1>5. ASSUME Clear(k)' PROVE FALSE
  BY <1>1, <1>2, <1>5 DEF Clear, Succeeded, KillInv, Owned
<1> QED BY <1>3, <1>4, <1>5

LEMMA RaisesKeeps ==
  ASSUME KillInv, NEW k \in Kills, Raises(k)
  PROVE  Todo' /\ Owned' /\ \A j \in Kills : Clear(j)' => Alone(j)'
<1>1. /\ UNCHANGED <<order, held, closing, crossed>> /\ kill[k].at \in {"cancel", "read", "verify"}
      /\ kill'[k].at = "done" /\ kill'[k].failed /\ kill'[k].todo = kill[k].todo
      /\ \A j \in Kills \ {k} : kill'[j] = kill[j]
  BY DEF Raises, accountVars, KillInv, KillTypeOK
<1>2. kill[k].todo = {}
  BY <1>1 DEF KillInv, Todo
<1>3. Todo' /\ Owned'
  <2>1. \A c \in closing : c.kill \in Kills
    BY DEF KillInv, KillTypeOK, Against
  <2> QED BY <1>1, <1>2, <2>1 DEF KillInv, Todo, Owned, Begun
<1>4. \A j \in Kills : Clear(j)' => Clear(j)
  BY <1>1 DEF Clear, Succeeded
<1>5. \A j \in Kills : Alone(j) => Alone(j)'
  <2> SUFFICES ASSUME NEW j \in Kills, Alone(j) PROVE Alone(j)'
    OBVIOUS
  <2>1. /\ \A i \in Kills \ {j} : ~Active(i)'
        /\ Intended(j)' = Intended(j) /\ Working' = Working /\ kill'[j].todo = kill[j].todo
        /\ kill'[j].at = "read" => kill[j].at = "read"
        /\ Succeeded(j)' => Succeeded(j)
    BY <1>1 DEF Alone, Active, Intended, Working, Succeeded
  <2> QED BY <1>1, <2>1 DEF Alone, Flat, Nothing
<1> QED BY <1>3, <1>4, <1>5 DEF KillInv

LEMMA CancelKeeps ==
  ASSUME KillInv, NEW k \in Kills, CancelAll(k)
  PROVE  Todo' /\ Owned' /\ \A j \in Kills : Clear(j)' => Alone(j)'
<1>1. /\ held' = held /\ closing' \subseteq closing /\ kill[k].at = "cancel"
      /\ kill'[k].at = "read" /\ kill'[k].todo = kill[k].todo
      /\ \A j \in Kills \ {k} : kill'[j] = kill[j]
      /\ crossed' = IF closing' # {} \/ Working' # {} \/ (\E j \in Kills \ {k} : Active(j))
                      THEN crossed \cup {k} ELSE crossed \ {k}
  BY DEF CancelAll, CrossedBy, KillInv, KillTypeOK
<1>2. kill[k].todo = {}
  BY <1>1 DEF KillInv, Todo
<1>3. Todo' /\ Owned'
  <2>1. \A c \in closing : c.kill \in Kills
    BY DEF KillInv, KillTypeOK, Against
  <2> QED BY <1>1, <1>2, <2>1 DEF KillInv, Todo, Owned, Begun
<1>4. ASSUME NEW j \in Kills \ {k}, Clear(j)' PROVE FALSE
  <2>1. Clear(j)
    BY <1>1, <1>4 DEF Clear, Succeeded
  <2> QED BY <1>1, <2>1 DEF KillInv, Alone, Active
<1>5. ASSUME Clear(k)' PROVE Alone(k)'
  <2>1. closing' = {} /\ Working' = {} /\ \A j \in Kills \ {k} : ~Active(j)'
    BY <1>1, <1>5 DEF Clear, Active
  <2> QED BY <1>1, <1>2, <2>1 DEF Alone, Intended, Succeeded
<1> QED BY <1>3, <1>4, <1>5

LEMMA ReadKeeps ==
  ASSUME KillInv, Legible, NEW k \in Kills, ReadPositions(k)
  PROVE  Todo' /\ Owned' /\ \A j \in Kills : Clear(j)' => Alone(j)'
<1> DEFINE new == {[kill |-> k, instrument |-> i, lots |-> -held[i]] :
                      i \in {j \in Instruments : held[j] # 0}}
<1>1. /\ UNCHANGED <<order, held, closing, crossed>> /\ kill[k].at = "read"
      /\ kill'[k].at = "submit" /\ kill'[k].todo = new
      /\ \A j \in Kills \ {k} : kill'[j] = kill[j]
  <2>1. PICK a \in Adapters :
          /\ kill[k].at = "read" /\ ~Refuses(a)
          /\ kill' = [kill EXCEPT ![k].at = "submit",
                                  ![k].todo = ToClose(k, a),
                                  ![k].failed = @ \/ (a = "ibkr" /\ Positions(a) # Nothing)]
          /\ UNCHANGED <<closing, crossed, accountVars>>
    BY DEF ReadPositions, ToClose
  <2>2. ToClose(k, a) = new
    BY <2>1, LegibleReads DEF ToClose
  <2> QED BY <2>1, <2>2 DEF accountVars, KillInv, KillTypeOK
<1>2. \A c \in new : c.kill = k /\ c.lots = -held[c.instrument] /\ c.lots # 0
  BY DEF KillInv, AccountTypeOK
<1> HIDE DEF new
<1>3. Todo' /\ Owned'
  <2>1. \A c \in closing : c.kill \in Kills
    BY DEF KillInv, KillTypeOK, Against
  <2> QED BY <1>1, <2>1 DEF KillInv, Todo, Owned, Begun
<1>4. \A j \in Kills : Clear(j)' => Clear(j) /\ Alone(j)
  BY <1>1 DEF Clear, Succeeded, KillInv
<1>5. ASSUME NEW j \in Kills \ {k}, Clear(j)' PROVE FALSE
  BY <1>1, <1>4, <1>5 DEF Alone, Active
<1>6. ASSUME Clear(k)' PROVE Alone(k)'
  <2>1. Alone(k) /\ closing = {}
    BY <1>1, <1>4, <1>6 DEF Alone
  <2>2. \A j \in Kills \ {k} : ~Active(j)'
    BY <1>1, <2>1 DEF Alone, Active
  <2>3. Intended(k)' = new /\ Working' = {} /\ ~Succeeded(k)'
    BY <1>1, <2>1 DEF Alone, Intended, Working, Succeeded
  <2> QED BY <1>1, <1>2, <2>1, <2>2, <2>3 DEF Alone
<1> QED BY <1>3, <1>5, <1>6

LEMMA SubmitKeeps ==
  ASSUME KillInv, NEW k \in Kills, SubmitClose(k)
  PROVE  Todo' /\ Owned' /\ \A j \in Kills : Clear(j)' => Alone(j)'
<1>1. PICK c \in kill[k].todo, taken \in BOOLEAN :
        /\ kill[k].at = "submit"
        /\ kill' = [kill EXCEPT ![k].todo = @ \ {c}, ![k].failed = @ \/ ~taken]
        /\ closing' = IF taken THEN closing \cup {c} ELSE closing
        /\ UNCHANGED <<order, held, crossed>>
  BY DEF SubmitClose, accountVars
<1>2. /\ kill'[k].at = "submit" /\ kill'[k].todo = kill[k].todo \ {c}
      /\ \A j \in Kills \ {k} : kill'[j] = kill[j]
      /\ closing' \subseteq closing \cup {c}
  BY <1>1 DEF KillInv, KillTypeOK
<1>3. ASSUME NEW j \in Kills, Clear(j)' PROVE j = k /\ Alone(k)
  <2>1. CASE Clear(j)
    <3>1. Alone(j)
      BY <2>1 DEF KillInv
    <3> QED BY <1>1, <3>1 DEF Alone, Active
  <2>2. CASE ~Clear(j)
    \* Only the new close makes a kill clear, and its owner submits it.
    <3>1. j \notin crossed /\ j # k /\ c.kill = j /\ ~Succeeded(j)
      BY <1>1, <1>2, <1>3, <2>2 DEF Clear, Succeeded
    <3> QED BY <1>1, <3>1 DEF KillInv, Owners
  <2> QED BY <2>1, <2>2
<1>4. Todo' /\ Owned'
  <2>1. c.kill = k /\ \A d \in closing : d.kill \in Kills
    BY <1>1 DEF KillInv, Owners, KillTypeOK, Against
  <2>2. Todo'
    BY <1>2 DEF KillInv, Todo
  <2>3. \A d \in closing' : Begun(d.kill)'
    <3> SUFFICES ASSUME NEW d \in closing' PROVE kill'[d.kill].at # "idle"
      BY DEF Begun
    <3>1. CASE d.kill = k
      BY <1>2, <3>1
    <3>2. CASE d.kill # k
      <4>1. d \in closing /\ d.kill \in Kills \ {k}
        BY <1>2, <2>1, <3>2
      <4> QED BY <1>2, <4>1 DEF KillInv, Owned, Begun
    <3> QED BY <3>1, <3>2
  <2> QED BY <2>2, <2>3 DEF Owned
<1>5. ASSUME Clear(k)' PROVE Alone(k)'
  <2>1. Alone(k)
    BY <1>3, <1>5
  <2>2. Intended(k)' \subseteq Intended(k) /\ closing' \cap kill'[k].todo = {}
    BY <1>1, <1>2, <2>1 DEF Alone, Intended
  <2>3. (\A j \in Kills \ {k} : ~Active(j)') /\ Working' = {} /\ ~Succeeded(k)'
    BY <1>1, <1>2, <2>1 DEF Alone, Active, Working, Succeeded
  <2>4. \A d \in Intended(k)' : d.kill = k /\ d.lots = -held'[d.instrument] /\ d.lots # 0
    BY <1>1, <2>1, <2>2 DEF Alone
  <2> QED BY <1>2, <2>2, <2>3, <2>4 DEF Alone
<1> QED BY <1>3, <1>4, <1>5

LEMMA SubmittedKeeps ==
  ASSUME KillInv, NEW k \in Kills, Submitted(k)
  PROVE  Todo' /\ Owned' /\ \A j \in Kills : Clear(j)' => Alone(j)'
<1>1. /\ UNCHANGED <<order, held, closing, crossed>> /\ kill[k].at = "submit"
      /\ kill'[k].at = "verify" /\ kill'[k].todo = kill[k].todo /\ kill[k].todo = {}
      /\ \A j \in Kills \ {k} : kill'[j] = kill[j]
  BY DEF Submitted, accountVars, KillInv, KillTypeOK
<1>2. Todo' /\ Owned'
  <2>1. \A c \in closing : c.kill \in Kills
    BY DEF KillInv, KillTypeOK, Against
  <2> QED BY <1>1, <2>1 DEF KillInv, Todo, Owned, Begun
<1>3. \A j \in Kills : Clear(j)' => Clear(j)
  BY <1>1 DEF Clear, Succeeded
<1>4. ASSUME NEW j \in Kills, Alone(j) PROVE Alone(j)'
  <2>1. /\ \A i \in Kills \ {j} : ~Active(i)'
        /\ Intended(j)' = Intended(j) /\ Working' = Working /\ kill'[j].todo = kill[j].todo
    BY <1>1, <1>4 DEF Alone, Active, Intended, Working
  <2>2. (kill'[j].at = "read" => kill[j].at = "read") /\ (Succeeded(j)' => Succeeded(j))
    BY <1>1 DEF Succeeded
  <2> QED BY <1>1, <1>4, <2>1, <2>2 DEF Alone, Flat, Nothing
<1> QED BY <1>2, <1>3, <1>4 DEF KillInv

LEMMA VerifyKeeps ==
  ASSUME KillInv, Legible, NEW k \in Kills, Verify(k)
  PROVE  Todo' /\ Owned' /\ \A j \in Kills : Clear(j)' => Alone(j)'
<1>1. /\ UNCHANGED <<order, held, closing, crossed>> /\ kill[k].at = "verify"
      /\ kill'[k].at = "done" /\ kill'[k].todo = kill[k].todo
      /\ ~kill'[k].failed => Flat
      /\ \A j \in Kills \ {k} : kill'[j] = kill[j]
  <2>1. PICK a \in Adapters :
          /\ kill[k].at = "verify" /\ ~Refuses(a)
          /\ kill' = [kill EXCEPT ![k].at = "done",
                                  ![k].failed = @ \/ (Typed(a) /\ Positions(a) # Nothing)]
          /\ UNCHANGED <<closing, crossed, accountVars>>
    BY DEF Verify
  <2>2. Typed(a) /\ Positions(a) = held
    BY <2>1, LegibleReads
  <2> QED BY <2>1, <2>2 DEF Flat, accountVars, KillInv, KillTypeOK
<1>2. kill[k].todo = {}
  BY <1>1 DEF KillInv, Todo
<1>3. Todo' /\ Owned'
  <2>1. \A c \in closing : c.kill \in Kills
    BY DEF KillInv, KillTypeOK, Against
  <2> QED BY <1>1, <1>2, <2>1 DEF KillInv, Todo, Owned, Begun
<1>4. \A j \in Kills : Clear(j)' => Clear(j) /\ Alone(j)
  BY <1>1 DEF Clear, Succeeded, KillInv
<1>5. ASSUME NEW j \in Kills, Clear(j)' PROVE Alone(j)'
  <2>1. Alone(j)
    BY <1>4, <1>5
  <2>2. /\ \A i \in Kills \ {j} : ~Active(i)'
        /\ Intended(j)' = Intended(j) /\ Working' = Working /\ kill'[j].todo = kill[j].todo
    BY <1>1, <2>1 DEF Alone, Active, Intended, Working
  <2>3. kill'[j].at = "read" => kill[j].at = "read"
    BY <1>1
  <2>4. Succeeded(j)' => (Flat /\ closing = {})'
    <3>1. CASE j # k
      BY <1>1, <2>1, <3>1 DEF Alone, Succeeded, Flat, Nothing
    <3>2. CASE j = k
      <4> SUFFICES ASSUME Succeeded(k)' PROVE (Flat /\ closing = {})'
        BY <3>2
      <4>1. Flat
        BY <1>1 DEF Succeeded
      <4>2. closing = {}
        <5>1. \A c \in closing : c.lots = -held[c.instrument] /\ c.lots # 0 /\ c.instrument \in Instruments
          BY <2>1, <3>2 DEF Alone, Intended, KillInv, KillTypeOK, Against
        <5>2. \A i \in Instruments : held[i] = 0
          BY <4>1 DEF Flat, Nothing
        <5>3. \A x, y \in Int : y = -x /\ y # 0 => x # 0
          OBVIOUS
        <5>4. \A c \in closing : c.lots \in Int /\ held[c.instrument] \in Int
          BY <5>1 DEF KillInv, KillTypeOK, AccountTypeOK, Against
        <5> QED BY <5>1, <5>2, <5>3, <5>4
      <4> QED BY <1>1, <4>1, <4>2 DEF Flat, Nothing
    <3> QED BY <3>1, <3>2
  <2> QED BY <1>1, <2>1, <2>2, <2>3, <2>4 DEF Alone
<1> QED BY <1>3, <1>5

LEMMA CloseKeeps ==
  ASSUME KillInv, NEW c \in closing, ExecuteClose(c)
  PROVE  Todo' /\ Owned' /\ \A j \in Kills : Clear(j)' => Alone(j)'
<1>1. /\ closing' = closing \ {c} /\ held' = [held EXCEPT ![c.instrument] = @ + c.lots]
      /\ UNCHANGED <<kill, crossed, order>>
  BY DEF ExecuteClose
<1>2. Todo' /\ Owned'
  BY <1>1 DEF KillInv, Todo, Owned, Begun
<1>3. ASSUME NEW j \in Kills, Clear(j)' PROVE Alone(j)'
  <2>1. Alone(j)
    BY <1>1, <1>3 DEF Clear, Succeeded, KillInv
  <2>2. Intended(j)' = (closing \ {c}) \cup kill[j].todo /\ c \notin kill[j].todo
    BY <1>1, <2>1 DEF Alone, Intended
  <2>3. ASSUME NEW d \in Intended(j)'
        PROVE  d.kill = j /\ d.lots = -held'[d.instrument] /\ d.lots # 0
    <3>1. d \in Against /\ c \in Against /\ d # c /\ c \in Intended(j) /\ d \in Intended(j)
      BY <2>2 DEF Intended, KillInv, KillTypeOK
    <3>2. /\ d.kill = j /\ d.lots = -held[d.instrument] /\ d.lots # 0
          /\ c.kill = j /\ c.lots = -held[c.instrument]
      BY <2>1, <3>1 DEF Alone
    <3>3. d.instrument # c.instrument
      BY <3>1, <3>2 DEF Against
    <3>4. held'[d.instrument] = held[d.instrument]
      BY <1>1, <3>1, <3>3 DEF KillInv, AccountTypeOK, Against
    <3> QED BY <3>2, <3>4
  <2>4. (\A i \in Kills \ {j} : ~Active(i)') /\ Working' = {} /\ closing' \cap kill'[j].todo = {}
    BY <1>1, <2>1 DEF Alone, Active, Working
  <2>5. closing # {} /\ kill'[j].at # "read" /\ ~Succeeded(j)'
    BY <1>1, <2>1 DEF Alone, Succeeded
  <2> QED BY <2>3, <2>4, <2>5 DEF Alone
<1> QED BY <1>2, <1>3

LEMMA OwnersKeep ==
  ASSUME KillInv, [Next]_vars
  PROVE  Owners'
<1>0. KillTypeOK /\ Owners
  BY DEF KillInv
<1>1. ASSUME NEW k \in Kills, kill'[k].todo \subseteq kill[k].todo,
             \A j \in Kills \ {k} : kill'[j] = kill[j]
      PROVE  Owners'
  BY <1>0, <1>1 DEF Owners
<1>2. ASSUME NEW k \in Kills, Begin(k) \/ Raises(k) \/ CancelAll(k) \/ Submitted(k) \/ Verify(k)
      PROVE  Owners'
  <2>1. kill'[k].todo \subseteq kill[k].todo /\ \A j \in Kills \ {k} : kill'[j] = kill[j]
    BY <1>0, <1>2 DEF Begin, Raises, CancelAll, Submitted, Verify, KillTypeOK
  <2> QED BY <1>1, <2>1
<1>3. ASSUME NEW k \in Kills, SubmitClose(k) PROVE Owners'
  <2>1. kill'[k].todo \subseteq kill[k].todo /\ \A j \in Kills \ {k} : kill'[j] = kill[j]
    BY <1>0, <1>3 DEF SubmitClose, KillTypeOK
  <2> QED BY <1>1, <2>1
<1>4. ASSUME NEW k \in Kills, ReadPositions(k) PROVE Owners'
  <2>1. PICK a \in Adapters :
          kill' = [kill EXCEPT ![k].at = "submit",
                               ![k].todo = ToClose(k, a),
                               ![k].failed = @ \/ (a = "ibkr" /\ Positions(a) # Nothing)]
    BY <1>4 DEF ReadPositions, ToClose
  <2>2. \A c \in ToClose(k, a) : c.kill = k
    BY DEF ToClose
  <2> QED BY <1>0, <2>1, <2>2 DEF Owners, KillTypeOK
<1>5. CASE UNCHANGED kill
  BY <1>0, <1>5 DEF Owners
<1> QED BY <1>2, <1>3, <1>4, <1>5 DEF Next, Trades, Reconciles, KillBegins, KillRuns, KillProceeds,
    Closes, ExecuteClose, vars, killVars

\* A kill has the account to itself as long as nobody else trades on it.
THEOREM KillInvariance ==
  ASSUME Legible
  PROVE  Spec => []KillInv
<1>1. KillInv /\ [Next]_vars => KillInv'
  <2> SUFFICES ASSUME KillInv, [Next]_vars PROVE KillInv'
    OBVIOUS
  <2>1. AccountTypeOK' /\ KillTypeOK'
    BY AccountTypesStep, KillTypesStep DEF KillInv
  <2>2. Owners'
    BY OwnersKeep
  <2>3. Todo' /\ Owned' /\ \A k \in Kills : Clear(k)' => Alone(k)'
    <3>1. CASE Trades
      BY <3>1, TradesKeep
    <3>2. CASE KillBegins
      BY <3>2, BeginKeeps DEF KillBegins
    <3>3. CASE KillRuns
      BY <3>3, RaisesKeeps, CancelKeeps, ReadKeeps, SubmitKeeps, SubmittedKeeps, VerifyKeeps
         DEF KillRuns, KillProceeds
    <3>4. CASE Closes
      BY <3>4, CloseKeeps DEF Closes
    <3>5. CASE Reconciles \/ UNCHANGED vars
      <4>1. UNCHANGED <<order, held, kill, closing, crossed>>
        BY <3>5 DEF Reconciles, vars, accountVars, killVars
      <4> QED BY <4>1, KillUnmoved
    <3> QED BY <3>1, <3>2, <3>3, <3>4, <3>5 DEF Next
  <2> QED BY <2>1, <2>2, <2>3 DEF KillInv
<1> QED BY KillInitial, <1>1, PTL DEF Spec

\* A kill that reports success left nothing at the broker, on any account whose
\* adapter gives typed positions, paper's and mt5's (kill.py:53-117).
THEOREM KillIsFlat ==
  ASSUME Legible
  PROVE  Spec => []KillLeavesFlat
<1>1. KillInv => KillLeavesFlat
  BY DEF KillInv, Clear, Alone, KillLeavesFlat
<1> QED BY KillInvariance, <1>1, PTL

\* What kills have open closes, and no more, with the same adapters (kill.py:53-95).
THEOREM KillCloses ==
  ASSUME Legible
  PROVE  Spec => []KillOnlyCloses
<1>1. KillInv => KillOnlyCloses
  BY DEF KillInv, KillTypeOK, Against, Clear, Alone, Intended, KillOnlyCloses
<1> QED BY KillInvariance, <1>1, PTL
-----------------------------------------------------------------------------
(* The worker's loops *)

WorkerTypeOK ==
  /\ loop \in [Loops -> {"new", "ready", "pass", "callback", "sleep", "done"}]
  /\ task \in Loops \cup {None}
  /\ stopper \in [at : {"idle", "waiting", "timed_out", "clearing"}, on : Loops \cup {None}]
  /\ overlapped \in BOOLEAN

\* Unless a start came between, a stop is about the worker's task all the time,
\* and that task is done once the timeout has passed.
Stopping ==
  ~overlapped =>
    /\ stopper.at # "idle" => task = stopper.on /\ stopper.on \in Loops
    /\ stopper.at \in {"timed_out", "clearing"} => loop[stopper.on] = "done"

WorkerInv == WorkerTypeOK /\ Stopping /\ OneLoop

LEMMA WorkerInitial == Init => WorkerInv
<1> SUFFICES ASSUME Init PROVE WorkerInv
  OBVIOUS
<1>1. /\ loop = [l \in Loops |-> "new"] /\ task = None /\ overlapped = FALSE
      /\ stopper = [at |-> "idle", on |-> None]
  BY DEF Init, ReconciliationInit
<1>2. overlapped \in BOOLEAN
  BY <1>1, Zenon
<1>3. WorkerTypeOK
  BY <1>1, <1>2 DEF WorkerTypeOK
<1>4. Stopping /\ OneLoop
  BY <1>1 DEF Stopping, OneLoop, Live
<1> QED BY <1>3, <1>4 DEF WorkerInv

\* A step of the loops that starts none, and leaves task and stop alone.
LEMMA LoopsGoOn ==
  ASSUME WorkerInv, WorkerTypeOK', UNCHANGED <<task, stopper, overlapped>>,
         \A l \in Loops : Live(l)' => Live(l),
         \A l \in Loops : loop[l] = "done" => loop'[l] = "done"
  PROVE  WorkerInv'
<1>1. Stopping'
  BY DEF WorkerInv, Stopping
<1>2. OneLoop'
  BY DEF WorkerInv, OneLoop
<1> QED BY <1>1, <1>2 DEF WorkerInv

LEMMA WorkerStep == WorkerInv /\ [Next]_vars => WorkerInv'
<1> SUFFICES ASSUME WorkerInv, [Next]_vars PROVE WorkerInv'
  OBVIOUS
<1>0. WorkerTypeOK /\ Stopping /\ OneLoop /\ None \notin Loops
  BY ReconciliationAssumption DEF WorkerInv
<1>1. ASSUME NEW l \in Loops, LoopStep(l) PROVE WorkerInv'
  <2>1. UNCHANGED <<task, stopper, overlapped>>
    BY <1>1 DEF LoopStep, Turn, InPass, Ingest, CalledBack, workerVars
  <2>2. CASE InPass(l)
    <3>1. loop' = loop
      BY <2>2 DEF InPass, workerVars
    <3> QED BY <1>0, <2>1, <3>1, LoopsGoOn DEF WorkerTypeOK, Live
  <2>3. CASE Turn(l) \/ Ingest(l) \/ CalledBack(l)
    <3>1. PICK next \in {"done", "pass", "sleep", "callback"} :
            /\ loop' = [loop EXCEPT ![l] = next]
            /\ loop[l] \in {"ready", "sleep", "pass", "callback"}
      BY <2>3 DEF Turn, Ingest, CalledBack
    <3> QED BY <1>0, <2>1, <3>1, LoopsGoOn DEF WorkerTypeOK, Live
  <2> QED BY <1>1, <2>2, <2>3 DEF LoopStep
<1>2. ASSUME NEW l \in Loops, Start(l) PROVE WorkerInv'
  <2>1. /\ loop' = [loop EXCEPT ![l] = "ready"] /\ task' = l /\ stopper' = stopper
        /\ overlapped' = (overlapped \/ stopper.at # "idle") /\ ~Running
    BY <1>2 DEF Start
  <2>2. WorkerTypeOK'
    BY <1>0, <2>1 DEF WorkerTypeOK
  <2>3. Stopping'
    BY <2>1 DEF Stopping
  <2>4. OneLoop'
    <3> SUFFICES ASSUME ~overlapped', NEW m \in Loops, Live(m)' PROVE task' = m
      BY DEF OneLoop
    <3>1. ~Live(m)
      BY <1>0, <2>1 DEF OneLoop, Running
    <3> QED BY <1>0, <2>1, <3>1 DEF WorkerTypeOK, Live
  <2> QED BY <2>2, <2>3, <2>4 DEF WorkerInv
<1>3. CASE Stop
  <2>1. /\ task # None /\ stopper' = [at |-> "waiting", on |-> task]
        /\ UNCHANGED <<loop, task, overlapped>>
    BY <1>3 DEF Stop, Running
  <2>2. WorkerTypeOK' /\ Stopping'
    BY <1>0, <2>1 DEF WorkerTypeOK, Stopping
  <2> QED BY <1>0, <2>1, <2>2 DEF WorkerInv, OneLoop, Live
<1>4. ASSUME StopReturns \/ StopClears PROVE WorkerInv'
  <2>1. /\ task' = None /\ stopper' = [at |-> "idle", on |-> None]
        /\ UNCHANGED <<loop, overlapped>>
        /\ ~overlapped => loop[task] = "done"
    BY <1>0, <1>4 DEF StopReturns, StopClears, StopEnds, Stopping
  <2>2. WorkerTypeOK' /\ Stopping'
    BY <1>0, <2>1 DEF WorkerTypeOK, Stopping
  <2>3. OneLoop'
    BY <1>0, <2>1 DEF OneLoop, Live
  <2> QED BY <2>2, <2>3 DEF WorkerInv
<1>5. CASE StopTimesOut
  <2>1. /\ loop' = [loop EXCEPT ![stopper.on] = "done"]
        /\ stopper' = [stopper EXCEPT !.at = "timed_out"]
        /\ stopper.at = "waiting" /\ UNCHANGED <<task, overlapped>>
    BY <1>5 DEF StopTimesOut, Cancelled
  <2>2. WorkerTypeOK' /\ Stopping'
    BY <1>0, <2>1 DEF WorkerTypeOK, Stopping
  <2>3. OneLoop'
    BY <1>0, <2>1 DEF WorkerTypeOK, OneLoop, Live
  <2> QED BY <2>2, <2>3 DEF WorkerInv
<1>6. CASE StopCancels
  <2>1. /\ loop' = loop \/ (Running /\ loop' = [loop EXCEPT ![task] = "done"])
        /\ stopper' = [stopper EXCEPT !.at = "clearing"]
        /\ stopper.at = "timed_out" /\ UNCHANGED <<task, overlapped>>
    BY <1>6 DEF StopCancels, Cancelled
  <2>2. task \in Loops \/ loop' = loop
    BY <1>0, <2>1 DEF WorkerTypeOK, Running
  <2>3. WorkerTypeOK' /\ Stopping'
    BY <1>0, <2>1, <2>2 DEF WorkerTypeOK, Stopping
  <2>4. OneLoop'
    BY <1>0, <2>1, <2>2 DEF WorkerTypeOK, OneLoop, Live
  <2> QED BY <2>3, <2>4 DEF WorkerInv
<1>7. CASE UNCHANGED workerVars
  <2>1. UNCHANGED <<loop, task, stopper, overlapped>>
    BY <1>7 DEF workerVars
  <2> QED BY <1>0, <2>1 DEF WorkerInv, WorkerTypeOK, Stopping, OneLoop, Live
<1>8. CASE Reconciles
  BY <1>1, <1>2, <1>3, <1>4, <1>5, <1>6, <1>7, <1>8
     DEF Reconciles, ReconciliationStep, StopStep, RunOnce, InOnce
<1>9. CASE Trades \/ KillBegins \/ KillRuns \/ Closes \/ UNCHANGED vars
  BY <1>7, <1>9 DEF Trades, KillBegins, KillRuns, Closes, vars, reconciliationVars
<1> QED BY <1>8, <1>9 DEF Next

\* One loop at most, for any number of starts and stops, unless a start came
\* while a stop was waiting (reconciliation_worker.py:62-84).
THEOREM LoopIsAlone == Spec => []OneLoop
<1>1. WorkerInv => OneLoop
  BY DEF WorkerInv
<1> QED BY WorkerInitial, WorkerStep, <1>1, PTL DEF Spec

-----------------------------------------------------------------------------
(* The reconciliation engine *)

\* What a pass may carry: the broker's positions, orders or cash.
Replies == {None} \cup [Instruments -> Int] \cup (SUBSET Orders) \cup Int

PassStates == [at : Parts \cup {"idle"}, call : {"open", "answered", "raised"},
               answer : Replies, found : SUBSET {"recoverable", "fatal"}]

PassTypes ==
  /\ pass \in [Passes -> PassStates]
  /\ unsettled \in [Passes -> 0..Tolerance + 1]
  /\ blocked \in BOOLEAN /\ stray \in BOOLEAN /\ crowded \in BOOLEAN

\* The fills of an instrument that the OMS has not heard of, and their lots.
Owed(i) == {o \in unreported : InstrumentOf[o] = i}
Due(i) == SumFunctionOnSet(LotsOf, Owed(i))

\* As long as the books missed nothing, they lack what is under way.
BooksAreDue == stray \/ \A i \in Instruments : held[i] = booked[i] + Due(i)

\* Two figures differ by what came in between, or more came than is tolerated.
Near(x, y, n) == n > Tolerance \/ Distance(x, y) <= n

\* An answer is near the books it will be compared with.
AnswerNear(p, n) ==
  /\ p.at = "positions" /\ p.call = "answered" =>
       /\ p.answer \in [Instruments -> Int]
       /\ stray \/ \A i \in Instruments : p.answer[i] # 0 => Near(p.answer[i], booked[i], n)
  /\ p.at = "cash" /\ p.call = "answered" =>
       p.answer \in Int /\ (p.answer > 0 => Near(p.answer, balance, n))

\* What a pass found is earned.
FoundEarned(p) == "fatal" \in p.found => stray \/ crowded

EarnedInv ==
  /\ AccountTypeOK /\ KillTypeOK /\ PassTypes
  /\ IsFiniteSet(unreported) /\ BooksAreDue /\ BlockIsEarned
  /\ \A a \in Passes : AnswerNear(pass[a], unsettled[a]) /\ FoundEarned(pass[a])

\* A record of a task at rest is one, and has found nothing.
LEMMA RestTypes ==
  /\ Idle \in PassStates /\ Idle.found = {} /\ Idle.call = "open"
  /\ \A part \in Parts, found \in SUBSET {"recoverable", "fatal"} :
       /\ At(part, found) \in PassStates
       /\ At(part, found).found = found /\ At(part, found).call = "open"
<1>1. None \in Replies
  BY DEF Replies
<1> QED
  BY <1>1 DEF Idle, PassStates, At, Parts

\* Nothing has been asked yet, and the books are even.
LEMMA EarnedInitial == Init => EarnedInv
<1> SUFFICES ASSUME Init PROVE EarnedInv
  OBVIOUS
<1>1. AccountTypeOK /\ KillTypeOK
  BY KillInitial DEF KillInv
<1>2. /\ unreported = {} /\ held = Nothing /\ booked = Nothing
      /\ pass = [a \in Passes |-> Idle] /\ unsettled = [a \in Passes |-> 0]
      /\ blocked = FALSE /\ stray = FALSE /\ crowded = FALSE
  BY DEF Init, AccountInit, ReconciliationInit
<1>3. blocked \in BOOLEAN /\ stray \in BOOLEAN /\ crowded \in BOOLEAN /\ BlockIsEarned
  BY <1>2, Zenon DEF BlockIsEarned
<1>4. PassTypes
  BY <1>2, <1>3, RestTypes, ReconciliationAssumption DEF PassTypes
<1>5. BooksAreDue
  <2>1. \A i \in Instruments : Due(i) = 0
    <3>1. \A i \in Instruments : Owed(i) = {}
      BY <1>2 DEF Owed
    <3> QED
      BY <3>1, SumOverNone DEF Due
  <2> QED
    BY <1>2, <2>1 DEF BooksAreDue, Nothing
<1>6. \A a \in Passes : AnswerNear(pass[a], unsettled[a]) /\ FoundEarned(pass[a])
  BY <1>2, RestTypes DEF AnswerNear, FoundEarned
<1> QED
  BY <1>1, <1>2, <1>3, <1>4, <1>5, <1>6, FS_EmptySet DEF EarnedInv

\* Sums over what is under way.
LEMMA DueTypes ==
  ASSUME AccountTypeOK, IsFiniteSet(unreported), NEW i \in Instruments
  PROVE  /\ unreported \subseteq Orders
         /\ \A o \in Orders : LotsOf[o] \in Int /\ Lots(o) \in Nat
                              /\ -Lots(o) <= LotsOf[o] /\ LotsOf[o] <= Lots(o)
         /\ IsFiniteSet(Owed(i)) /\ Due(i) \in Int /\ UnderWay \in Nat
         /\ -UnderWay <= Due(i) /\ Due(i) <= UnderWay
<1> DEFINE g == [o \in Orders |-> Lots(o)]
<1>1. unreported \subseteq Orders
  BY DEF AccountTypeOK
<1>2. \A o \in Orders : LotsOf[o] \in Int
  BY AccountAssumption
<1>3. \A o \in Orders : Lots(o) \in Nat /\ -Lots(o) <= LotsOf[o] /\ LotsOf[o] <= Lots(o)
  BY <1>2 DEF Lots, Distance
<1>4. IsFiniteSet(Owed(i)) /\ Owed(i) \in SUBSET unreported
  BY FS_Subset DEF Owed
<1>5. \A o \in Orders : g[o] = Lots(o)
  OBVIOUS
<1>6. UnderWay = SumFunctionOnSet(g, unreported)
  BY DEF UnderWay
<1> HIDE DEF g
<1>7. Bounded(LotsOf, g, unreported)
  BY <1>1, <1>2, <1>3, <1>5 DEF Bounded
<1>8. /\ -UnderWay <= Due(i) /\ Due(i) <= UnderWay
  BY <1>4, <1>6, <1>7, SumWithin DEF Due
<1>9. UnderWay \in Nat
  BY <1>1, <1>3, <1>5, <1>6, SumOfNats
<1>10. Due(i) \in Int
  BY <1>1, <1>2, <1>4, SumOfInts DEF Due
<1> QED
  BY <1>1, <1>2, <1>3, <1>4, <1>8, <1>9, <1>10

\* The engine sees no part of such a step.
EngineRests ==
  UNCHANGED <<booked, balance, pass, unsettled, blocked, crowded, unreported>>

\* It keeps the invariant, and may make the books miss something.
LEMMA RestsKeepEarned ==
  ASSUME EarnedInv, AccountTypeOK', KillTypeOK', EngineRests,
         (stray' = stray /\ held' = held) \/ stray' = TRUE
  PROVE  EarnedInv'
<1>1. stray' \in BOOLEAN /\ (stray => stray')
  BY DEF EarnedInv, PassTypes
<1>2. PassTypes'
  BY <1>1 DEF EarnedInv, EngineRests, PassTypes
<1>3. BooksAreDue'
  BY DEF EarnedInv, EngineRests, BooksAreDue, Due, Owed
<1>4. BlockIsEarned'
  BY <1>1 DEF EarnedInv, EngineRests, BlockIsEarned
<1>5. \A a \in Passes : AnswerNear(pass[a], unsettled[a])' /\ FoundEarned(pass[a])'
  BY <1>1 DEF EarnedInv, EngineRests, AnswerNear, FoundEarned
<1> QED
  BY <1>2, <1>3, <1>4, <1>5 DEF EarnedInv, EngineRests

\* An execution adds to what the books are due.
LEMMA ExecuteKeepsEarned ==
  ASSUME EarnedInv, AccountTypeOK', KillTypeOK', NEW o \in Orders, Execute(o),
         UNCHANGED <<reconciliationVars, killVars>>
  PROVE  EarnedInv'
<1> DEFINE at == InstrumentOf[o]
           n == LotsOf[o]
<1>1. /\ at \in Instruments /\ n \in Int /\ o \notin unreported
      /\ unreported' = unreported \cup {o}
      /\ held' = [held EXCEPT ![at] = @ + n]
      /\ held \in [Instruments -> Int] /\ booked \in [Instruments -> Int]
      /\ UNCHANGED <<booked, balance, pass, unsettled, blocked, stray, crowded>>
  BY AccountAssumption
  DEF EarnedInv, AccountTypeOK, Execute, reconciliationVars, engineVars
<1>2. IsFiniteSet(unreported')
  BY <1>1, FS_AddElement DEF EarnedInv
<1>3. ASSUME NEW i \in Instruments
      PROVE  Due(i)' = Due(i) + (IF i = at THEN n ELSE 0)
  <2> DEFINE S == Owed(i)
             T == Owed(i)'
  <2>1. IsFiniteSet(S) /\ Due(i) \in Int /\ \A p \in S : LotsOf[p] \in Int
    BY DueTypes DEF EarnedInv, Owed
  <2>2. Due(i)' = SumFunctionOnSet(LotsOf, T) /\ Due(i) = SumFunctionOnSet(LotsOf, S)
    BY DEF Due
  <2>3. CASE i = at
    <3>1. T = S \cup {o} /\ o \notin S
      BY <1>1, <2>3 DEF Owed
    <3> HIDE DEF S, T
    <3>2. DifferAt(o, LotsOf, S, LotsOf, T)
      BY <1>1, <2>1, <3>1 DEF DifferAt
    <3>3. SumFunctionOnSet(LotsOf, T) = SumFunctionOnSet(LotsOf, S) + LotsOf[o]
      BY <3>1, <3>2, SumMoves
    <3> QED
      BY <2>2, <2>3, <3>3
  <2>4. CASE i # at
    <3>1. T = S
      BY <1>1, <2>4 DEF Owed
    <3> QED
      BY <2>1, <2>2, <2>4, <3>1
  <2> QED
    BY <2>3, <2>4
<1>4. BooksAreDue'
  <2> SUFFICES ASSUME ~ stray, NEW i \in Instruments PROVE held'[i] = booked'[i] + Due(i)'
    BY <1>1 DEF BooksAreDue
  <2>1. held[i] = booked[i] + Due(i)
    BY DEF EarnedInv, BooksAreDue
  <2> DEFINE d == Due(i)
             e == Due(i)'
  <2>2. d \in Int /\ e = d + (IF i = at THEN n ELSE 0)
    BY <1>3, DueTypes DEF EarnedInv
  <2> HIDE DEF d, e
  <2>3. held'[i] = booked[i] + e
    BY <1>1, <2>1, <2>2 DEF d
  <2> QED
    BY <1>1, <2>3 DEF e
<1>5. PassTypes' /\ BlockIsEarned'
  BY <1>1 DEF EarnedInv, PassTypes, BlockIsEarned
<1>6. \A a \in Passes : AnswerNear(pass[a], unsettled[a])' /\ FoundEarned(pass[a])'
  BY <1>1 DEF EarnedInv, AnswerNear, FoundEarned
<1> QED
  BY <1>2, <1>4, <1>5, <1>6 DEF EarnedInv

\* What was near stays near when a change of n is counted, saturated or not.
LEMMA NearMoves ==
  ASSUME NEW x \in Int, NEW y \in Int, NEW z \in Int, NEW n \in Nat, NEW d \in Nat,
         Near(x, y, n), Distance(y, z) <= d
  PROVE  Near(x, z, Saturated(n + d))
<1>1. Tolerance \in Nat
  BY ReconciliationAssumption
<1> QED
  BY <1>1 DEF Near, Distance, Saturated

\* Two figures no further apart than m are near when m is counted.
LEMMA NearSaturated ==
  ASSUME NEW x \in Int, NEW y \in Int, NEW m \in Int, Distance(x, y) <= m
  PROVE  Near(x, y, Saturated(m))
<1>1. Tolerance \in Nat
  BY ReconciliationAssumption
<1> QED
  BY <1>1 DEF Near, Distance, Saturated

\* Counted changes stay in range.
LEMMA SaturatedType ==
  ASSUME NEW m \in Nat
  PROVE  Saturated(m) \in 0..Tolerance + 1
<1>1. Tolerance \in Nat
  BY ReconciliationAssumption
<1> QED
  BY <1>1 DEF Saturated

\* A counted change leaves the other passes as they were.
LEMMA UnsettleTypes ==
  ASSUME PassTypes, NEW part, NEW n \in Nat, Unsettle(part, n)
  PROVE  /\ unsettled' \in [Passes -> 0..Tolerance + 1]
         /\ \A a \in Passes :
              /\ unsettled[a] \in Nat
              /\ unsettled'[a] = IF pass[a].at = part /\ pass[a].call # "open"
                                   THEN Saturated(unsettled[a] + n) ELSE unsettled[a]
<1>1. \A a \in Passes : unsettled[a] \in 0..Tolerance + 1 /\ unsettled[a] \in Nat
  BY ReconciliationAssumption DEF PassTypes
<1>2. \A a \in Passes :
        unsettled'[a] = IF pass[a].at = part /\ pass[a].call # "open"
                          THEN Saturated(unsettled[a] + n) ELSE unsettled[a]
  BY DEF Unsettle, Answered
<1>3. \A a \in Passes : Saturated(unsettled[a] + n) \in 0..Tolerance + 1
  BY <1>1, SaturatedType
<1>4. unsettled' \in [Passes -> 0..Tolerance + 1]
  BY <1>1, <1>3 DEF Unsettle
<1> QED
  BY <1>1, <1>2, <1>4

\* A report moves the books to what they are due, and every answer that waits
\* for them counts it.
LEMMA ReportKeepsEarned ==
  ASSUME EarnedInv, AccountTypeOK', KillTypeOK', NEW o \in Orders, Report(o),
         Unsettle("positions", Lots(o)),
         UNCHANGED <<pass, blocked, crowded, workerVars, stray, killVars>>
  PROVE  EarnedInv'
<1> DEFINE at == InstrumentOf[o]
           n == LotsOf[o]
<1>1. /\ at \in Instruments /\ n \in Int /\ o \in unreported
      /\ unreported' = unreported \ {o}
      /\ booked' = [booked EXCEPT ![at] = @ + n]
      /\ held \in [Instruments -> Int] /\ booked \in [Instruments -> Int]
      /\ UNCHANGED <<held, balance, pass, blocked, stray, crowded>>
  BY AccountAssumption DEF EarnedInv, AccountTypeOK, Report
<1>2. IsFiniteSet(unreported')
  BY <1>1, FS_RemoveElement DEF EarnedInv
<1>3. ASSUME NEW i \in Instruments
      PROVE  Due(i) = Due(i)' + (IF i = at THEN n ELSE 0) /\ Due(i)' \in Int
  <2> DEFINE S == Owed(i)
             T == Owed(i)'
  <2>1. IsFiniteSet(S) /\ Due(i) \in Int /\ \A p \in S : LotsOf[p] \in Int
    BY DueTypes DEF EarnedInv, Owed
  <2>2. Due(i)' = SumFunctionOnSet(LotsOf, T) /\ Due(i) = SumFunctionOnSet(LotsOf, S)
    BY DEF Due
  <2>3. CASE i = at
    <3>1. T = S \ {o} /\ o \in S
      BY <1>1, <2>3 DEF Owed
    <3> HIDE DEF S, T
    <3>2. SumFunctionOnSet(LotsOf, S) = LotsOf[o] + SumFunctionOnSet(LotsOf, S \ {o})
      BY <2>1, <3>1, SumWithout
    <3>3. IsFiniteSet(S \ {o}) /\ \A p \in S \ {o} : LotsOf[p] \in Int
      BY <2>1, FS_Subset
    <3>4. SumFunctionOnSet(LotsOf, T) \in Int
      BY <3>1, <3>3, SumOfInts
    <3> QED
      BY <1>1, <2>2, <2>3, <3>1, <3>2, <3>4
  <2>4. CASE i # at
    <3>1. T = S
      BY <1>1, <2>4 DEF Owed
    <3> QED
      BY <2>1, <2>2, <2>4, <3>1
  <2> QED
    BY <2>3, <2>4
<1>4. BooksAreDue'
  <2> SUFFICES ASSUME ~ stray, NEW i \in Instruments PROVE held'[i] = booked'[i] + Due(i)'
    BY <1>1 DEF BooksAreDue
  <2>1. held[i] = booked[i] + Due(i)
    BY DEF EarnedInv, BooksAreDue
  <2> DEFINE d == Due(i)
             e == Due(i)'
  <2>2. e \in Int /\ d = e + (IF i = at THEN n ELSE 0)
    BY <1>3
  <2> HIDE DEF d, e
  <2>3. held[i] = booked'[i] + e
    BY <1>1, <2>1, <2>2 DEF d
  <2> QED
    BY <1>1, <2>3 DEF e
<1>5. Lots(o) \in Nat /\ -Lots(o) <= n /\ n <= Lots(o)
  BY <1>1, DueTypes DEF EarnedInv
<1>6. /\ unsettled' \in [Passes -> 0..Tolerance + 1]
      /\ \A a \in Passes :
           /\ unsettled[a] \in Nat
           /\ unsettled'[a] = IF pass[a].at = "positions" /\ pass[a].call # "open"
                                THEN Saturated(unsettled[a] + Lots(o)) ELSE unsettled[a]
  BY <1>5, UnsettleTypes DEF EarnedInv
<1>7. PassTypes' /\ BlockIsEarned'
  BY <1>1, <1>6 DEF EarnedInv, PassTypes, BlockIsEarned
<1>8. ASSUME NEW a \in Passes PROVE AnswerNear(pass[a], unsettled[a])' /\ FoundEarned(pass[a])'
  <2>1. AnswerNear(pass[a], unsettled[a]) /\ FoundEarned(pass[a])
    BY DEF EarnedInv
  <2>2. FoundEarned(pass[a])'
    BY <1>1, <2>1 DEF FoundEarned
  <2>3. ASSUME pass[a].at = "positions", pass[a].call = "answered"
        PROVE  /\ pass[a].answer \in [Instruments -> Int]
               /\ stray \/ \A i \in Instruments : pass[a].answer[i] # 0 =>
                              Near(pass[a].answer[i], booked'[i], unsettled'[a])
    <3>1. pass[a].answer \in [Instruments -> Int]
      BY <2>1, <2>3 DEF AnswerNear
    <3>2. ASSUME ~ stray, NEW i \in Instruments, pass[a].answer[i] # 0
          PROVE  Near(pass[a].answer[i], booked'[i], unsettled'[a])
      <4>1. Near(pass[a].answer[i], booked[i], unsettled[a])
        BY <2>1, <2>3, <3>2 DEF AnswerNear
      <4>2. /\ pass[a].answer[i] \in Int /\ booked[i] \in Int /\ booked'[i] \in Int
            /\ booked'[i] = booked[i] + (IF i = at THEN n ELSE 0)
        BY <1>1, <3>1
      <4>3. Distance(booked[i], booked'[i]) <= Lots(o)
        BY <1>1, <1>5, <4>2 DEF Distance
      <4>4. unsettled'[a] = Saturated(unsettled[a] + Lots(o)) /\ unsettled[a] \in Nat
        BY <1>6, <2>3
      <4> QED
        BY <1>5, <4>1, <4>2, <4>3, <4>4, NearMoves
    <3> QED
      BY <3>1, <3>2
  <2>4. AnswerNear(pass[a], unsettled[a])'
    <3>1. pass[a].at = "cash" => unsettled'[a] = unsettled[a]
      BY <1>6
    <3> QED
      BY <1>1, <2>1, <2>3, <3>1 DEF AnswerNear
  <2> QED
    BY <2>2, <2>4
<1> QED
  BY <1>2, <1>4, <1>7, <1>8 DEF EarnedInv

\* So does a fee that reaches the ledger.
LEMMA PostKeepsEarned ==
  ASSUME EarnedInv, AccountTypeOK', KillTypeOK', Post, Unsettle("cash", 1),
         UNCHANGED <<pass, blocked, crowded, workerVars, stray, killVars>>
  PROVE  EarnedInv'
<1>1. /\ balance \in Int /\ balance' = balance - 1
      /\ UNCHANGED <<unreported, held, booked, pass, blocked, stray, crowded>>
  BY AccountAssumption DEF EarnedInv, AccountTypeOK, Post
<1>2. /\ unsettled' \in [Passes -> 0..Tolerance + 1]
      /\ \A a \in Passes :
           /\ unsettled[a] \in Nat
           /\ unsettled'[a] = IF pass[a].at = "cash" /\ pass[a].call # "open"
                                THEN Saturated(unsettled[a] + 1) ELSE unsettled[a]
  BY UnsettleTypes DEF EarnedInv
<1>3. PassTypes' /\ BlockIsEarned' /\ BooksAreDue'
  BY <1>1, <1>2 DEF EarnedInv, PassTypes, BlockIsEarned, BooksAreDue, Due, Owed
<1>4. ASSUME NEW a \in Passes PROVE AnswerNear(pass[a], unsettled[a])' /\ FoundEarned(pass[a])'
  <2>1. AnswerNear(pass[a], unsettled[a]) /\ FoundEarned(pass[a])
    BY DEF EarnedInv
  <2>2. FoundEarned(pass[a])'
    BY <1>1, <2>1 DEF FoundEarned
  <2>3. ASSUME pass[a].at = "cash", pass[a].call = "answered"
        PROVE  /\ pass[a].answer \in Int
               /\ pass[a].answer > 0 => Near(pass[a].answer, balance', unsettled'[a])
    <3>1. /\ pass[a].answer \in Int
          /\ pass[a].answer > 0 => Near(pass[a].answer, balance, unsettled[a])
      BY <2>1, <2>3 DEF AnswerNear
    <3>2. Distance(balance, balance') <= 1 /\ balance' \in Int
      BY <1>1 DEF Distance
    <3>3. unsettled'[a] = Saturated(unsettled[a] + 1) /\ unsettled[a] \in Nat
      BY <1>2, <2>3
    <3> QED
      BY <1>1, <3>1, <3>2, <3>3, NearMoves
  <2>4. AnswerNear(pass[a], unsettled[a])'
    <3>1. pass[a].at = "positions" => unsettled'[a] = unsettled[a]
      BY <1>2
    <3> QED
      BY <1>1, <2>1, <2>3, <3>1 DEF AnswerNear
  <2> QED
    BY <2>2, <2>4
<1> QED
  BY <1>1, <1>3, <1>4 DEF EarnedInv

\* A step of one pass that finds nothing it has not earned.
LEMMA PassKeepsEarned ==
  ASSUME EarnedInv, NEW a, NEW p \in PassStates, NEW n \in 0..Tolerance + 1,
         pass' = [pass EXCEPT ![a] = p],
         unsettled' \in [Passes -> 0..Tolerance + 1],
         \A b \in Passes : unsettled'[b] = IF b = a THEN n ELSE unsettled[b],
         UNCHANGED <<accountVars, killVars, stray>>,
         blocked' \in BOOLEAN, crowded' \in BOOLEAN, crowded => crowded',
         AnswerNear(p, n), "fatal" \in p.found => stray \/ crowded', BlockIsEarned'
  PROVE  EarnedInv'
<1>1. /\ AccountTypeOK' /\ KillTypeOK'
      /\ UNCHANGED <<unreported, held, booked, balance, stray>>
  BY DEF EarnedInv, AccountTypeOK, KillTypeOK, accountVars, killVars
<1>2. pass' \in [Passes -> PassStates]
      /\ \A b \in Passes : pass'[b] = IF b = a THEN p ELSE pass[b]
  BY DEF EarnedInv, PassTypes
<1>3. PassTypes' /\ BooksAreDue'
  BY <1>1, <1>2 DEF EarnedInv, PassTypes, BooksAreDue, Due, Owed
<1>4. ASSUME NEW b \in Passes PROVE AnswerNear(pass[b], unsettled[b])' /\ FoundEarned(pass[b])'
  <2>1. PICK q, m : /\ q = pass'[b] /\ m = unsettled'[b]
                    /\ AnswerNear(q, m) /\ ("fatal" \in q.found => stray \/ crowded')
    <3>1. CASE b = a
      BY <1>2, <3>1
    <3>2. CASE b # a
      BY <1>2, <3>2 DEF EarnedInv, FoundEarned
    <3> QED
      BY <3>1, <3>2
  <2> QED
    BY <1>1, <2>1 DEF AnswerNear, FoundEarned
<1> QED
  BY <1>1, <1>3, <1>4 DEF EarnedInv

\* The broker's answer is the books' and what is under way.
LEMMA AnswerKeepsEarned ==
  ASSUME EarnedInv, NEW a \in Passes, Answer(a), UNCHANGED <<accountVars, killVars, stray>>
  PROVE  EarnedInv'
<1>1. PICK b, p, n :
        /\ b \in Adapters
        /\ p = IF pass[a].at = "positions" /\ Refuses(b)
                 THEN [pass[a] EXCEPT !.call = "raised"]
                 ELSE [[pass[a] EXCEPT !.call = "answered"]
                                EXCEPT !.answer = BrokerSays(pass[a].at, b)]
        /\ n = Saturated(IF pass[a].at = "cash" THEN balance - cash ELSE UnderWay)
        /\ pass' = IF pass[a].at = "positions" /\ Refuses(b)
                     THEN [pass EXCEPT ![a].call = "raised"]
                     ELSE [pass EXCEPT ![a].call = "answered",
                                       ![a].answer = BrokerSays(pass[a].at, b)]
        /\ unsettled' = [unsettled EXCEPT ![a] = n]
  BY DEF Answer
<1>2. /\ pass \in [Passes -> PassStates] /\ pass[a] \in PassStates
      /\ unsettled \in [Passes -> 0..Tolerance + 1]
      /\ pass[a].at \in Parts /\ AccountTypeOK /\ IsFiniteSet(unreported)
      /\ held \in [Instruments -> Int] /\ booked \in [Instruments -> Int]
      /\ cash \in Int /\ balance \in Int /\ balance - cash \in Nat
  BY AccountAssumption DEF EarnedInv, PassTypes, Answer, AccountTypeOK
<1>3. pass' = [pass EXCEPT ![a] = p] /\ unsettled' = [unsettled EXCEPT ![a] = n]
      /\ UNCHANGED <<blocked, crowded>>
  <2>1. UNCHANGED <<blocked, crowded>>
    BY DEF Answer
  <2>2. pass' = [pass EXCEPT ![a] = p]
    BY <1>1, <1>2
  <2> QED
    BY <1>1, <2>1, <2>2
<1> DEFINE says == BrokerSays(pass[a].at, b)
<1>4. says \in Replies
      /\ (pass[a].at = "positions" => says \in [Instruments -> Int] /\ says \in {held, Nothing})
      /\ (pass[a].at = "cash" => says \in {cash, 0})
  <2>1. Nothing \in [Instruments -> Int] /\ Positions(b) \in {held, Nothing}
    BY <1>2 DEF Positions, Nothing
  <2>2. Working \in SUBSET Orders
    BY DEF Working
  <2>3. CASE pass[a].at = "positions"
    <3>1. says = IF Typed(b) THEN Positions(b) ELSE Nothing
      BY <2>3 DEF BrokerSays
    <3> HIDE DEF says
    <3>2. says \in {held, Nothing}
      BY <2>1, <3>1
    <3> QED
      BY <1>2, <2>1, <2>3, <3>2 DEF Replies
  <2>4. CASE pass[a].at = "orders"
    <3>1. says = IF b = "paper" THEN Working ELSE {}
      BY <2>4 DEF BrokerSays
    <3> HIDE DEF says
    <3>2. says \in SUBSET Orders
      BY <2>2, <3>1
    <3> QED
      BY <2>4, <3>2 DEF Replies
  <2>5. CASE pass[a].at = "cash"
    <3>1. says = IF b = "paper" THEN cash ELSE 0
      BY <2>5 DEF BrokerSays
    <3> HIDE DEF says
    <3> QED
      BY <1>2, <2>5, <3>1 DEF Replies
  <2> QED
    BY <1>2, <2>3, <2>4, <2>5 DEF Parts
<1>5. p \in PassStates /\ p.found = pass[a].found /\ p.at = pass[a].at
      /\ (p.call = "answered" => p.answer = says)
  <2> HIDE DEF says
  <2>1. p = IF pass[a].at = "positions" /\ Refuses(b)
              THEN [pass[a] EXCEPT !.call = "raised"]
              ELSE [[pass[a] EXCEPT !.call = "answered"] EXCEPT !.answer = says]
    BY <1>1 DEF says
  <2> QED
    BY <1>2, <1>4, <2>1 DEF PassStates
<1> HIDE DEF says
<1>6. n \in 0..Tolerance + 1
  <2>1. CASE pass[a].at = "cash"
    BY <1>1, <1>2, <2>1, SaturatedType
  <2>2. CASE pass[a].at # "cash" /\ Instruments # {}
    <3>1. UnderWay \in Nat
      BY <1>2, <2>2, DueTypes
    <3> QED
      BY <1>1, <2>2, <3>1, SaturatedType
  <2>3. CASE pass[a].at # "cash" /\ Instruments = {}
    <3>1. Orders = {}
      BY <2>3, AccountAssumption
    <3>2. unreported = {}
      BY <1>2, <3>1 DEF AccountTypeOK
    <3>3. UnderWay = 0
      BY <3>2, SumOverNone DEF UnderWay
    <3> QED
      BY <1>1, <2>3, <3>3, SaturatedType
  <2> QED
    BY <2>1, <2>2, <2>3
<1>7. AnswerNear(p, n)
  <2>1. ASSUME p.at = "positions", p.call = "answered", ~ stray, NEW i \in Instruments,
               p.answer[i] # 0
        PROVE  Near(p.answer[i], booked[i], n)
    <3>1. p.answer \in {held, Nothing}
      BY <1>4, <1>5, <2>1
    <3>2. p.answer = held
      BY <2>1, <3>1 DEF Nothing
    <3>3. held[i] = booked[i] + Due(i)
      BY <2>1 DEF EarnedInv, BooksAreDue
    <3>4. Due(i) \in Int /\ UnderWay \in Nat /\ -UnderWay <= Due(i) /\ Due(i) <= UnderWay
      BY <1>2, DueTypes
    <3> DEFINE d == Due(i)
               u == UnderWay
    <3> HIDE DEF d, u
    <3>5. Distance(held[i], booked[i]) <= u
      BY <1>2, <3>3, <3>4 DEF Distance, d, u
    <3>6. u \in Int /\ held[i] \in Int /\ booked[i] \in Int
      BY <1>2, <3>4 DEF u
    <3>7. Near(held[i], booked[i], Saturated(u))
      BY <3>5, <3>6, NearSaturated
    <3>8. n = Saturated(u)
      BY <1>1, <1>5, <2>1 DEF u
    <3> QED
      BY <3>2, <3>7, <3>8
  <2>2. ASSUME p.at = "cash", p.call = "answered"
        PROVE  p.answer \in Int /\ (p.answer > 0 => Near(p.answer, balance, n))
    <3>1. p.answer \in {cash, 0} /\ n = Saturated(balance - cash)
      BY <1>1, <1>4, <1>5, <2>2
    <3>2. Distance(cash, balance) <= balance - cash
      BY <1>2 DEF Distance
    <3>3. Near(cash, balance, n)
      BY <1>2, <3>1, <3>2, NearSaturated
    <3> QED
      BY <1>2, <3>1, <3>3
  <2> QED
    BY <1>4, <1>5, <2>1, <2>2 DEF AnswerNear
<1>8. "fatal" \in p.found => stray \/ crowded'
  BY <1>3, <1>5 DEF EarnedInv, FoundEarned
<1>9. BlockIsEarned' /\ blocked' \in BOOLEAN /\ crowded' \in BOOLEAN /\ (crowded => crowded')
  BY <1>3 DEF EarnedInv, PassTypes, BlockIsEarned
<1>10. /\ unsettled' \in [Passes -> 0..Tolerance + 1]
       /\ \A q \in Passes : unsettled'[q] = IF q = a THEN n ELSE unsettled[q]
  BY <1>2, <1>3, <1>6
<1> QED
  BY <1>3, <1>5, <1>6, <1>7, <1>8, <1>9, <1>10, PassKeepsEarned

\* A comparison finds something fatal only in books that missed something, or
\* when more came in between than is tolerated.
LEMMA FoundIsEarned ==
  ASSUME EarnedInv, NEW a \in Passes, pass[a].at \in Parts, Answered(a)
  PROVE  /\ Found(a) \in SUBSET {"recoverable", "fatal"}
         /\ "fatal" \in Found(a) => stray \/ Crowds(a)
<1>1. pass[a] \in PassStates /\ unsettled[a] \in Int /\ Tolerance \in Nat
      /\ booked \in [Instruments -> Int] /\ balance \in Int
      /\ AnswerNear(pass[a], unsettled[a])
  BY AccountAssumption, ReconciliationAssumption DEF EarnedInv, PassTypes, AccountTypeOK
<1>2. pass[a].call \in {"answered", "raised"}
  BY <1>1 DEF Answered, PassStates
<1>3. \A d : Severity(d) \in {"recoverable", "fatal"} /\ (Severity(d) = "fatal" => d > Tolerance)
  BY DEF Severity
<1>4. CASE pass[a].call = "raised"
  <2>1. Found(a) = {}
    BY <1>4 DEF Found
  <2> QED
    BY <2>1
<1>5. CASE pass[a].call = "answered" /\ pass[a].at = "positions"
  <2>1. Found(a) = InPositions(pass[a].answer)
    BY <1>5 DEF Found
  <2>2. Found(a) \in SUBSET {"recoverable", "fatal"}
    BY <1>3, <2>1 DEF InPositions
  <2>3. ASSUME "fatal" \in Found(a), ~ stray PROVE unsettled[a] > Tolerance
    <3>1. PICK i \in Instruments : /\ pass[a].answer[i] # 0
                                   /\ Severity(Distance(pass[a].answer[i], booked[i])) = "fatal"
      BY <2>1, <2>3 DEF InPositions
    <3>2. Distance(pass[a].answer[i], booked[i]) > Tolerance
      BY <1>3, <3>1
    <3>3. pass[a].answer[i] \in Int /\ booked[i] \in Int
          /\ Near(pass[a].answer[i], booked[i], unsettled[a])
      BY <1>1, <1>5, <2>3, <3>1 DEF AnswerNear
    <3> QED
      BY <1>1, <3>2, <3>3 DEF Near, Distance
  <2> QED
    BY <2>2, <2>3 DEF Crowds
<1>6. CASE pass[a].call = "answered" /\ pass[a].at = "orders"
  <2>1. Found(a) = InOrders(pass[a].answer)
    BY <1>6 DEF Found
  <2> QED
    BY <2>1 DEF InOrders
<1>7. CASE pass[a].call = "answered" /\ pass[a].at = "cash"
  <2>1. Found(a) = InCash(pass[a].answer)
    BY <1>7 DEF Found
  <2>2. Found(a) \in SUBSET {"recoverable", "fatal"}
    BY <1>3, <2>1 DEF InCash
  <2>3. ASSUME "fatal" \in Found(a) PROVE unsettled[a] > Tolerance
    <3>1. pass[a].answer > 0 /\ Severity(Distance(pass[a].answer, balance)) = "fatal"
      BY <2>1, <2>3 DEF InCash
    <3>2. Distance(pass[a].answer, balance) > Tolerance
      BY <1>3, <3>1
    <3>3. pass[a].answer \in Int /\ Near(pass[a].answer, balance, unsettled[a])
      BY <1>1, <1>7, <3>1 DEF AnswerNear
    <3> QED
      BY <1>1, <3>2, <3>3 DEF Near, Distance
  <2> QED
    BY <2>2, <2>3 DEF Crowds
<1> QED
  BY <1>2, <1>4, <1>5, <1>6, <1>7 DEF Parts

\* A pass that is given a new place keeps the invariant, if what it has found is
\* earned and its next answer is still to come.
LEMMA MovesKeepEarned ==
  ASSUME EarnedInv, NEW a, NEW p \in PassStates, p.call = "open",
         NEW n \in 0..Tolerance + 1,
         pass' = [pass EXCEPT ![a] = p], unsettled' = [unsettled EXCEPT ![a] = n],
         UNCHANGED <<accountVars, killVars, stray>>,
         blocked' \in BOOLEAN, crowded' \in BOOLEAN, crowded => crowded',
         "fatal" \in p.found => stray \/ crowded', BlockIsEarned'
  PROVE  EarnedInv'
<1>1. AnswerNear(p, n)
  BY DEF AnswerNear
<1>2. /\ unsettled' \in [Passes -> 0..Tolerance + 1]
      /\ \A b \in Passes : unsettled'[b] = IF b = a THEN n ELSE unsettled[b]
  BY DEF EarnedInv, PassTypes
<1> QED
  BY <1>1, <1>2, PassKeepsEarned

\* Nothing is unsettled for a pass that has asked nothing.
LEMMA ZeroInRange == 0 \in 0..Tolerance + 1
  BY ReconciliationAssumption

\* Comparing positions or orders.
LEMMA CompareKeepsEarned ==
  ASSUME EarnedInv, NEW a \in Passes, pass[a].at \in Parts, NEW next \in Parts, Compare(a, next),
         UNCHANGED <<accountVars, killVars, stray>>
  PROVE  EarnedInv'
<1>1. PICK f, p : f = pass[a].found \cup Found(a) /\ p = At(next, f)
  OBVIOUS
<1>2. /\ pass' = [pass EXCEPT ![a] = p] /\ unsettled' = [unsettled EXCEPT ![a] = 0]
      /\ crowded' = (crowded \/ Crowds(a)) /\ blocked' = blocked
  BY <1>1 DEF Compare
<1>3. /\ Found(a) \in SUBSET {"recoverable", "fatal"}
      /\ "fatal" \in Found(a) => stray \/ Crowds(a)
  BY FoundIsEarned DEF Compare
<1>4. f \in SUBSET {"recoverable", "fatal"} /\ ("fatal" \in f => stray \/ crowded')
  <2>1. pass[a].found \in SUBSET {"recoverable", "fatal"}
    BY DEF EarnedInv, PassTypes, PassStates
  <2>2. "fatal" \in pass[a].found => stray \/ crowded
    BY DEF EarnedInv, FoundEarned
  <2> QED
    BY <1>1, <1>2, <1>3, <2>1, <2>2
<1>5. p \in PassStates /\ p.found = f /\ p.call = "open"
  BY <1>1, <1>4, RestTypes
<1>6. /\ blocked' \in BOOLEAN /\ crowded' \in BOOLEAN /\ (crowded => crowded') /\ BlockIsEarned'
  <2>1. crowded' \in BOOLEAN
    BY <1>2, Zenon
  <2> QED
    BY <1>2, <2>1 DEF EarnedInv, PassTypes, BlockIsEarned
<1> QED
  BY <1>2, <1>4, <1>5, <1>6, ZeroInRange, MovesKeepEarned

\* Comparing cash, and the block.
LEMMA ConcludeKeepsEarned ==
  ASSUME EarnedInv, NEW a \in Passes, Conclude(a), UNCHANGED <<accountVars, killVars, stray>>
  PROVE  EarnedInv'
<1>1. /\ pass' = [pass EXCEPT ![a] = Idle] /\ unsettled' = [unsettled EXCEPT ![a] = 0]
      /\ crowded' = (crowded \/ Crowds(a))
      /\ blocked' = (blocked \/ "fatal" \in pass[a].found \cup Found(a))
      /\ pass[a].at = "cash" /\ Answered(a)
  BY DEF Conclude, ReportOf
<1>2. "fatal" \in Found(a) => stray \/ Crowds(a)
  BY <1>1, FoundIsEarned DEF Parts
<1>3. "fatal" \in pass[a].found => stray \/ crowded
  BY DEF EarnedInv, FoundEarned
<1>4. blocked => stray \/ crowded
  BY DEF EarnedInv, BlockIsEarned
<1>5. blocked' \in BOOLEAN /\ crowded' \in BOOLEAN
  BY <1>1, Zenon
<1>6. stray' = stray
  OBVIOUS
<1>7. (blocked' => stray \/ crowded') /\ (crowded => crowded')
  <2>1. crowded \/ Crowds(a) => crowded'
    BY <1>1
  <2>2. blocked' => blocked \/ "fatal" \in pass[a].found \/ "fatal" \in Found(a)
    BY <1>1
  <2> QED
    BY <1>2, <1>3, <1>4, <2>1, <2>2
<1>8. BlockIsEarned'
  BY <1>6, <1>7 DEF BlockIsEarned
<1> QED
  BY <1>1, <1>5, <1>7, <1>8, RestTypes, ZeroInRange, MovesKeepEarned

\* A step of the engine, the worker or its callers.
LEMMA ReconcilesKeepsEarned ==
  ASSUME EarnedInv, Reconciles
  PROVE  EarnedInv'
<1>1. UNCHANGED <<accountVars, killVars, stray>>
  BY DEF Reconciles
<1>2. AccountTypeOK' /\ KillTypeOK'
  BY <1>1 DEF EarnedInv, AccountTypeOK, KillTypeOK, accountVars, killVars
<1>3. CASE UNCHANGED engineVars
  <2>1. EngineRests /\ stray' = stray /\ held' = held
    BY <1>1, <1>3 DEF EngineRests, engineVars, accountVars
  <2> QED
    BY <1>2, <2>1, RestsKeepEarned
<1>4. ASSUME NEW a \in Passes, Proceed(a) PROVE EarnedInv'
  <2>1. CASE Answer(a)
    BY <1>1, <2>1, AnswerKeepsEarned
  <2>2. CASE ComparePositions(a)
    BY <1>1, <2>2, CompareKeepsEarned DEF ComparePositions, Parts
  <2>3. CASE CompareOrders(a)
    BY <1>1, <2>3, CompareKeepsEarned DEF CompareOrders, Parts
  <2> QED
    BY <1>4, <2>1, <2>2, <2>3 DEF Proceed
<1>5. ASSUME NEW a \in Passes, Conclude(a) PROVE EarnedInv'
  BY <1>1, <1>5, ConcludeKeepsEarned
<1>6. ASSUME NEW a \in Passes, pass' = Asks(a), UNCHANGED <<blocked, unsettled, crowded>>
      PROVE  EarnedInv'
  <2>1. PICK p : p = At("positions", {})
    OBVIOUS
  <2>2. p \in PassStates /\ p.found = {} /\ p.call = "open"
    BY <2>1, RestTypes DEF Parts
  <2>3. pass' = [pass EXCEPT ![a] = p] /\ unsettled' = [unsettled EXCEPT ![a] = unsettled[a]]
        /\ unsettled[a] \in 0..Tolerance + 1
    BY <1>6, <2>1 DEF Asks, EarnedInv, PassTypes
  <2>4. blocked' \in BOOLEAN /\ crowded' \in BOOLEAN /\ (crowded => crowded') /\ BlockIsEarned'
    BY <1>1, <1>6 DEF EarnedInv, PassTypes, BlockIsEarned
  <2> QED
    BY <1>1, <2>2, <2>3, <2>4, MovesKeepEarned
<1>7. ASSUME NEW l, Cancelled(l), UNCHANGED <<blocked, crowded>>
      PROVE  EarnedInv'
  <2>1. pass' = [pass EXCEPT ![l] = Idle]
        /\ unsettled' = [unsettled EXCEPT ![l] = 0]
    BY <1>7 DEF Cancelled
  <2>2. blocked' \in BOOLEAN /\ crowded' \in BOOLEAN /\ (crowded => crowded') /\ BlockIsEarned'
    BY <1>1, <1>7 DEF EarnedInv, PassTypes, BlockIsEarned
  <2> QED
    BY <1>1, <2>1, <2>2, RestTypes, ZeroInRange, MovesKeepEarned
<1>8. CASE Unblock
  <2>1. /\ UNCHANGED <<booked, balance, pass, unsettled, crowded, unreported, held>>
        /\ blocked' = FALSE
    BY <1>1, <1>8 DEF Unblock, accountVars
  <2>2. PassTypes' /\ BlockIsEarned' /\ BooksAreDue'
    BY <1>1, <2>1 DEF EarnedInv, PassTypes, BlockIsEarned, BooksAreDue, Due, Owed
  <2>3. \A a \in Passes : AnswerNear(pass[a], unsettled[a])' /\ FoundEarned(pass[a])'
    BY <1>1, <2>1 DEF EarnedInv, AnswerNear, FoundEarned
  <2> QED
    BY <1>2, <2>1, <2>2, <2>3 DEF EarnedInv
<1>9. ASSUME NEW l \in Loops, LoopStep(l) PROVE EarnedInv'
  <2>1. l \in Passes
    BY DEF Passes
  <2>2. CASE Turn(l)
    <3>1. CASE halt
      BY <1>3, <2>2, <3>1 DEF Turn, engineVars
    <3>2. CASE ~ halt
      BY <1>6, <2>1, <2>2, <3>2 DEF Turn
    <3> QED
      BY <3>1, <3>2
  <2>3. CASE InPass(l)
    BY <1>4, <2>1, <2>3 DEF InPass
  <2>4. CASE Ingest(l)
    BY <1>5, <2>1, <2>4 DEF Ingest
  <2>5. CASE CalledBack(l)
    BY <1>3, <2>5 DEF CalledBack
  <2> QED
    BY <1>9, <2>2, <2>3, <2>4, <2>5 DEF LoopStep
<1>10. ASSUME NEW l \in Loops, Start(l) PROVE EarnedInv'
  BY <1>3, <1>10 DEF Start
<1>11. ASSUME NEW c \in Callers, RunOnce(c) \/ InOnce(c) PROVE EarnedInv'
  <2>1. c \in Passes
    BY DEF Passes
  <2> QED
    BY <1>4, <1>5, <1>6, <1>11, <2>1 DEF RunOnce, InOnce
<1>12. CASE Stop
  BY <1>3, <1>12 DEF Stop
<1>13. CASE StopReturns \/ StopClears
  BY <1>3, <1>13 DEF StopReturns, StopClears, StopEnds
<1>14. CASE StopTimesOut
  BY <1>7, <1>14 DEF StopTimesOut
<1>15. CASE StopCancels
  <2>1. CASE Running
    BY <1>7, <1>15, <2>1 DEF StopCancels
  <2>2. CASE ~ Running
    BY <1>3, <1>15, <2>2 DEF StopCancels, engineVars
  <2> QED
    BY <2>1, <2>2
<1> QED
  BY <1>8, <1>9, <1>10, <1>11, <1>12, <1>13, <1>14, <1>15
  DEF Reconciles, ReconciliationStep, StopStep

\* A lost report leaves books that missed something.
LEMMA LoseKeepsEarned ==
  ASSUME EarnedInv, AccountTypeOK', KillTypeOK', NEW o \in Orders, LoseReport(o), stray' = TRUE,
         UNCHANGED engineVars
  PROVE  EarnedInv'
<1>1. /\ unreported' = unreported \ {o} /\ UNCHANGED <<held, booked, balance>>
      /\ UNCHANGED <<pass, unsettled, blocked, crowded>>
  BY DEF LoseReport, engineVars
<1>2. IsFiniteSet(unreported')
  BY <1>1, FS_RemoveElement DEF EarnedInv
<1>3. PassTypes' /\ BlockIsEarned' /\ BooksAreDue'
  BY <1>1 DEF EarnedInv, PassTypes, BlockIsEarned, BooksAreDue
<1>4. \A a \in Passes : AnswerNear(pass[a], unsettled[a])' /\ FoundEarned(pass[a])'
  BY <1>1 DEF EarnedInv, AnswerNear, FoundEarned
<1> QED
  BY <1>2, <1>3, <1>4 DEF EarnedInv

\* Every step keeps it.
LEMMA EarnedStep == EarnedInv /\ [Next]_vars => EarnedInv'
<1> SUFFICES ASSUME EarnedInv, [Next]_vars PROVE EarnedInv'
  OBVIOUS
<1>1. AccountTypeOK' /\ KillTypeOK'
  BY AccountTypesStep, KillTypesStep DEF EarnedInv
<1>2. ASSUME EngineRests, UNCHANGED <<stray, held>> PROVE EarnedInv'
  BY <1>1, <1>2, RestsKeepEarned
<1>3. ASSUME NEW o \in Orders, Submit(o), UNCHANGED reconciliationVars PROVE EarnedInv'
  BY <1>2, <1>3 DEF Submit, EngineRests, reconciliationVars, engineVars
<1>4. ASSUME NEW o \in Orders, Acknowledge(o), UNCHANGED reconciliationVars PROVE EarnedInv'
  BY <1>2, <1>4 DEF Acknowledge, EngineRests, reconciliationVars, engineVars
<1>5. ASSUME NEW o \in Orders, Execute(o), UNCHANGED <<reconciliationVars, killVars>>
      PROVE  EarnedInv'
  BY <1>1, <1>5, ExecuteKeepsEarned
<1>6. ASSUME NEW o \in Orders, Report(o), Unsettle("positions", Lots(o)),
             UNCHANGED <<pass, blocked, crowded, workerVars, stray, killVars>>
      PROVE  EarnedInv'
  BY <1>1, <1>6, ReportKeepsEarned
<1>7. ASSUME NEW o \in Orders, LoseReport(o), stray' = TRUE, UNCHANGED engineVars
      PROVE  EarnedInv'
  BY <1>1, <1>7, LoseKeepsEarned
<1>8. CASE Charge /\ UNCHANGED reconciliationVars
  BY <1>2, <1>8 DEF Charge, EngineRests, reconciliationVars, engineVars
<1>9. CASE /\ Post /\ Unsettle("cash", 1)
           /\ UNCHANGED <<pass, blocked, crowded, workerVars, stray, killVars>>
  BY <1>1, <1>9, PostKeepsEarned
<1>10. CASE Outage /\ UNCHANGED reconciliationVars
  BY <1>2, <1>10 DEF Outage, EngineRests, reconciliationVars, engineVars
<1>11. CASE Trades
  BY <1>3, <1>4, <1>5, <1>6, <1>7, <1>8, <1>9, <1>10, <1>11 DEF Trades
<1>12. CASE Reconciles
  BY <1>12, ReconcilesKeepsEarned
<1>13. CASE KillBegins
  BY <1>2, <1>13 DEF KillBegins, Begin, accountVars, EngineRests, reconciliationVars, engineVars
<1>14. CASE KillRuns
  <2>1. PICK k \in Kills : KillProceeds(k) /\ UNCHANGED reconciliationVars
    BY <1>14 DEF KillRuns
  <2>2. UNCHANGED <<unreported, held, booked, balance>>
    BY <2>1 DEF KillProceeds, Raises, CancelAll, ReadPositions, SubmitClose, Submitted, Verify,
                accountVars
  <2> QED
    BY <1>2, <2>1, <2>2 DEF EngineRests, reconciliationVars, engineVars
<1>15. CASE Closes
  <2>1. /\ EngineRests /\ stray' = TRUE
    BY <1>15 DEF Closes, ExecuteClose, EngineRests, engineVars
  <2> QED
    BY <1>1, <2>1, RestsKeepEarned
<1>16. CASE UNCHANGED vars
  BY <1>2, <1>16 DEF vars, accountVars, EngineRests, reconciliationVars, engineVars
<1> QED
  BY <1>11, <1>12, <1>13, <1>14, <1>15, <1>16 DEF Next

\* New orders are blocked only for a reason, with any number of loops, callers,
\* orders and kills: a pass that finds a fatal difference finds it in books that
\* missed a fill or a close, or while more than the tolerance came in between
\* the broker's answer and the look at the books (reconciliation.py:117-118,
\* 136-170, 216-243).
THEOREM BlocksAreEarned == Spec => []BlockIsEarned
<1>1. EarnedInv => BlockIsEarned
  BY DEF EarnedInv
<1> QED
  BY <1>1, EarnedInitial, EarnedStep, PTL DEF Spec
=============================================================================
