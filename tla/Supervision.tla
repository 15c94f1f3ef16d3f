----------------------------- MODULE Supervision -----------------------------
(***************************************************************************)
(* Reconciliation and the kill switch at work on one broker account while  *)
(* orders trade on it.                                                     *)
(***************************************************************************)
EXTENDS Reconciliation, KillSwitch

vars == <<accountVars, reconciliationVars, killVars>>

TypeOK == AccountTypeOK /\ ReconciliationTypeOK /\ KillTypeOK

Init == AccountInit /\ ReconciliationInit /\ KillInit

\* A pass between its answer and its look at the books sees a change of size n.
Unsettle(at, n) ==
  unsettled' = [a \in Passes |-> IF pass[a].at = at /\ Answered(a)
                                   THEN Saturated(unsettled[a] + n) ELSE unsettled[a]]

\* The trading system and the broker, as both watch them.
Trades ==
  \/ \E o \in Orders :
       \/ Submit(o) /\ crossed' = crossed \cup {k \in Kills : Begun(k)}
                    /\ UNCHANGED <<reconciliationVars, kill, closing>>
       \/ (Acknowledge(o) \/ Execute(o)) /\ UNCHANGED <<reconciliationVars, killVars>>
       \/ Report(o) /\ Unsettle("positions", Lots(o))
                    /\ UNCHANGED <<pass, blocked, crowded, workerVars, stray, killVars>>
       \/ LoseReport(o) /\ stray' = TRUE
                        /\ UNCHANGED <<engineVars, workerVars, killVars>>
  \/ Charge /\ UNCHANGED <<reconciliationVars, killVars>>
  \/ Post /\ Unsettle("cash", 1) /\ UNCHANGED <<pass, blocked, crowded, workerVars, stray, killVars>>
  \/ Outage /\ UNCHANGED <<reconciliationVars, killVars>>

Reconciles == ReconciliationStep /\ UNCHANGED <<accountVars, stray, killVars>>

KillBegins == \E k \in Kills : Begin(k) /\ UNCHANGED reconciliationVars
KillRuns == \E k \in Kills : KillProceeds(k) /\ UNCHANGED reconciliationVars

\* A close trades beside the OMS.
Closes ==
  \E c \in closing : ExecuteClose(c) /\ stray' = TRUE /\ UNCHANGED <<engineVars, workerVars>>

Next == Trades \/ Reconciles \/ KillBegins \/ KillRuns \/ Closes

Spec == Init /\ [][Next]_vars

\* Tasks run on, the broker answers, calls of stop end.
FairSpec ==
  /\ Spec
  /\ \A l \in Loops : WF_vars(LoopStep(l) /\ UNCHANGED <<accountVars, stray, killVars>>)
  /\ WF_vars(StopStep /\ UNCHANGED <<accountVars, stray, killVars>>)
  /\ WF_vars(KillRuns)

-----------------------------------------------------------------------------
(* Properties *)

\* New orders are blocked only for a reason: the books missed a fill or a
\* close, or more than the tolerance was under way between the broker's answer
\* and the look at the books.  What is only late, and within the tolerance,
\* blocks nothing; one larger fill that is late may block
\* (reconciliation.py:117-118, 136-170, 216-243).
BlockIsEarned == blocked => stray \/ crowded

\* A position that stays wrong by more than the tolerance is found, in spite of
\* the exceptions swallowed meanwhile, once the broker answers and the worker is
\* left running: orders are blocked, again after every unblock
\* (reconciliation.py:101-128, reconciliation_worker.py:94-126).
FatalPosition == \E i \in Instruments : held[i] # 0 /\ Distance(held[i], booked[i]) > Tolerance

LastingMismatchBlocks ==
  <>[](FatalPosition /\ reachable /\ Running /\ ~halt) => []<>blocked

\* One loop at a time, and none that the worker has lost sight of, unless a
\* start came while a stop was still waiting (reconciliation_worker.py:62-84).
OneLoop == ~overlapped => \A l \in Loops : Live(l) => task = l

\* Of the adapters that give typed positions, paper and mt5: a kill that reports
\* success left no position, and no open order that may make one, if nobody
\* traded beside it or since.  An order that was open when it started, and that
\* the adapter cannot cancel, trades beside it (kill.py:53-117).
KillLeavesFlat ==
  \A k \in Kills \ crossed : Succeeded(k) => Flat /\ Working = {} /\ closing = {}

\* Of the same adapters: the orders a kill has open never add up to more than
\* the position they are against, unless something traded beside it; on mt5 the
\* closes of a kill before it do, which it does not cancel (kill.py:53-95).
KillOnlyCloses ==
  \A c \in closing : c.kill \in crossed \/ c.lots = -held[c.instrument]

\* A divergence is detected (reconciliation.py:3): OMS state the broker does not
\* have included.
DivergenceIsSeen ==
  <>[](reachable /\ Running /\ ~halt
       /\ \E i \in Instruments : Distance(held[i], booked[i]) > Tolerance) => []<>blocked

\* The worker has stopped when stop has returned (reconciliation_worker.py:34).
StoppedIsStopped == task = None => \A l \in Loops : ~Live(l)

\* Only lost fills block.
NoFalseBlock == blocked => stray
=============================================================================
