--------------------------- MODULE MCRiskGovernor ---------------------------
(***************************************************************************)
(* Small programs after the fixtures of policy/prop_firm: limits in        *)
(* amounts as for Topstep, in percentages as for The5ers, and the closed-  *)
(* profit trailing of E8.                                                  *)
(***************************************************************************)
EXTENDS RiskGovernor

Program(mode, pause) ==
  [mode |-> mode, basis |-> "balance", pause |-> pause, lock |-> FALSE,
   daily |-> Absent, dailyPct |-> 20, overall |-> Absent, overallPct |-> 30,
   riskPct |-> 20, targetPct |-> 20, minDays |-> 1]

InAmounts(p) == [p EXCEPT !.daily = 4, !.overall = 5]

Static == Program("static", FALSE)
Intraday == Program("trailing_intraday", FALSE)
EndOfDay == [InAmounts(Program("trailing_eod", TRUE)) EXCEPT !.lock = TRUE]
Locking == [EndOfDay EXCEPT !.overall = 3]
Closed == Program("trailing_closed", TRUE)
ClosedAmounts == [InAmounts(Closed) EXCEPT !.basis = "equity"]

Programs == {Static, Intraday, EndOfDay, Locking, Closed, ClosedAmounts}
ClosedPrograms == {Closed}
PausePrograms == {EndOfDay, ClosedAmounts}

MCResults == {-3, -1, 2, 5}
FewResults == {-3, -1, 4}
=============================================================================
