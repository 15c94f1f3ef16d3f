---------------------------- MODULE RiskGovernor ----------------------------
(***************************************************************************)
(* PropFirmRiskGovernor (policy/prop_firm/governor.py), between the gate   *)
(* of its adapter (order_risk.py) and the account it watches.              *)
(*                                                                         *)
(* The account trades: positions open with a protective stop, their        *)
(* floating result moves, they close, by their stop at the worst.  The     *)
(* governor keeps its own copy of balance and equity, refreshed by update  *)
(* before each evaluate, and is told of every closed trade.  Money is a    *)
(* number of units; limits are percentages or amounts, so sums to compare  *)
(* with them are taken a hundredfold.  Profiles have no consistency rule,  *)
(* payout buffer or news blackout, and support automation.                 *)
(***************************************************************************)
EXTENDS Integers

CONSTANTS
  Profiles,     \* the programs a governor may be built for
  Initial,      \* initial_balance
  Slots,        \* positions that may be open at once
  Risks,        \* what a position loses at its stop
  Results,      \* floating and realised results of a position
  MaxMoney,     \* bound: the balance the account may reach
  MaxDays,      \* bound: rollovers
  Absent        \* Python None: no such limit, no position

Modes == {"static", "lock", "trailing_intraday", "trailing_eod", "trailing_closed"}

ProfileType ==
  [mode : Modes, basis : {"balance", "equity"}, pause : BOOLEAN, lock : BOOLEAN,
   daily : Nat \cup {Absent}, dailyPct : Nat, overall : Nat \cup {Absent}, overallPct : Nat,
   riskPct : Nat, targetPct : Nat, minDays : Nat]

ASSUME ProfileAssumption == Profiles \subseteq ProfileType /\ Absent \notin Int
ASSUME AbsentAssumption == Absent \notin [risk : Nat, float : Int]
ASSUME MoneyAssumption ==
  /\ Initial \in Nat \ {0} /\ MaxMoney \in Nat /\ MaxDays \in Nat
  /\ Risks \subseteq Nat \ {0} /\ Results \subseteq Int

VARIABLES
  profile,      \* governor.profile
  status,       \* governor.status
  bal, eq,      \* current_balance, current_equity
  dayBal, dayEq,\* day_start_balance, day_start_equity
  peak,         \* peak_balance
  days,         \* trading_days
  traded,       \* today_has_trade
  cash, equity, \* the account's balance and equity
  pos,          \* the account's positions: [risk, float] or Absent
  rolled,       \* rollovers so far
  careless      \* history: an order or a rollover on old numbers, a night with
                \* a position

governorVars == <<status, bal, eq, dayBal, dayEq, peak, days, traded>>
accountVars == <<cash, equity, pos>>
sessionVars == <<profile, governorVars, accountVars, rolled, careless>>

Statuses == {"in_progress", "passed", "failed_daily", "failed_overall", "paused"}

GovernorTypeOK ==
  /\ profile \in Profiles
  /\ status \in Statuses
  /\ bal \in Int /\ eq \in Int /\ dayBal \in Int /\ dayEq \in Int
  /\ peak \in Int /\ cash \in Int /\ equity \in Int
  /\ days \in Nat /\ rolled \in Nat
  /\ traded \in BOOLEAN /\ careless \in BOOLEAN
  /\ pos \in [Slots -> [risk : Risks, float : Int] \cup {Absent}]

GovernorInit ==
  /\ profile \in Profiles
  /\ status = "in_progress"
  /\ bal = Initial /\ eq = Initial /\ dayBal = Initial /\ dayEq = Initial
  /\ peak = Initial /\ cash = Initial /\ equity = Initial
  /\ days = 0 /\ rolled = 0
  /\ traded = FALSE /\ careless = FALSE
  /\ pos = [s \in Slots |-> Absent]

Larger(x, y) == IF x > y THEN x ELSE y
Smaller(x, y) == IF x < y THEN x ELSE y

-----------------------------------------------------------------------------
(* Loss measurement, on a governor with the given copies *)

Trails(p) == p.mode \in {"trailing_intraday", "trailing_eod", "trailing_closed"}

DailyReference == IF profile.basis = "equity" THEN dayEq ELSE dayBal

OverallReference == IF Trails(profile) THEN peak ELSE Initial

DailyLoss(e) == Larger(0, DailyReference - e)

OverallLoss(e) == Larger(0, OverallReference - e)

\* A hundred times daily_loss_limit_cash.
DailyLimit ==
  IF profile.daily # Absent THEN 100 * profile.daily
                          ELSE profile.dailyPct * DailyReference

\* A hundred times overall_loss_limit_cash.
OverallLimit ==
  IF profile.overall # Absent THEN 100 * profile.overall
                            ELSE profile.overallPct * OverallReference

\* A hundred times overall_floor, with reference ref.
FloorAt(ref) ==
  IF profile.overall # Absent
    THEN LET floor == 100 * (ref - profile.overall) IN
         IF profile.lock /\ profile.mode # "trailing_closed"
           THEN Smaller(floor, 100 * Initial) ELSE floor
    ELSE IF profile.mode = "trailing_closed"
           THEN 100 * ref - profile.overallPct * Initial
           ELSE (100 - profile.overallPct) * ref

Floor == FloorAt(OverallReference)

-----------------------------------------------------------------------------
(* Pre-trade gate *)

\* Mutant: the loss of the day so far is left out.
DailyBreachOfOrder(risk) == 100 * risk >= DailyLimit

BreachesDaily(risk) == 100 * (DailyLoss(eq) + risk) >= DailyLimit

BreachesOverall(risk) == 100 * (OverallLoss(eq) + risk) >= OverallLimit

\* More than max_position_size: the rest of the day's budget, or of the trade's.
Oversized(risk) ==
  \/ 100 * risk > Larger(0, DailyLimit - 100 * DailyLoss(eq))
  \/ 100 * risk > profile.riskPct * bal

Allowed(risk) ==
  /\ status = "in_progress"
  /\ ~BreachesDaily(risk)
  /\ ~BreachesOverall(risk)
  /\ ~Oversized(risk)

-----------------------------------------------------------------------------
(* The account *)

IsOpen(s) == pos[s] # Absent
Flat == \A s \in Slots : ~IsOpen(s)

\* The governor has seen the account as it is.
Observed == bal = cash /\ eq = equity

\* An order with a stop passes the gate and fills.
Open(s, risk) ==
  /\ ~IsOpen(s)
  /\ Allowed(risk)
  /\ pos' = [pos EXCEPT ![s] = [risk |-> risk, float |-> 0]]
  /\ careless' = (careless \/ ~Observed)
  /\ UNCHANGED <<profile, governorVars, cash, equity, rolled>>

\* The market moves, short of the stop.
Move(s, x) ==
  /\ IsOpen(s)
  /\ x > -pos[s].risk /\ x # pos[s].float
  /\ pos' = [pos EXCEPT ![s].float = x]
  /\ equity' = equity + x - pos[s].float
  /\ UNCHANGED <<profile, governorVars, cash, rolled, careless>>

\* record_trade: a peak on closed profits is taken from the balance before it.
RecordTrade(x) ==
  /\ peak' = IF x > 0 /\ profile.mode = "trailing_closed"
               THEN Larger(peak, bal + x) ELSE peak
  /\ traded' = TRUE
  /\ UNCHANGED <<status, bal, eq, dayBal, dayEq, days>>

\* A position closes, at its stop or better, and the governor records the trade.
CloseTrade(s, x) ==
  /\ IsOpen(s)
  /\ x >= -pos[s].risk
  /\ cash + x \in 0..MaxMoney
  /\ cash' = cash + x
  /\ equity' = equity + x - pos[s].float
  /\ pos' = [pos EXCEPT ![s] = Absent]
  /\ RecordTrade(x)
  /\ UNCHANGED <<profile, rolled, careless>>

-----------------------------------------------------------------------------
(* update, then evaluate, as the trading loop calls them *)

\* update's peak: continuous, but at the end of the day or on closed trades.
UpdatedPeak(balance) ==
  IF profile.mode \in {"trailing_eod", "trailing_closed"}
    THEN peak ELSE Larger(peak, balance)

DailyHit == 100 * DailyLoss(eq') >= DailyLimit
OverallHit == 100 * eq' <= FloorAt(IF Trails(profile) THEN peak' ELSE Initial)

\* evaluate's promotion of the status from what it found.
Promoted(daily, overall) ==
  IF overall \/ (daily /\ ~profile.pause)
    THEN IF daily THEN "failed_daily" ELSE "failed_overall"
    ELSE IF daily THEN "paused" ELSE status

Observe ==
  /\ bal' = cash
  /\ eq' = equity
  /\ peak' = UpdatedPeak(cash)
  /\ status' = Promoted(DailyHit, OverallHit)
  /\ UNCHANGED <<profile, dayBal, dayEq, days, traded, accountVars, rolled, careless>>

-----------------------------------------------------------------------------
(* rollover and challenge_outcome *)

\* A paused challenge resumes above the floor, and fails at or below it.
Resumed ==
  IF status # "paused" THEN status
  ELSE IF 100 * eq > FloorAt(IF Trails(profile) THEN peak' ELSE Initial)
         THEN "in_progress" ELSE "failed_overall"

\* Mutant: the new day's peak is the day's balance.
RestartedPeak == IF profile.mode = "trailing_eod" THEN bal ELSE peak

RolledPeak == IF profile.mode = "trailing_eod" THEN Larger(peak, bal) ELSE peak

Rollover ==
  /\ rolled < MaxDays
  /\ rolled' = rolled + 1
  /\ careless' = (careless \/ ~Observed \/ ~Flat)
  /\ days' = IF traded THEN days + 1 ELSE days
  /\ traded' = FALSE
  /\ dayBal' = bal /\ dayEq' = eq
  /\ peak' = RolledPeak
  /\ status' = Resumed
  /\ UNCHANGED <<profile, bal, eq, accountVars>>

\* The pass condition, asked lazily.
Outcome ==
  /\ status = "in_progress"
  /\ 100 * bal >= (100 + profile.targetPct) * Initial
  /\ days + (IF traded THEN 1 ELSE 0) >= profile.minDays
  /\ status' = "passed"
  /\ UNCHANGED <<profile, bal, eq, dayBal, dayEq, peak, days, traded, accountVars, rolled,
                 careless>>

GovernorNext ==
  \/ \E s \in Slots, r \in Risks : Open(s, r)
  \/ \E s \in Slots, x \in Results : Move(s, x) \/ CloseTrade(s, x)
  \/ Observe
  \/ Rollover
  \/ Outcome

GovernorSpec == GovernorInit /\ [][GovernorNext]_sessionVars

-----------------------------------------------------------------------------
(* Properties *)

Failed == status \in {"failed_daily", "failed_overall"}

\* A program whose limits are limits: positive, both in amounts or both in
\* percentages, and in amounts when the peak trails closed profits.
Sound(p) ==
  \/ /\ p.daily \in Nat \ {0} /\ p.overall \in Nat \ {0}
  \/ /\ p.daily = Absent /\ p.overall = Absent /\ p.mode # "trailing_closed"
     /\ p.dailyPct > 0 /\ p.overallPct \in 1..100

\* The gate lets an order through only if it cannot breach a hard limit
\* (governor.py:375): while every stop is honoured, positions are closed before
\* midnight and the gate is asked on fresh numbers, the challenge of a sound
\* program never fails.
GateHolds == ~careless /\ Sound(profile) => ~Failed

\* The same of any program.
GateHoldsForAll == ~careless => ~Failed

\* The overall floor never moves down: neither a losing day nor a rollover nor
\* a losing trade gives back drawdown a trailing program took; and a floor that
\* trails the end of the day, or closed profits, stands still while positions
\* float and ticks come in (governor.py:175-190, 206-209, 246-248, 296-313).
FloorNeverFalls ==
  [][/\ Floor' >= Floor
     /\ profile.mode \in {"trailing_eod", "trailing_closed"} /\ Floor' # Floor
          => rolled' # rolled \/ cash' > cash]_sessionVars

\* A hard breach ends the challenge (governor.py:79): a failed challenge stays
\* failed, and no later evaluation or rollover brings it back.
FailedIsFinal == [][Failed => status' \in {"failed_daily", "failed_overall"}]_sessionVars
=============================================================================
