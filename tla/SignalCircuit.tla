---------------------------- MODULE SignalCircuit ----------------------------
(***************************************************************************)
(* SignalProviderCircuit (execution/session_guards.py): a circuit breaker  *)
(* around an external signal provider.                                     *)
(*                                                                         *)
(* A call looks at the state, awaits the provider and records how it went; *)
(* calls of several tasks overlap at the await, so a call that began under *)
(* one state of the circuit may end under another.  The clock ticks; no    *)
(* more than Timeout ticks of any age are told apart.                      *)
(***************************************************************************)
EXTENDS Integers, FiniteSets

CONSTANTS
  Calls,        \* calls that may be under way at once
  Threshold,    \* failure_threshold
  Timeout,      \* recovery_timeout_s, in ticks
  Unset

ASSUME CircuitAssumption ==
  /\ Threshold \in Nat \ {0} /\ Timeout \in Nat \ {0}
  /\ Unset \notin Nat

VARIABLES
  state,        \* _state
  failures,     \* _consecutive_failures, counted up to Threshold
  age,          \* ticks since _opened_at, or Unset
  call,         \* each call: idle, or the state of the circuit it began under
  up,           \* does the provider answer?
  quiet         \* history: ticks since a failure was last recorded

circuitVars == <<state, failures, age, call, up, quiet>>

CircuitStates == {"closed", "open", "half_open"}

CircuitTypeOK ==
  /\ state \in CircuitStates
  /\ failures \in 0..Threshold
  /\ age \in 0..Timeout \cup {Unset}
  /\ call \in [Calls -> {"idle", "closed", "half_open"}]
  /\ up \in BOOLEAN
  /\ quiet \in 0..Timeout

CircuitInit ==
  /\ state = "closed"
  /\ failures = 0
  /\ age = Unset
  /\ call = [c \in Calls |-> "idle"]
  /\ up = TRUE
  /\ quiet = Timeout

-----------------------------------------------------------------------------
(* The circuit *)

\* Mutant: an open circuit stays open.
Latched == state

\* The state property: an open circuit turns half-open when it is looked at.
StateNow == IF state = "open" /\ age = Timeout THEN "half_open" ELSE state

\* Mutant: a failed probe opens the circuit and keeps the old clock.
KeptClock ==
  /\ failures' = IF failures < Threshold THEN failures + 1 ELSE failures
  /\ state' = IF state = "half_open" \/ failures' = Threshold THEN "open" ELSE state
  /\ age' = IF state = "half_open" THEN age ELSE IF failures' = Threshold THEN 0 ELSE age

\* _record_failure: a failed probe, or one failure too many, starts the clock.
RecordFailure ==
  LET opens == state = "half_open" \/ failures' = Threshold IN
  /\ failures' = IF failures < Threshold THEN failures + 1 ELSE failures
  /\ state' = IF opens THEN "open" ELSE state
  /\ age' = IF opens THEN 0 ELSE age

\* Mutant: the failures are not forgotten.
KeptFailures == state' = "closed" /\ age' = Unset /\ UNCHANGED failures

RecordSuccess ==
  /\ state' = "closed"
  /\ failures' = 0
  /\ age' = Unset

-----------------------------------------------------------------------------
(* call *)

InFlight(c) == call[c] # "idle"

\* Up to the await: an open circuit answers None at once.
Begin(c) ==
  /\ ~InFlight(c)
  /\ StateNow # "open"
  /\ state' = StateNow
  /\ call' = [call EXCEPT ![c] = StateNow]
  /\ UNCHANGED <<failures, age, up, quiet>>

Finish(c) == InFlight(c) /\ call' = [call EXCEPT ![c] = "idle"]

Succeed(c) ==
  /\ up
  /\ Finish(c)
  /\ RecordSuccess
  /\ UNCHANGED <<up, quiet>>

Fail(c) ==
  /\ ~up
  /\ Finish(c)
  /\ RecordFailure
  /\ quiet' = 0
  /\ UNCHANGED up

\* A cancelled call is neither: CancelledError is no Exception.
Cancel(c) ==
  /\ Finish(c)
  /\ UNCHANGED <<state, failures, age, up, quiet>>

-----------------------------------------------------------------------------
(* Everyone else *)

\* is_available, or a caller's look at state.
Look ==
  /\ state # StateNow
  /\ state' = StateNow
  /\ UNCHANGED <<failures, age, call, up, quiet>>

\* reset, by the operator.
Reset ==
  /\ state # "closed" \/ failures # 0
  /\ RecordSuccess
  /\ UNCHANGED <<call, up, quiet>>

Older(t) == IF t = Unset \/ t = Timeout THEN t ELSE t + 1

Tick ==
  /\ age' = Older(age) /\ quiet' = Older(quiet)
  /\ age # age' \/ quiet # quiet'
  /\ UNCHANGED <<state, failures, call, up>>

Outage == up /\ up' = FALSE /\ UNCHANGED <<state, failures, age, call, quiet>>
Recovery == ~up /\ up' = TRUE /\ UNCHANGED <<state, failures, age, call, quiet>>

CircuitNext ==
  \/ \E c \in Calls : Begin(c) \/ Succeed(c) \/ Fail(c) \/ Cancel(c)
  \/ Look \/ Reset \/ Tick \/ Outage \/ Recovery

CircuitSpec == CircuitInit /\ [][CircuitNext]_circuitVars

\* Time passes, callers keep calling and a provider that is up answers some
\* call at last; nobody has to reset the circuit.
CircuitFairSpec ==
  /\ CircuitSpec
  /\ WF_circuitVars(Tick)
  /\ WF_circuitVars(\E c \in Calls : Begin(c))
  /\ \A c \in Calls : SF_circuitVars(Succeed(c)) /\ WF_circuitVars(Fail(c))

-----------------------------------------------------------------------------
(* Properties *)

\* The circuit is open or half-open exactly while failures stand at the
\* threshold, however the calls overlap: a success from before it opened, a
\* failure after another call closed it, and a cancelled probe all leave state,
\* counter and clock in step (session_guards.py:94-118).
TripsAtThreshold ==
  /\ state = "closed" <=> failures < Threshold
  /\ age = Unset <=> state = "closed"
  /\ state = "half_open" => age = Timeout

\* The provider is left alone: unless the circuit is closed, no call begins
\* before the recovery timeout has passed since the last failure of any call,
\* probes and late calls of an earlier state included (session_guards.py:73-82,
\* 107-112).
NoEarlyProbe ==
  [][\A c \in Calls : ~InFlight(c) /\ InFlight(c)' => state' = "closed" \/ quiet = Timeout]_circuitVars

\* A provider that stays up is used again: no order of calls, cancelled probes
\* and late failures wedges the circuit open.
Recovers == []<>(~up \/ state = "closed")

\* The comment of HALF_OPEN: one call is allowed through (session_guards.py:45).
OneProbe == Cardinality({c \in Calls : call[c] = "half_open"}) <= 1
=============================================================================
