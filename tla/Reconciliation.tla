---------------------------- MODULE Reconciliation ----------------------------
(***************************************************************************)
(* ReconciliationEngine (core/reconciliation.py) and the worker that runs  *)
(* it in a loop (core/reconciliation_worker.py).                           *)
(*                                                                         *)
(* A pass asks the broker for positions, orders and cash, one after the    *)
(* other.  The broker answers as it is at some moment; the books are read  *)
(* when the pass resumes, later.  A call that raises leaves its part of    *)
(* the report empty.  Loops and a run_once interleave at every await, and  *)
(* so do start and stop.                                                   *)
(***************************************************************************)
EXTENDS BrokerAccount, Functions

CONSTANTS
  Loops,        \* tasks start may create
  Callers,      \* callers of run_once
  Tolerance,    \* lots, and hundreds, beyond which a difference is fatal
  None

ASSUME ReconciliationAssumption ==
  /\ Loops \cap Callers = {} /\ None \notin Loops \cup Callers
  /\ Tolerance \in Nat \ {0}

VARIABLES
  pass,         \* each pass: [at, call, answer, found]
  blocked,      \* _blocked
  loop,         \* each task: new, ready, pass, callback, sleep or done
  task,         \* _task
  halt,         \* _stop_event
  stopper,      \* a call of stop: where it is, and the task it waits for
  unsettled,    \* history: fills or fees under way since the pass's answer
  stray,        \* history: the books really missed something
  crowded,      \* history: a fatal difference was more than one fill under way
  overlapped    \* history: a start came while a stop was under way

engineVars == <<pass, blocked, unsettled, crowded>>
workerVars == <<loop, task, halt, stopper, overlapped>>
reconciliationVars == <<engineVars, workerVars, stray>>

Passes == Loops \cup Callers
Parts == {"positions", "orders", "cash"}
Idle == [at |-> "idle", call |-> "open", answer |-> None, found |-> {}]

ReconciliationTypeOK ==
  /\ \A a \in Passes :
       /\ pass[a].at \in Parts \cup {"idle"}
       /\ pass[a].call \in {"open", "answered", "raised"}
       /\ pass[a].found \subseteq {"recoverable", "fatal"}
  /\ blocked \in BOOLEAN /\ stray \in BOOLEAN /\ crowded \in BOOLEAN /\ overlapped \in BOOLEAN
  /\ loop \in [Loops -> {"new", "ready", "pass", "callback", "sleep", "done"}]
  /\ task \in Loops \cup {None}
  /\ halt \in BOOLEAN
  /\ stopper \in [at : {"idle", "waiting", "timed_out", "clearing"}, on : Loops \cup {None}]
  /\ unsettled \in [Passes -> 0..Tolerance + 1]

ReconciliationInit ==
  /\ pass = [a \in Passes |-> Idle]
  /\ blocked = FALSE
  /\ loop = [l \in Loops |-> "new"]
  /\ task = None /\ halt = FALSE
  /\ stopper = [at |-> "idle", on |-> None]
  /\ unsettled = [a \in Passes |-> 0]
  /\ stray = FALSE /\ crowded = FALSE /\ overlapped = FALSE

-----------------------------------------------------------------------------
(* What a part of the report finds, from the broker's answer and the books *)

Distance(x, y) == IF x > y THEN x - y ELSE y - x

\* Mutant: any difference is fatal.
Strict(d) == "fatal"

Severity(d) == IF d > Tolerance THEN "fatal" ELSE "recoverable"

\* Only instruments the broker reports, and it omits flat ones, are compared.
InPositions(answer) ==
  {Severity(Distance(answer[i], booked[i])) :
     i \in {j \in Instruments : answer[j] # 0 /\ answer[j] # booked[j]}}

InOrders(answer) == IF answer \subseteq listed THEN {} ELSE {"recoverable"}

\* Cash is compared when both sides have some.
InCash(answer) ==
  IF answer > 0 /\ balance > 0 /\ answer # balance
    THEN {Severity(Distance(answer, balance))} ELSE {}

Found(a) ==
  IF pass[a].call = "raised" THEN {}
  ELSE CASE pass[a].at = "positions" -> InPositions(pass[a].answer)
         [] pass[a].at = "orders"    -> InOrders(pass[a].answer)
         [] pass[a].at = "cash"      -> InCash(pass[a].answer)

-----------------------------------------------------------------------------
(* reconcile *)

At(part, found) == [Idle EXCEPT !.at = part, !.found = found]

Asks(a) == [pass EXCEPT ![a] = At("positions", {})]

Lots(o) == Distance(LotsOf[o], 0)

\* Lots of the fills the OMS has not heard of.
UnderWay == SumFunctionOnSet([o \in Orders |-> Lots(o)], unreported)

Saturated(n) == IF n > Tolerance THEN Tolerance + 1 ELSE n

\* Positions that are not typed read as none; only paper's adapter tells its
\* orders and its cash, the others are not asked.
BrokerSays(part, b) ==
  CASE part = "positions" -> IF Typed(b) THEN Positions(b) ELSE Nothing
    [] part = "orders"    -> IF b = "paper" THEN Working ELSE {}
    [] part = "cash"      -> IF b = "paper" THEN cash ELSE 0

\* The broker answers a question, or the call raises.
Answer(a) ==
  \E b \in Adapters :
    /\ pass[a].at \in Parts /\ pass[a].call = "open"
    /\ pass' = IF pass[a].at = "positions" /\ Refuses(b)
         THEN [pass EXCEPT ![a].call = "raised"]
         ELSE [pass EXCEPT ![a].call = "answered", ![a].answer = BrokerSays(pass[a].at, b)]
    /\ unsettled' = [unsettled EXCEPT ![a] =
         Saturated(IF pass[a].at = "cash" THEN balance - cash ELSE UnderWay)]
    /\ UNCHANGED <<blocked, crowded>>

Answered(a) == pass[a].call # "open"

\* Did more than the tolerance happen between the answer and the books?
Crowds(a) == Found(a) \cap {"fatal"} # {} /\ unsettled[a] > Tolerance

\* Positions or orders are compared, and the next question asked.
Compare(a, next) ==
  /\ Answered(a)
  /\ pass' = [pass EXCEPT ![a] = At(next, @.found \cup Found(a))]
  /\ unsettled' = [unsettled EXCEPT ![a] = 0]
  /\ crowded' = (crowded \/ Crowds(a))
  /\ UNCHANGED blocked

ComparePositions(a) == pass[a].at = "positions" /\ Compare(a, "orders")
CompareOrders(a) == pass[a].at = "orders" /\ Compare(a, "cash")

ReportOf(a) == pass[a].found \cup Found(a)

\* Mutant: the last part's own result decides.
ConcludeLast(a) ==
  /\ pass[a].at = "cash" /\ Answered(a)
  /\ blocked' = (blocked \/ "fatal" \in Found(a))
  /\ crowded' = (crowded \/ Crowds(a))
  /\ pass' = [pass EXCEPT ![a] = Idle]
  /\ unsettled' = [unsettled EXCEPT ![a] = 0]

\* Cash is compared; a fatal report blocks new orders.
Conclude(a) ==
  /\ pass[a].at = "cash" /\ Answered(a)
  /\ blocked' = (blocked \/ "fatal" \in ReportOf(a))
  /\ crowded' = (crowded \/ Crowds(a))
  /\ pass' = [pass EXCEPT ![a] = Idle]
  /\ unsettled' = [unsettled EXCEPT ![a] = 0]

\* unblock, by the operator.
Unblock ==
  /\ blocked
  /\ blocked' = FALSE
  /\ UNCHANGED <<pass, unsettled, crowded>>

-----------------------------------------------------------------------------
(* The loop of the worker, and run_once *)

Live(l) == loop[l] \notin {"new", "done"}
Running == task # None /\ Live(task)

\* The top of the loop, on a new task or after the interval.
Turn(l) ==
  /\ loop[l] \in {"ready", "sleep"}
  /\ loop' = [loop EXCEPT ![l] = IF halt THEN "done" ELSE "pass"]
  /\ pass' = IF halt THEN pass ELSE Asks(l)
  /\ UNCHANGED <<blocked, unsettled, crowded, task, halt, stopper, overlapped>>

Proceed(a) == Answer(a) \/ ComparePositions(a) \/ CompareOrders(a)

InPass(l) == loop[l] = "pass" /\ Proceed(l) /\ UNCHANGED workerVars

\* The report is kept; on_mismatch is awaited unless it is clean.
Ingest(l) ==
  /\ loop[l] = "pass" /\ Conclude(l)
  /\ loop' = [loop EXCEPT ![l] = IF ReportOf(l) = {} THEN "sleep" ELSE "callback"]
  /\ UNCHANGED <<task, halt, stopper, overlapped>>

\* on_mismatch returns, or raises and is logged.
CalledBack(l) ==
  /\ loop[l] = "callback"
  /\ loop' = [loop EXCEPT ![l] = "sleep"]
  /\ UNCHANGED <<engineVars, task, halt, stopper, overlapped>>

RunOnce(c) ==
  /\ pass[c].at = "idle"
  /\ pass' = Asks(c)
  /\ UNCHANGED <<blocked, unsettled, crowded, workerVars>>

InOnce(c) == (Proceed(c) \/ Conclude(c)) /\ UNCHANGED workerVars

-----------------------------------------------------------------------------
(* start and stop *)

\* Mutant: start does not look for a running loop.
StartAnyway(l) ==
  /\ loop[l] = "new"
  /\ halt' = FALSE /\ task' = l
  /\ loop' = [loop EXCEPT ![l] = "ready"]
  /\ overlapped' = (overlapped \/ stopper.at # "idle")
  /\ UNCHANGED <<engineVars, stopper>>

Start(l) ==
  /\ loop[l] = "new" /\ ~Running
  /\ halt' = FALSE /\ task' = l
  /\ loop' = [loop EXCEPT ![l] = "ready"]
  /\ overlapped' = (overlapped \/ stopper.at # "idle")
  /\ UNCHANGED <<engineVars, stopper>>

Stop ==
  /\ stopper.at = "idle" /\ Running
  /\ halt' = TRUE
  /\ stopper' = [at |-> "waiting", on |-> task]
  /\ UNCHANGED <<engineVars, loop, task, overlapped>>

\* A cancelled loop drops its pass.
Cancelled(l) ==
  /\ loop' = [loop EXCEPT ![l] = "done"]
  /\ pass' = [pass EXCEPT ![l] = Idle]
  /\ unsettled' = [unsettled EXCEPT ![l] = 0]

StopEnds ==
  /\ task' = None
  /\ stopper' = [at |-> "idle", on |-> None]
  /\ UNCHANGED <<engineVars, loop, halt, overlapped>>

\* The loop ended by itself: wait_for returns.
StopReturns ==
  /\ stopper.at = "waiting" /\ loop[stopper.on] = "done"
  /\ StopEnds

\* The timeout: wait_for cancels the loop it waits for.
StopTimesOut ==
  /\ stopper.at = "waiting" /\ loop[stopper.on] # "done"
  /\ Cancelled(stopper.on)
  /\ stopper' = [stopper EXCEPT !.at = "timed_out"]
  /\ UNCHANGED <<blocked, crowded, task, halt, overlapped>>

\* except TimeoutError: whatever _task is by now is cancelled, if anything is.
StopCancels ==
  /\ stopper.at = "timed_out"
  /\ IF Running THEN Cancelled(task) ELSE UNCHANGED <<loop, pass, unsettled>>
  /\ stopper' = [stopper EXCEPT !.at = "clearing"]
  /\ UNCHANGED <<blocked, crowded, task, halt, overlapped>>

StopClears == stopper.at = "clearing" /\ StopEnds

LoopStep(l) == Turn(l) \/ InPass(l) \/ Ingest(l) \/ CalledBack(l)
StopStep == StopReturns \/ StopTimesOut \/ StopCancels \/ StopClears

ReconciliationStep ==
  \/ \E l \in Loops : LoopStep(l) \/ Start(l)
  \/ \E c \in Callers : RunOnce(c) \/ InOnce(c)
  \/ Stop \/ StopStep
  \/ Unblock /\ UNCHANGED workerVars
=============================================================================
