-------------------------- MODULE FundingRateBatch --------------------------
(***************************************************************************)
(* The tasks of OKXFuturesExchangeConnector::P::getFundingRates()          *)
(* (src/src/okx_futures_exchange_connector.cpp): one for each instrument,  *)
(* each on a thread of its own.  A task asks the exchange while it holds   *)
(* one of the permits of a semaphore, and holds it for a least time so     *)
(* that the exchange's limit is kept; a task whose request fails gives its *)
(* permit back at once.  The thread that started the tasks polls their     *)
(* futures until it has every result.                                      *)
(*                                                                         *)
(* Time is a number of milliseconds and passes between any two steps.      *)
(***************************************************************************)
EXTENDS Integers, Sequences, FiniteSets

CONSTANTS
  Instruments,
  Slots,     \* numJobs
  MinTime,   \* minMsPerRequest
  MaxTime    \* bound: the clock, unless a task sleeps past it

ASSUME BatchAssumption ==
  /\ IsFiniteSet(Instruments)
  /\ Slots \in Nat \ {0} /\ MinTime \in Nat \ {0} /\ MaxTime \in Nat

VARIABLES
  clock,
  task,      \* the task of each instrument, and its future
  results,   \* readyFutures
  starts,    \* history: the requests begun while none had failed
  failed     \* history: a request has failed

batchVars == <<clock, task, results, starts, failed>>

\* began is t1Fr; a task sleeps until the time until.
Task == [pc : {"none", "waiting", "asking", "sleeping", "ready", "thrown", "taken"},
         began : Nat, until : Nat]

Start == [task : Instruments, time : Nat]

NoTask == [pc |-> "none", began |-> 0, until |-> 0]

BatchTypeOK ==
  /\ clock \in Nat
  /\ task \in [Instruments -> Task]
  /\ results \in Seq(Instruments)
  /\ starts \in Seq(Start)
  /\ failed \in BOOLEAN

BatchInit ==
  /\ clock = 0
  /\ task = [i \in Instruments |-> NoTask]
  /\ results = <<>> /\ starts = <<>> /\ failed = FALSE

-----------------------------------------------------------------------------
In(pcs) == {i \in Instruments : task[i].pc \in pcs}

\* Mutant: the permit is given back before the sleep.
MutBusy == In({"asking"})

\* The tasks that hold a permit.
Busy == In({"asking", "sleeping"})

\* The tasks that were started, each with a future.
Launched == Instruments \ In({"none"})

Tick ==
  /\ clock < MaxTime \/ \E i \in In({"sleeping"}) : clock < task[i].until
  /\ clock' = clock + 1
  /\ UNCHANGED <<task, results, starts, failed>>

\* A new call: the tasks of the last one are gone.
Launch(instruments) ==
  /\ In({"none", "taken"}) = Instruments
  /\ task' = [i \in Instruments |->
                IF i \in instruments THEN [NoTask EXCEPT !.pc = "waiting"] ELSE NoTask]
  /\ results' = <<>>
  /\ UNCHANGED <<clock, starts, failed>>

Acquire(i) ==
  /\ task[i].pc = "waiting"
  /\ Cardinality(Busy) < Slots
  /\ task' = [task EXCEPT ![i] = [pc |-> "asking", began |-> clock, until |-> clock]]
  /\ starts' = IF failed THEN starts ELSE Append(starts, [task |-> i, time |-> clock])
  /\ UNCHANGED <<clock, results, failed>>

\* The rest of the least time is cut to a whole number of milliseconds.
HeldUntil(i) ==
  IF clock < task[i].began + MinTime
  THEN {task[i].began + MinTime - 1, task[i].began + MinTime}
  ELSE {clock}

Answer(i) ==
  /\ task[i].pc = "asking"
  /\ \E time \in HeldUntil(i) :
       task' = [task EXCEPT ![i].pc = "sleeping", ![i].until = time]
  /\ UNCHANGED <<clock, results, starts, failed>>

\* The exception leaves the task before its sleep.
Fail(i) ==
  /\ task[i].pc = "asking"
  /\ task' = [task EXCEPT ![i] = [NoTask EXCEPT !.pc = "thrown"]]
  /\ failed' = TRUE
  /\ UNCHANGED <<clock, results, starts>>

\* The permit is given back when the task returns.
Finish(i) ==
  /\ task[i].pc = "sleeping"
  /\ clock >= task[i].until
  /\ task' = [task EXCEPT ![i] = [NoTask EXCEPT !.pc = "ready"]]
  /\ UNCHANGED <<clock, results, starts, failed>>

\* A future whose result was taken is not ready again.
IsReady(i) == task[i].pc = "ready"

Collect(i) ==
  /\ IsReady(i)
  /\ task' = [task EXCEPT ![i].pc = "taken"]
  /\ results' = Append(results, i)
  /\ UNCHANGED <<clock, starts, failed>>

\* A step that a task, or time, takes by itself.
TaskNext ==
  \/ Tick
  \/ \E i \in Instruments : Acquire(i) \/ Answer(i) \/ Fail(i) \/ Finish(i)

BatchNext ==
  \/ TaskNext
  \/ \E instruments \in SUBSET Instruments : Launch(instruments)
  \/ \E i \in Instruments : Collect(i)

-----------------------------------------------------------------------------
\* While no request has failed, at most Slots requests are begun in any time
\* that is shorter than a permit is held.
Promise == INSTANCE SlidingWindow WITH
  granted <- [k \in 1..Len(starts) |-> starts[k].time],
  Limit <- Slots, Window <- MinTime - 2

ImplementsSlidingWindow == Promise!Spec
=============================================================================
