-------------------------- MODULE FuturesConnector --------------------------
(***************************************************************************)
(* OKXFuturesExchangeConnector (src/src/okx_futures_exchange_connector.cpp):*)
(* getFundingRates() returns the rates of the last batch and starts a      *)
(* worker thread for the next one, unless one is running; the worker loads *)
(* the instruments, runs a FundingRateBatch and stores what it got.        *)
(*                                                                         *)
(* One thread, the owner, calls the connector: nothing in the class guards *)
(* two.  The owner logs in only while no worker runs, since login()        *)
(* replaces the RESTClient that the worker uses.                           *)
(***************************************************************************)
EXTENDS FundingRateBatch

CONSTANT MaxTasks   \* bound: the tasks of all batches together

ASSUME ConnectorAssumption == MaxTasks \in Nat

VARIABLES
  instruments,    \* the instruments cached in the RESTClient
  isRunning,
  worker,         \* workerThread: "none" when it is not joinable
  owner,          \* how far the owner is in a call
  fundingRates,   \* the instruments whose rates are stored
  tasks           \* the tasks that were started

connectorVars == <<instruments, isRunning, worker, owner, fundingRates, tasks>>
vars == <<batchVars, connectorVars>>

TypeOK ==
  /\ BatchTypeOK
  /\ instruments \subseteq Instruments
  /\ isRunning \in BOOLEAN
  /\ worker \in {"none", "load", "collect", "store", "clear", "ended", "thrown"}
  /\ owner \in {"idle", "join", "spawn", "joinLast", "destroyed"}
  /\ fundingRates \in Seq(Instruments)
  /\ tasks \in Nat

Init ==
  /\ BatchInit
  /\ instruments = {} /\ isRunning = FALSE
  /\ worker = "none" /\ owner = "idle"
  /\ fundingRates = <<>> /\ tasks = 0

-----------------------------------------------------------------------------
\* An empty cache is filled from the exchange.
LoadInstruments ==
  /\ worker = "load"
  /\ \E loaded \in IF instruments = {} THEN SUBSET Instruments ELSE {instruments} :
       /\ tasks + Cardinality(loaded) <= MaxTasks
       /\ instruments' = loaded /\ Launch(loaded)
       /\ tasks' = tasks + Cardinality(loaded)
  /\ worker' = "collect"
  /\ UNCHANGED <<isRunning, owner, fundingRates>>

\* The request for the instruments fails, or future.get() throws what a task
\* threw: nothing catches it on the worker, and the process is terminated.
Throw ==
  /\ \/ worker = "load" /\ instruments = {}
     \/ worker = "collect" /\ In({"thrown"}) # {}
  /\ worker' = "thrown"
  /\ UNCHANGED <<batchVars, instruments, isRunning, owner, fundingRates, tasks>>

TakeResult(i) ==
  /\ worker = "collect"
  /\ Collect(i)
  /\ UNCHANGED connectorVars

\* Mutant: the loop ends one future early.
MutCollectedLess == Len(results) + 1 >= Cardinality(Launched)

\* Mutant: the loop waits for one result too many.
MutCollectedMore == Len(results) > Cardinality(Launched)

\* The do-while loop has its last round.
Collected == Len(results) >= Cardinality(Launched)

EndLoop ==
  /\ worker = "collect"
  /\ Collected
  /\ worker' = "store"
  /\ UNCHANGED <<batchVars, instruments, isRunning, owner, fundingRates, tasks>>

Store ==
  /\ worker = "store"
  /\ fundingRates' = results
  /\ worker' = "clear"
  /\ UNCHANGED <<batchVars, instruments, isRunning, owner, tasks>>

ClearRunning ==
  /\ worker = "clear"
  /\ isRunning' = FALSE
  /\ worker' = "ended"
  /\ UNCHANGED <<batchVars, instruments, owner, fundingRates, tasks>>

-----------------------------------------------------------------------------
\* Mutant: an earlier worker is not joined.
MutGetFundingRates ==
  /\ owner = "idle"
  /\ ~isRunning /\ tasks + Cardinality(instruments) <= MaxTasks
  /\ isRunning' = TRUE
  /\ owner' = "spawn"
  /\ UNCHANGED <<batchVars, instruments, worker, fundingRates, tasks>>

\* While a worker runs the call only returns what is stored.
GetFundingRates ==
  /\ owner = "idle"
  /\ ~isRunning /\ tasks + Cardinality(instruments) <= MaxTasks
  /\ isRunning' = TRUE
  /\ owner' = IF worker = "none" THEN "spawn" ELSE "join"
  /\ UNCHANGED <<batchVars, instruments, worker, fundingRates, tasks>>

Join ==
  /\ owner \in {"join", "joinLast"}
  /\ worker = "ended"
  /\ worker' = "none"
  /\ owner' = IF owner = "join" THEN "spawn" ELSE "destroyed"
  /\ UNCHANGED <<batchVars, instruments, isRunning, fundingRates, tasks>>

Spawn ==
  /\ owner = "spawn"
  /\ worker' = "load"
  /\ owner' = "idle"
  /\ UNCHANGED <<batchVars, instruments, isRunning, fundingRates, tasks>>

\* A new RESTClient has an empty cache.
Login ==
  /\ owner = "idle" /\ worker \in {"none", "ended"}
  /\ instruments' = {}
  /\ UNCHANGED <<batchVars, isRunning, worker, owner, fundingRates, tasks>>

\* Mutant: the destructor does not wait for the worker.
MutDestroy ==
  /\ owner = "idle"
  /\ owner' = "destroyed"
  /\ UNCHANGED <<batchVars, instruments, isRunning, worker, fundingRates, tasks>>

Destroy ==
  /\ owner = "idle"
  /\ owner' = IF worker = "none" THEN "destroyed" ELSE "joinLast"
  /\ UNCHANGED <<batchVars, instruments, isRunning, worker, fundingRates, tasks>>

WorkerNext ==
  \/ LoadInstruments \/ Throw \/ EndLoop \/ Store \/ ClearRunning
  \/ \E i \in Instruments : TakeResult(i)

\* After an exception on the worker the process does nothing more.
Next ==
  /\ worker # "thrown"
  /\ \/ TaskNext /\ UNCHANGED connectorVars
     \/ WorkerNext
     \/ GetFundingRates \/ Join \/ Spawn \/ Login \/ Destroy

Spec == Init /\ [][Next]_vars

\* Threads that can go on do; a permit that is free again and again is got (no
\* thread is starved by the semaphore); the exchange answers in the end, or the
\* request fails, for HTTPSession has no timeout of its own.  The owner need not
\* call anything, but ends the call it has begun.
FairSpec ==
  /\ Spec
  /\ WF_vars(worker # "thrown" /\ Tick /\ UNCHANGED connectorVars)
  /\ \A i \in Instruments :
       /\ SF_vars(worker # "thrown" /\ Acquire(i) /\ UNCHANGED connectorVars)
       /\ WF_vars(worker # "thrown" /\ (Answer(i) \/ Fail(i)) /\ UNCHANGED connectorVars)
       /\ WF_vars(worker # "thrown" /\ Finish(i) /\ UNCHANGED connectorVars)
  /\ WF_vars(WorkerNext)
  /\ WF_vars(Join) /\ WF_vars(Spawn)

-----------------------------------------------------------------------------
\* What the worker stores, and so what a caller gets, is a whole batch: each
\* of its instruments once, whatever the order in which the tasks ended.
RatesAreComplete ==
  worker = "store" =>
    /\ {results[k] : k \in 1..Len(results)} = Launched
    /\ Len(results) = Cardinality(Launched)

\* A thread object that still has a thread is never overwritten, which would
\* terminate the process: the flag that lets a call start a worker is cleared
\* by the last one before it has ended.
EarlierWorkerIsJoined ==
  [][worker' = "load" /\ worker # "load" => worker = "none"]_vars

\* Nothing uses the connector or its RESTClient once they are destroyed.
NothingOutlivesTheConnector ==
  owner = "destroyed" => worker = "none" /\ In({"none", "taken"}) = Instruments

\* A worker does not go on forever: the loop ends, and the flag is cleared or
\* the process is terminated, so that rates can be asked for again.
EveryBatchEnds == worker = "load" ~> worker = "thrown" \/ ~isRunning
=============================================================================
