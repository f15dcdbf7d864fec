---------------------- MODULE FuturesConnector_proofs ----------------------
(***************************************************************************)
(* Proofs about FuturesConnector, for every finite set of instruments,     *)
(* number of permits and least time.                                       *)
(*                                                                         *)
(* The limit on the requests holds because of who has the permits: every   *)
(* request that is younger than the least time belongs to a task that      *)
(* still has its permit, and to no other request of that age.  If the last *)
(* Slots requests are all that young, their tasks are Slots different ones *)
(* that have a permit each, and no further request can begin.              *)
(***************************************************************************)
EXTENDS FuturesConnector, FiniteSetTheorems, TLAPS

USE BatchAssumption

\* A request that is younger than the time its permit is held.
Young(k) == starts[k].time + MinTime - 1 > clock

StartsInOrder ==
  /\ \A k \in 1..Len(starts) : starts[k].time <= clock
  /\ \A j, k \in 1..Len(starts) : j <= k => starts[j].time <= starts[k].time

YoungHoldPermits ==
  ~failed =>
    /\ \A k \in 1..Len(starts) : Young(k) =>
         starts[k].task \in Busy /\ task[starts[k].task].began = starts[k].time
    /\ \A j, k \in 1..Len(starts) :
         Young(j) /\ Young(k) /\ j # k => starts[j].task # starts[k].task

SleepsLongEnough ==
  \A i \in In({"sleeping"}) : task[i].until + 1 >= task[i].began + MinTime

ResultsAreTaken ==
  /\ {results[k] : k \in 1..Len(results)} = In({"taken"})
  /\ Len(results) = Cardinality(In({"taken"}))

BatchInv ==
  /\ BatchTypeOK
  /\ StartsInOrder
  /\ YoungHoldPermits
  /\ SleepsLongEnough
  /\ ResultsAreTaken

-----------------------------------------------------------------------------
LEMMA InIsFinite == \A pcs : IsFiniteSet(In(pcs)) /\ In(pcs) \subseteq Instruments
BY FS_Subset DEF In

LEMMA StartTypes ==
  ASSUME BatchTypeOK, NEW k \in 1..Len(starts)
  PROVE  starts[k].task \in Instruments /\ starts[k].time \in Nat
<1>1. starts[k] \in Start
  BY DEF BatchTypeOK
<1> QED
  BY <1>1 DEF Start

LEMMA BatchInitInv == BatchInit => BatchInv
<1> SUFFICES ASSUME BatchInit PROVE BatchInv
  OBVIOUS
<1>1. In({"taken"}) = {} /\ In({"sleeping"}) = {}
  BY DEF BatchInit, In, NoTask
<1>2. BatchTypeOK
  <2>1. NoTask \in Task
    BY DEF NoTask, Task
  <2>2. task \in [Instruments -> Task]
    BY <2>1 DEF BatchInit
  <2>3. starts \in Seq(Start) /\ results \in Seq(Instruments)
    BY DEF BatchInit
  <2> QED
    BY <2>2, <2>3 DEF BatchInit, BatchTypeOK
<1>3. StartsInOrder /\ YoungHoldPermits /\ SleepsLongEnough
  BY <1>1 DEF BatchInit, StartsInOrder, YoungHoldPermits, SleepsLongEnough
<1>4. ResultsAreTaken
  <2>1. results = <<>> /\ Len(<<>>) = 0
    BY DEF BatchInit
  <2> QED
    BY <1>1, <2>1, FS_EmptySet DEF ResultsAreTaken
<1> QED
  BY <1>2, <1>3, <1>4 DEF BatchInv

\* A step of one task that begins no request, fails none and is not taken.
LEMMA TaskStepInv ==
  ASSUME BatchInv, NEW i \in Instruments, NEW t \in Task,
         task' = [task EXCEPT ![i] = t], UNCHANGED <<clock, starts, results>>,
         task[i].pc # "taken", t.pc # "taken",
         t.pc = "sleeping" => t.until + 1 >= t.began + MinTime,
         \/ failed'
         \/ /\ failed' = failed
            /\ i \in Busy =>
                 \/ t.pc \in {"asking", "sleeping"} /\ t.began = task[i].began
                 \/ clock + 1 >= task[i].began + MinTime,
         failed' \in BOOLEAN
  PROVE  BatchInv'
<1> USE DEF BatchInv
<1>1. BatchTypeOK' /\ StartsInOrder'
  BY DEF BatchTypeOK, StartsInOrder
<1>2. task'[i] = t /\ \A j \in Instruments \ {i} : task'[j] = task[j]
  BY DEF BatchTypeOK
<1>3. In({"taken"})' = In({"taken"}) /\ ResultsAreTaken'
  <2>1. \A j \in Instruments : task'[j].pc = "taken" <=> task[j].pc = "taken"
    BY <1>2
  <2>2. In({"taken"})' = In({"taken"})
    BY <2>1 DEF In
  <2> QED
    BY <2>2 DEF ResultsAreTaken
<1>4. SleepsLongEnough'
  BY <1>2 DEF SleepsLongEnough, In
<1>5. YoungHoldPermits'
  <2> SUFFICES ASSUME ~failed' PROVE YoungHoldPermits'
    BY DEF YoungHoldPermits
  <2>0. ~failed
    OBVIOUS
  <2>1. ASSUME NEW k \in 1..Len(starts), Young(k)
        PROVE  starts[k].task \in Busy' /\ task'[starts[k].task].began = starts[k].time
    <3>0. /\ starts[k].task \in Instruments /\ starts[k].time \in Nat
          /\ clock \in Nat
      BY StartTypes DEF BatchTypeOK
    <3>1. starts[k].task \in Busy /\ task[starts[k].task].began = starts[k].time
      BY <2>0, <2>1 DEF YoungHoldPermits
    <3>2. CASE starts[k].task = i
      BY <2>1, <3>0, <3>1, <3>2, <1>2 DEF Young, Busy, In
    <3>3. CASE starts[k].task # i
      BY <3>0, <3>1, <3>3, <1>2 DEF Busy, In
    <3> QED
      BY <3>2, <3>3
  <2> QED
    BY <2>0, <2>1 DEF YoungHoldPermits, Young
<1> QED
  BY <1>1, <1>3, <1>4, <1>5

LEMMA TickInv == BatchInv /\ Tick => BatchInv'
<1> SUFFICES ASSUME BatchInv, Tick PROVE BatchInv'
  OBVIOUS
<1> USE DEF BatchInv
<1>1. clock \in Nat /\ clock' = clock + 1 /\ UNCHANGED <<task, results, starts, failed>>
  BY DEF Tick, BatchTypeOK
<1>2. \A pcs : In(pcs)' = In(pcs)
  BY <1>1 DEF In
<1>3. \A k \in 1..Len(starts) : starts[k].time \in Nat /\ (Young(k)' => Young(k))
  BY <1>1, StartTypes DEF Young
<1>4. YoungHoldPermits'
  BY <1>1, <1>2, <1>3 DEF YoungHoldPermits, Busy
<1>5. BatchTypeOK'
  BY <1>1 DEF BatchTypeOK
<1>6. SleepsLongEnough' /\ ResultsAreTaken' /\ StartsInOrder'
  BY <1>1, <1>2, <1>3 DEF SleepsLongEnough, ResultsAreTaken, StartsInOrder
<1> QED
  BY <1>4, <1>5, <1>6

LEMMA LaunchInv ==
  ASSUME BatchInv, NEW S \in SUBSET Instruments, Launch(S) PROVE BatchInv'
<1> USE DEF BatchInv
<1>1. /\ task' \in [Instruments -> Task]
      /\ \A i \in Instruments : task'[i].pc \in {"none", "waiting"}
      /\ results' = <<>> /\ UNCHANGED <<clock, starts, failed>>
  BY DEF Launch, NoTask, Task
<1>2. In({"taken"})' = {} /\ In({"sleeping"})' = {}
  BY <1>1 DEF In
<1>3. Busy = {}
  BY DEF Launch, Busy, In
<1>4. YoungHoldPermits'
  BY <1>1, <1>3 DEF YoungHoldPermits, Young
<1>5. BatchTypeOK' /\ StartsInOrder'
  BY <1>1 DEF BatchTypeOK, StartsInOrder
<1>6. SleepsLongEnough'
  BY <1>2 DEF SleepsLongEnough
<1>7. ResultsAreTaken'
  <2>1. Len(results') = 0 /\ 1..Len(results') = {}
    BY <1>1
  <2> QED
    BY <1>2, <2>1, FS_EmptySet DEF ResultsAreTaken
<1> QED
  BY <1>4, <1>5, <1>6, <1>7

LEMMA CollectInv ==
  ASSUME BatchInv, NEW i \in Instruments, Collect(i) PROVE BatchInv'
<1> USE DEF BatchInv
<1>1. /\ task[i].pc = "ready" /\ UNCHANGED <<clock, starts, failed>>
      /\ task' = [task EXCEPT ![i].pc = "taken"]
      /\ task' \in [Instruments -> Task]
      /\ results' = Append(results, i)
  BY DEF Collect, IsReady, BatchTypeOK, Task
<1>2. /\ task'[i].pc = "taken" /\ \A j \in Instruments \ {i} : task'[j] = task[j]
  BY <1>1 DEF BatchTypeOK
<1>3. /\ In({"taken"})' = In({"taken"}) \cup {i} /\ i \notin In({"taken"})
      /\ In({"sleeping"})' = In({"sleeping"}) /\ Busy' = Busy /\ i \notin Busy
  BY <1>1, <1>2 DEF In, Busy
<1>4. ResultsAreTaken'
  <2>1. /\ Len(results') = Len(results) + 1
        /\ {results'[k] : k \in 1..Len(results')} = {results[k] : k \in 1..Len(results)} \cup {i}
    <3>1. results \in Seq(Instruments)
      BY DEF BatchTypeOK
    <3>2. /\ Len(results') = Len(results) + 1
          /\ results'[Len(results) + 1] = i
          /\ \A k \in 1..Len(results) : results'[k] = results[k]
      BY <1>1, <3>1
    <3>3. 1..Len(results') = 1..Len(results) \cup {Len(results) + 1}
      BY <3>1, <3>2
    <3> QED
      BY <3>2, <3>3
  <2>2. Cardinality(In({"taken"})') = Cardinality(In({"taken"})) + 1
    BY <1>3, InIsFinite, FS_AddElement
  <2> QED
    BY <1>3, <2>1, <2>2 DEF ResultsAreTaken
<1>5. YoungHoldPermits'
  BY <1>1, <1>2, <1>3 DEF YoungHoldPermits, Young
<1>6. SleepsLongEnough'
  BY <1>2, <1>3 DEF SleepsLongEnough, In
<1>7. BatchTypeOK' /\ StartsInOrder'
  BY <1>1 DEF BatchTypeOK, StartsInOrder
<1> QED
  BY <1>4, <1>5, <1>6, <1>7

-----------------------------------------------------------------------------
\* A task that gets a permit while the last Slots requests are young: each of
\* them has a permit, so that none is left.
LEMMA PermitsBoundYoung ==
  ASSUME BatchInv, NEW i \in Instruments, Acquire(i), ~failed,
         Len(starts) >= Slots
  PROVE  ~Young(Len(starts) + 1 - Slots)
<1> USE DEF BatchInv
<1> DEFINE n == Len(starts)
           Last == n + 1 - Slots .. n
           holder == [k \in Last |-> starts[k].task]
<1> SUFFICES ASSUME Young(n + 1 - Slots) PROVE FALSE
  OBVIOUS
<1>1. n \in Nat /\ Last \subseteq 1..n /\ clock \in Nat
  BY DEF BatchTypeOK
<1>2. \A k \in Last : Young(k)
  BY <1>1, StartTypes DEF StartsInOrder, Young
<1>3. holder \in [Last -> Busy]
  BY <1>1, <1>2 DEF YoungHoldPermits
<1>4. \A j, k \in Last : j # k => holder[j] # holder[k]
  BY <1>1, <1>2 DEF YoungHoldPermits
<1>5. IsFiniteSet(Last) /\ Cardinality(Last) = Slots
  <2>1. n + 1 - Slots \in Int /\ n \in Int
    BY <1>1
  <2>2. IsFiniteSet(Last) /\ Cardinality(Last) = IF n + 1 - Slots > n THEN 0 ELSE n - (n + 1 - Slots) + 1
    BY <2>1, FS_Interval
  <2> QED
    BY <1>1, <2>2
<1>6. IsFiniteSet(Busy) /\ Cardinality(Busy) < Slots
  BY InIsFinite DEF Busy, Acquire
<1>7. Cardinality(Busy) < Cardinality(Last)
  BY <1>5, <1>6
<1> HIDE DEF holder, Last
<1>8. \E j, k \in Last : j # k /\ holder[j] = holder[k]
  BY <1>3, <1>5, <1>6, <1>7, FS_PigeonHole
<1> QED
  BY <1>4, <1>8

LEMMA AcquireInv ==
  ASSUME BatchInv, NEW i \in Instruments, Acquire(i) PROVE BatchInv'
<1> USE DEF BatchInv
<1> DEFINE n == Len(starts)  new == [task |-> i, time |-> clock]
<1>1. /\ task[i].pc = "waiting" /\ UNCHANGED <<clock, results, failed>>
      /\ task' = [task EXCEPT ![i] = [pc |-> "asking", began |-> clock, until |-> clock]]
      /\ clock \in Nat
      /\ starts' = IF failed THEN starts ELSE Append(starts, new)
  BY DEF Acquire, BatchTypeOK
<1>2. /\ task'[i].pc = "asking" /\ task'[i].began = clock
      /\ \A j \in Instruments \ {i} : task'[j] = task[j]
  BY <1>1 DEF BatchTypeOK
<1>3. /\ In({"taken"})' = In({"taken"}) /\ In({"sleeping"})' = In({"sleeping"})
      /\ Busy' = Busy \cup {i} /\ i \notin Busy
  BY <1>1, <1>2 DEF In, Busy
<1>4. ResultsAreTaken' /\ SleepsLongEnough'
  <2>1. ResultsAreTaken'
    BY <1>1, <1>3 DEF ResultsAreTaken
  <2>2. \A j \in In({"sleeping"}) : j # i /\ j \in Instruments
    BY <1>1 DEF In
  <2>3. SleepsLongEnough'
    BY <1>2, <1>3, <2>2 DEF SleepsLongEnough
  <2> QED
    BY <2>1, <2>3
<1>5. new \in Start /\ starts \in Seq(Start) /\ new.time = clock /\ new.task = i
  BY <1>1 DEF Start, BatchTypeOK
<1>6. n \in Nat /\ starts' \in Seq(Start)
  BY <1>1, <1>5
<1>7. BatchTypeOK'
  <2>1. task' \in [Instruments -> Task]
    BY <1>1 DEF BatchTypeOK, Task
  <2> QED
    BY <1>1, <1>6, <2>1 DEF BatchTypeOK
<1>8. CASE failed
  BY <1>1, <1>4, <1>7, <1>8 DEF StartsInOrder, YoungHoldPermits
<1>9. CASE ~failed
  <2> HIDE DEF new
  <2>1. /\ Len(starts') = n + 1 /\ starts'[n + 1] = new
        /\ \A k \in 1..n : starts'[k] = starts[k]
    BY <1>1, <1>5, <1>9
  <2>2. StartsInOrder'
    BY <1>1, <1>5, <1>6, <2>1, StartTypes DEF StartsInOrder
  <2>3. ASSUME NEW k \in 1..n, Young(k)'
        PROVE  /\ starts[k].task \in Busy /\ starts[k].task # i /\ Young(k)
               /\ task'[starts[k].task].began = starts[k].time
    BY <1>1, <1>2, <1>3, <1>9, <2>1, <2>3, StartTypes DEF Young, YoungHoldPermits
  <2>4. YoungHoldPermits'
    <3>1. ASSUME NEW k \in 1..n + 1, Young(k)'
          PROVE  starts'[k].task \in Busy' /\ task'[starts'[k].task].began = starts'[k].time
      BY <1>2, <1>3, <1>5, <1>6, <2>1, <2>3, <3>1
    <3>2. ASSUME NEW j \in 1..n + 1, NEW k \in 1..n + 1, Young(j)', Young(k)', j # k
          PROVE  starts'[j].task # starts'[k].task
      BY <1>5, <1>6, <1>9, <2>1, <2>3, <3>2 DEF YoungHoldPermits
    <3> QED
      BY <2>1, <3>1, <3>2 DEF YoungHoldPermits
  <2> QED
    BY <1>4, <1>7, <2>2, <2>4
<1> QED
  BY <1>8, <1>9

LEMMA TaskNextInv == BatchInv /\ TaskNext => BatchInv'
<1> SUFFICES ASSUME BatchInv, TaskNext PROVE BatchInv'
  OBVIOUS
<1>0. clock \in Nat /\ task \in [Instruments -> Task] /\ failed \in BOOLEAN
  BY DEF BatchInv, BatchTypeOK
<1>1. CASE Tick
  BY <1>1, TickInv
<1>2. ASSUME NEW i \in Instruments, Acquire(i) PROVE BatchInv'
  BY <1>2, AcquireInv
<1>3. ASSUME NEW i \in Instruments, Answer(i) PROVE BatchInv'
  <2>1. PICK time \in HeldUntil(i) :
          task' = [task EXCEPT ![i].pc = "sleeping", ![i].until = time]
    BY <1>3 DEF Answer
  <2> DEFINE t == [task[i] EXCEPT !.pc = "sleeping", !.until = time]
  <2>2. task[i] \in Task /\ task[i].began \in Nat
    BY <1>0 DEF Task
  <2>3. time \in Nat /\ time + 1 >= task[i].began + MinTime
    BY <1>0, <2>2 DEF HeldUntil
  <2>4. /\ t \in Task /\ t.pc = "sleeping" /\ t.until = time /\ t.began = task[i].began
        /\ task' = [task EXCEPT ![i] = t]
    BY <1>0, <2>1, <2>2, <2>3 DEF Task
  <2> HIDE DEF t
  <2> QED
    BY <1>0, <1>3, <2>3, <2>4, TaskStepInv DEF Answer
<1>4. ASSUME NEW i \in Instruments, Fail(i) PROVE BatchInv'
  <2>1. [NoTask EXCEPT !.pc = "thrown"] \in Task
    BY DEF NoTask, Task
  <2> QED
    BY <1>4, <2>1, TaskStepInv DEF Fail, NoTask
<1>5. ASSUME NEW i \in Instruments, Finish(i) PROVE BatchInv'
  <2>1. [NoTask EXCEPT !.pc = "ready"] \in Task
    BY DEF NoTask, Task
  <2>2. clock + 1 >= task[i].began + MinTime
    BY <1>0, <1>5 DEF Finish, BatchInv, SleepsLongEnough, In, Task
  <2> QED
    BY <1>0, <1>5, <2>1, <2>2, TaskStepInv DEF Finish, NoTask
<1> QED
  BY <1>1, <1>2, <1>3, <1>4, <1>5 DEF TaskNext

-----------------------------------------------------------------------------
TasksAreGone ==
  worker \notin {"collect", "thrown"} => In({"none", "taken"}) = Instruments

OwnerInv ==
  owner \in {"spawn", "destroyed"} => worker = "none"

ConnectorInv ==
  /\ TypeOK
  /\ BatchInv
  /\ TasksAreGone
  /\ OwnerInv

LEMMA InitInv == Init => ConnectorInv
<1> SUFFICES ASSUME Init PROVE ConnectorInv
  OBVIOUS
<1>1. BatchInv /\ BatchTypeOK
  BY BatchInitInv DEF Init, BatchInv
<1>2. In({"none", "taken"}) = Instruments
  BY DEF Init, BatchInit, In, NoTask
<1>3. TypeOK
  <2>1. instruments \subseteq Instruments /\ fundingRates \in Seq(Instruments)
    BY DEF Init
  <2>2. worker = "none" /\ owner = "idle" /\ isRunning = FALSE /\ tasks = 0
    BY DEF Init
  <2> QED
    BY <1>1, <2>1, <2>2 DEF TypeOK
<1> QED
  BY <1>1, <1>2, <1>3 DEF Init, ConnectorInv, TasksAreGone, OwnerInv

\* The loop ends when every task's result was taken.
LEMMA CollectedAll ==
  ASSUME BatchInv, Collected
  PROVE  In({"taken"}) = Launched /\ In({"none", "taken"}) = Instruments
<1>1. /\ In({"taken"}) \subseteq Launched /\ IsFiniteSet(Launched)
  BY FS_Subset DEF In, Launched
<1>2. Cardinality(In({"taken"})) >= Cardinality(Launched)
  BY DEF BatchInv, ResultsAreTaken, Collected
<1>3. In({"taken"}) = Launched
  BY <1>1, <1>2, FS_Subset, FS_CardinalityType
<1> QED
  BY <1>3 DEF In, Launched

LEMMA BatchStutters ==
  ASSUME BatchInv, UNCHANGED batchVars
  PROVE  BatchInv' /\ In({"none", "taken"})' = In({"none", "taken"})
<1>1. UNCHANGED clock /\ UNCHANGED task /\ UNCHANGED results /\ UNCHANGED starts
      /\ UNCHANGED failed
  BY DEF batchVars
<1>2. \A pcs : In(pcs)' = In(pcs)
  BY <1>1 DEF In
<1>3. BatchTypeOK' /\ StartsInOrder'
  BY <1>1 DEF BatchInv, BatchTypeOK, StartsInOrder
<1>4. YoungHoldPermits'
  BY <1>1, <1>2 DEF BatchInv, YoungHoldPermits, Young, Busy
<1>5. SleepsLongEnough' /\ ResultsAreTaken'
  BY <1>1, <1>2 DEF BatchInv, SleepsLongEnough, ResultsAreTaken
<1> QED
  BY <1>2, <1>3, <1>4, <1>5 DEF BatchInv

\* Steps of the batch that leave the connector alone.
LEMMA ConnectorStutters ==
  ASSUME ConnectorInv, BatchInv', UNCHANGED connectorVars, TasksAreGone'
  PROVE  ConnectorInv'
BY DEF ConnectorInv, TypeOK, BatchInv, OwnerInv, connectorVars

LEMMA TaskInv ==
  ASSUME ConnectorInv, TaskNext, UNCHANGED connectorVars PROVE ConnectorInv'
<1>1. BatchInv'
  BY TaskNextInv DEF ConnectorInv
<1>2. TasksAreGone'
  <2> SUFFICES ASSUME worker \notin {"collect", "thrown"}
               PROVE  In({"none", "taken"})' = Instruments
    BY DEF TasksAreGone, connectorVars
  <2>1. \A i \in Instruments : task[i].pc \in {"none", "taken"}
    BY DEF ConnectorInv, TasksAreGone, In
  <2>2. UNCHANGED task
    BY <2>1 DEF TaskNext, Tick, Acquire, Answer, Fail, Finish
  <2> QED
    BY <2>1, <2>2 DEF In
<1> QED
  BY <1>1, <1>2, ConnectorStutters

LEMMA LoadInv == ConnectorInv /\ LoadInstruments => ConnectorInv'
<1> SUFFICES ASSUME ConnectorInv, LoadInstruments PROVE ConnectorInv'
  OBVIOUS
<1>1. PICK loaded \in SUBSET Instruments :
        Launch(loaded) /\ instruments' = loaded /\ tasks' = tasks + Cardinality(loaded)
  BY DEF LoadInstruments, ConnectorInv, TypeOK
<1>2. BatchInv'
  BY <1>1, LaunchInv DEF ConnectorInv
<1>3. tasks' \in Nat
  BY <1>1, FS_Subset, FS_CardinalityType DEF ConnectorInv, TypeOK
<1> QED
  BY <1>1, <1>2, <1>3
  DEF LoadInstruments, ConnectorInv, TypeOK, BatchInv, TasksAreGone, OwnerInv

LEMMA TakeResultInv ==
  ASSUME ConnectorInv, NEW i \in Instruments, TakeResult(i) PROVE ConnectorInv'
<1>1. BatchInv'
  BY CollectInv DEF ConnectorInv, TakeResult
<1>2. TasksAreGone'
  BY DEF TakeResult, TasksAreGone, connectorVars
<1> QED
  BY <1>1, <1>2, ConnectorStutters DEF TakeResult

\* Steps of the worker and the owner that leave the batch alone.
LEMMA ControlInv ==
  ASSUME ConnectorInv,
         \/ Throw \/ EndLoop \/ Store \/ ClearRunning
         \/ GetFundingRates \/ Join \/ Spawn \/ Login \/ Destroy
  PROVE  ConnectorInv'
<1> USE DEF ConnectorInv
<1>1. UNCHANGED batchVars
  BY DEF Throw, EndLoop, Store, ClearRunning, GetFundingRates, Join, Spawn, Login, Destroy
<1>2. BatchInv' /\ BatchTypeOK' /\ In({"none", "taken"})' = In({"none", "taken"})
  BY <1>1, BatchStutters DEF BatchInv
<1>3. TypeOK'
  <2>1. results \in Seq(Instruments)
    BY DEF TypeOK, BatchTypeOK
  <2> QED
    BY <1>2, <2>1 DEF TypeOK, Throw, EndLoop, Store, ClearRunning, GetFundingRates, Join,
       Spawn, Login, Destroy
<1>4. OwnerInv'
  BY DEF OwnerInv, TypeOK, Throw, EndLoop, Store, ClearRunning, GetFundingRates, Join,
     Spawn, Login, Destroy
<1>5. TasksAreGone'
  <2>1. CASE EndLoop
    BY <1>2, <2>1, CollectedAll DEF TasksAreGone, EndLoop
  <2>2. CASE ~EndLoop
    <3>1. worker' \notin {"collect", "thrown"} => worker \notin {"collect", "thrown"}
      BY <2>2 DEF OwnerInv, Throw, Store, ClearRunning, GetFundingRates, Join, Spawn,
         Login, Destroy
    <3> QED
      BY <1>2, <3>1 DEF TasksAreGone
  <2> QED
    BY <2>1, <2>2
<1> QED
  BY <1>2, <1>3, <1>4, <1>5

LEMMA NextInv == ConnectorInv /\ [Next]_vars => ConnectorInv'
<1> SUFFICES ASSUME ConnectorInv, [Next]_vars PROVE ConnectorInv'
  OBVIOUS
<1>1. CASE UNCHANGED vars
  <2>1. UNCHANGED batchVars /\ UNCHANGED connectorVars
    BY <1>1 DEF vars
  <2>2. BatchInv' /\ TasksAreGone'
    BY <2>1, BatchStutters DEF ConnectorInv, connectorVars, TasksAreGone
  <2> QED
    BY <2>1, <2>2, ConnectorStutters
<1>2. CASE TaskNext /\ UNCHANGED connectorVars
  BY <1>2, TaskInv
<1>3. CASE WorkerNext
  BY <1>3, LoadInv, TakeResultInv, ControlInv DEF WorkerNext
<1>4. CASE GetFundingRates \/ Join \/ Spawn \/ Login \/ Destroy
  BY <1>4, ControlInv
<1> QED
  BY <1>1, <1>2, <1>3, <1>4 DEF Next

LEMMA ConnectorInvariant == Spec => []ConnectorInv
BY InitInv, NextInv, PTL DEF Spec

-----------------------------------------------------------------------------
\* The variables stay in their sets.
THEOREM ConnectorTypeCorrect == Spec => []TypeOK
<1>1. ConnectorInv => TypeOK
  BY DEF ConnectorInv
<1> QED
  BY <1>1, ConnectorInvariant, PTL

\* A worker stores each of its batch's instruments once.
THEOREM ConnectorRatesAreComplete == Spec => []RatesAreComplete
<1>1. ConnectorInv => RatesAreComplete
  <2> SUFFICES ASSUME ConnectorInv, worker = "store" PROVE RatesAreComplete
    BY DEF RatesAreComplete
  <2>1. In({"taken"}) = Launched
    BY DEF ConnectorInv, TasksAreGone, In, Launched
  <2> QED
    BY <2>1 DEF RatesAreComplete, ConnectorInv, BatchInv, ResultsAreTaken
<1> QED
  BY <1>1, ConnectorInvariant, PTL

\* When the connector is destroyed no thread is left to use it.
THEOREM ConnectorOutlivesItsThreads == Spec => []NothingOutlivesTheConnector
<1>1. ConnectorInv => NothingOutlivesTheConnector
  BY DEF ConnectorInv, OwnerInv, TasksAreGone, NothingOutlivesTheConnector
<1> QED
  BY <1>1, ConnectorInvariant, PTL

\* A worker is started only when the last one was joined.
THEOREM ConnectorJoinsEarlierWorker == Spec => EarlierWorkerIsJoined
<1>1. ConnectorInv /\ [Next]_vars => [worker' = "load" /\ worker # "load" => worker = "none"]_vars
  BY DEF ConnectorInv, OwnerInv, Next, WorkerNext, LoadInstruments, Throw, EndLoop, Store,
     ClearRunning, TakeResult, GetFundingRates, Join, Spawn, Login, Destroy, connectorVars
<1> QED
  BY <1>1, ConnectorInvariant, PTL DEF Spec, EarlierWorkerIsJoined

-----------------------------------------------------------------------------
\* A request that begins is one that the abstract limiter may grant.
LEMMA AcquireGrants ==
  ASSUME BatchInv, NEW i \in Instruments, Acquire(i), ~failed
  PROVE  clock \in 0..clock /\ Promise!Grant(clock)
<1> USE DEF BatchInv
<1> DEFINE n == Len(starts)
           times == [k \in 1..n |-> starts[k].time]
<1>1. n \in Nat /\ clock \in Nat /\ clock \in 0..clock /\ clock' = clock
  BY DEF Acquire, BatchTypeOK
<1>2. /\ Len(starts') = n + 1 /\ starts'[n + 1].time = clock
      /\ \A k \in 1..n : starts'[k] = starts[k]
  <2> DEFINE new == [task |-> i, time |-> clock]
  <2>1. new \in Start /\ starts \in Seq(Start) /\ new.time = clock
    BY <1>1 DEF Start, BatchTypeOK
  <2>2. starts' = Append(starts, new)
    BY DEF Acquire
  <2> HIDE DEF new
  <2> QED
    BY <2>1, <2>2
<1>3. times \in Seq(Nat) /\ Len(times) = n
  BY <1>1, StartTypes
<1>4. [k \in 1..Len(starts') |-> starts'[k].time] = Append(times, clock)
  BY <1>1, <1>2, <1>3
<1>5. times # <<>> => times[n] <= clock
  BY <1>1, <1>3 DEF StartsInOrder
<1>6. n >= Slots => times[n + 1 - Slots] + (MinTime - 2) < clock
  <2> SUFFICES ASSUME n >= Slots PROVE starts[n + 1 - Slots].time + (MinTime - 2) < clock
    BY <1>1
  <2>1. n + 1 - Slots \in 1..n
    BY <1>1
  <2>2. ~Young(n + 1 - Slots)
    BY PermitsBoundYoung
  <2> QED
    BY <1>1, <2>1, <2>2, StartTypes DEF Young
<1>7. Promise!Grant(clock)
  <2> HIDE DEF times
  <2>1. /\ times # <<>> => times[Len(times)] <= clock
        /\ Len(times) >= Slots => times[Len(times) + 1 - Slots] + (MinTime - 2) < clock
    BY <1>3, <1>5, <1>6
  <2> USE DEF times
  <2> QED
    BY <1>1, <1>4, <2>1 DEF Promise!Grant
<1> QED
  BY <1>1, <1>7

\* The requests of the batches implement the abstract limiter, however many
\* instruments there are and however long the exchange takes to answer.
THEOREM BatchImplementsSlidingWindow == Spec => ImplementsSlidingWindow
<1> DEFINE granted == [k \in 1..Len(starts) |-> starts[k].time]
<1>1. Init => Promise!Init
  <2> SUFFICES ASSUME Init PROVE granted = <<>> /\ clock = 0
    BY DEF Promise!Init
  <2>1. starts = <<>> /\ clock = 0 /\ Len(starts) = 0
    BY DEF Init, BatchInit
  <2> QED
    BY <2>1
<1>2. ConnectorInv /\ [Next]_vars => [Promise!Next]_<<clock, granted>>
  <2> SUFFICES ASSUME ConnectorInv, [Next]_vars
               PROVE  [Promise!Next]_<<clock, granted>>
    OBVIOUS
  <2>1. CASE Tick
    BY <2>1 DEF Tick, Promise!Next, Promise!Tick
  <2>2. ASSUME NEW i \in Instruments, Acquire(i) PROVE [Promise!Next]_<<clock, granted>>
    <3>1. CASE failed
      BY <2>2, <3>1 DEF Acquire
    <3>2. CASE ~failed
      <4>1. clock \in 0..clock /\ Promise!Grant(clock)
        BY <2>2, <3>2, AcquireGrants DEF ConnectorInv
      <4>2. Promise!Next
        BY <4>1 DEF Promise!Next, Promise!Grant
      <4> QED
        BY <4>2
    <3> QED
      BY <3>1, <3>2
  <2>3. CASE UNCHANGED <<clock, starts>>
    BY <2>3
  <2>4. \/ Tick \/ UNCHANGED <<clock, starts>>
        \/ \E i \in Instruments : Acquire(i)
    BY DEF Next, vars, batchVars, TaskNext, Answer, Fail, Finish, WorkerNext, LoadInstruments,
       Launch, Throw, EndLoop, Store, ClearRunning, TakeResult, Collect, GetFundingRates, Join,
       Spawn, Login, Destroy
  <2> QED
    BY <2>1, <2>2, <2>3, <2>4
<1> QED
  BY <1>1, <1>2, ConnectorInvariant, PTL DEF Spec, ImplementsSlidingWindow, Promise!Spec

-----------------------------------------------------------------------------
\* A request begins, at the least, the time of a permit after the one that is
\* Slots before it.
RequestsAreSpaced ==
  \A k \in 1..Len(starts) :
    k + Slots <= Len(starts) => starts[k + Slots].time >= starts[k].time + MinTime - 1

LEMMA AcquireSpaces ==
  ASSUME BatchInv, RequestsAreSpaced, NEW i \in Instruments, Acquire(i)
  PROVE  RequestsAreSpaced'
<1> USE DEF BatchInv
<1> DEFINE n == Len(starts)  new == [task |-> i, time |-> clock]
<1>1. n \in Nat /\ clock \in Nat /\ starts \in Seq(Start) /\ new \in Start /\ new.time = clock
  BY DEF BatchTypeOK, Start
<1>2. CASE failed
  BY <1>2 DEF Acquire, RequestsAreSpaced
<1>3. CASE ~failed
  <2>1. starts' = Append(starts, new)
    BY <1>3 DEF Acquire
  <2> HIDE DEF new
  <2>2. /\ Len(starts') = n + 1 /\ starts'[n + 1].time = clock
        /\ \A k \in 1..n : starts'[k] = starts[k]
    BY <1>1, <2>1
  <2>3. n >= Slots => clock >= starts[n + 1 - Slots].time + MinTime - 1
    <3> SUFFICES ASSUME n >= Slots
                 PROVE  clock >= starts[n + 1 - Slots].time + MinTime - 1
      OBVIOUS
    <3>1. n + 1 - Slots \in 1..n
      BY <1>1
    <3> QED
      BY <1>1, <1>3, <3>1, PermitsBoundYoung, StartTypes DEF Young
  <2>4. ASSUME NEW k \in 1..(n + 1), k + Slots <= n + 1
        PROVE  starts'[k + Slots].time >= starts'[k].time + MinTime - 1
    <3>1. CASE k + Slots = n + 1
      BY <1>1, <2>2, <2>3, <3>1
    <3>2. CASE k + Slots <= n
      BY <1>1, <2>2, <3>2 DEF RequestsAreSpaced
    <3> QED
      BY <1>1, <2>4, <3>1, <3>2
  <2> QED
    BY <2>2, <2>4 DEF RequestsAreSpaced
<1> QED
  BY <1>2, <1>3

\* While no request has failed, the requests of a batch, and of the next ones,
\* keep the distance that the permits and the least time give them.
THEOREM BatchRequestsAreSpaced == Spec => []RequestsAreSpaced
<1>1. Init => RequestsAreSpaced
  BY DEF Init, BatchInit, RequestsAreSpaced
<1>2. ConnectorInv /\ RequestsAreSpaced /\ [Next]_vars => RequestsAreSpaced'
  <2> SUFFICES ASSUME ConnectorInv, RequestsAreSpaced, [Next]_vars
               PROVE  RequestsAreSpaced'
    OBVIOUS
  <2>1. UNCHANGED starts \/ \E i \in Instruments : Acquire(i)
    BY DEF Next, vars, batchVars, TaskNext, Tick, Answer, Fail, Finish, WorkerNext,
       LoadInstruments, Launch, Throw, EndLoop, Store, ClearRunning, TakeResult, Collect,
       GetFundingRates, Join, Spawn, Login, Destroy
  <2> QED
    BY <2>1, AcquireSpaces DEF ConnectorInv, RequestsAreSpaced
<1> QED
  BY <1>1, <1>2, ConnectorInvariant, PTL DEF Spec

\* As long as none has failed, at most 18 requests begin in 2000 ms: starts then
\* has all of them.
LimitKeptUntilFailure == ~failed =>
  \A k \in 1..Len(starts) :
    k + 18 <= Len(starts) => starts[k + 18].time > starts[k].time + 2000

\* With the values in the code, 3 permits and 345 ms, the exchange sees at most
\* 18 requests for funding rates in any 2 s until a request fails, and its limit
\* is 20: the rounding of the sleep costs nothing that matters.  A request that
\* fails gives its permit back without the sleep, and from then on nothing is
\* claimed.
THEOREM BatchKeepsLimitUntilFailure ==
  ASSUME Slots = 3, MinTime = 345
  PROVE  Spec => []LimitKeptUntilFailure
<1>1. BatchTypeOK /\ RequestsAreSpaced => LimitKeptUntilFailure
  <2> SUFFICES ASSUME BatchTypeOK, RequestsAreSpaced,
                      NEW k \in 1..Len(starts), k + 18 <= Len(starts)
               PROVE  starts[k + 18].time > starts[k].time + 2000
    BY DEF LimitKeptUntilFailure
  <2>1. \A j \in 1..Len(starts) : starts[j].time \in Nat
    BY StartTypes
  <2>2. \A j \in 1..Len(starts) :
          j + 3 <= Len(starts) => starts[j + 3].time >= starts[j].time + 344
    BY <2>1 DEF RequestsAreSpaced
  <2>3. Len(starts) \in Nat /\ k \in Nat
    BY DEF BatchTypeOK
  <2>4. ASSUME NEW j \in Nat, j >= 1, j + 9 <= Len(starts)
        PROVE  starts[j + 9].time >= starts[j].time + 1032
    <3>1. /\ {j, j + 3, j + 6, j + 9} \subseteq 1..Len(starts)
          /\ (j + 3) + 3 = j + 6 /\ (j + 6) + 3 = j + 9
      BY <2>3, <2>4
    <3>2. /\ starts[j + 3].time >= starts[j].time + 344
          /\ starts[j + 6].time >= starts[j + 3].time + 344
          /\ starts[j + 9].time >= starts[j + 6].time + 344
      <4>1. j + 3 <= Len(starts) /\ j + 6 <= Len(starts)
        BY <2>3, <2>4
      <4> QED
        BY <2>2, <2>4, <3>1, <4>1
    <3>3. /\ starts[j].time \in Nat /\ starts[j + 3].time \in Nat
          /\ starts[j + 6].time \in Nat /\ starts[j + 9].time \in Nat
      BY <2>1, <3>1
    <3>4. PICK a, b, c, d \in Nat :
            /\ a = starts[j].time /\ b = starts[j + 3].time
            /\ c = starts[j + 6].time /\ d = starts[j + 9].time
      BY <3>3
    <3>5. b >= a + 344 /\ c >= b + 344 /\ d >= c + 344
      BY <3>2, <3>4
    <3>6. d >= a + 1032
      BY <3>5
    <3> QED
      BY <3>4, <3>6
  <2>5. /\ starts[k + 9].time >= starts[k].time + 1032
        /\ starts[(k + 9) + 9].time >= starts[k + 9].time + 1032
    BY <2>3, <2>4
  <2>6. {k, k + 9, k + 18} \subseteq 1..Len(starts) /\ (k + 9) + 9 = k + 18
    BY <2>3
  <2> QED
    BY <2>1, <2>5, <2>6
<1>2. ConnectorInv => BatchTypeOK
  BY DEF ConnectorInv, BatchInv
<1> QED
  BY <1>1, <1>2, ConnectorInvariant, BatchRequestsAreSpaced, PTL
=============================================================================
