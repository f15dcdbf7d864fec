----------------------- MODULE WSStreamManager_proofs -----------------------
(***************************************************************************)
(* Proofs about WSStreamManager: the callback never runs when its tables   *)
(* are destroyed, a candle that is read is fresh, and the tables of bar    *)
(* sizes agree.                                                            *)
(***************************************************************************)
EXTENDS WSStreamManager, TLAPS

\* The owner and the context: a thread that was not joined is in the handle,
\* and the destructor of the client has waited for it.
ThreadInv ==
  /\ ~joinable => io \in {"none", "ended"}
  /\ user = "destroyed" => io \in {"none", "ended"}
  /\ stage # "live" => user = "destroyed"

\* The tables and the readers: the last candle is in the table, and no call
\* began later than now.
DataTypeOK ==
  /\ events \in [Streams -> Nat] /\ table \in [Streams -> Nat]
  /\ timeout \in Nat
  /\ reader \in [Readers -> Reading]

LastCandleStored == \A k \in Candles : table[k] = events[k]

FloorIsPast == \A r \in Readers : reader[r].floor <= events[reader[r].stream]

DataInv == DataTypeOK /\ LastCandleStored /\ FloorIsPast /\ CandlesAreFresh

-----------------------------------------------------------------------------
LEMMA ThreadInvStep == ThreadInv /\ [Next]_vars => ThreadInv'
<1> SUFFICES ASSUME ThreadInv, [Next]_vars
             PROVE  ThreadInv'
  OBVIOUS
<1> USE DEF ThreadInv
<1>1. ASSUME NEW k \in Streams, SubscribeStream(k)
      PROVE  ThreadInv'
  BY <1>1 DEF SubscribeStream, Client!Subscribe, Client!CallRun
<1>2. CASE OwnerInClient
  <2>1. CASE Client!RunCheck \/ Client!RunSet
    BY <1>2, <2>1 DEF OwnerInClient, Client!RunCheck, Client!RunSet
  <2>2. CASE Client!RunJoin \/ Client!RunSpawn
    BY <1>2, <2>2 DEF OwnerInClient, Client!RunJoin, Client!RunSpawn
  <2>3. CASE Client!Destroy \/ Client!DestroyJoin
    BY <1>2, <2>3 DEF OwnerInClient, Client!Destroy, Client!DestroyJoin
  <2>. QED  BY <1>2, <2>1, <2>2, <2>3 DEF OwnerInClient
<1>3. CASE ZeroTimeout \/ Free
  BY <1>3 DEF ZeroTimeout, Free, clientVars
<1>4. CASE ContextSteps
  BY <1>4 DEF ContextSteps, Client!IoStep, Client!IoTop, Client!IoCheck, Client!IoRestart,
              Client!IoOutOfWork, Client!IoRunReturns, Client!IoClear, Client!IoClearAgain
<1>5. CASE SessionSteps
  BY <1>5 DEF SessionSteps, Client!IoSessionEnds, Client!IoThrow
<1>6. ASSUME NEW s \in Timeouts, SetTimeout(s)
      PROVE  ThreadInv'
  BY <1>6 DEF SetTimeout, clientVars
<1>7. ASSUME NEW k \in Streams, Deliver(k)
      PROVE  ThreadInv'
  BY <1>7 DEF Deliver, clientVars
<1>8. ASSUME NEW r \in Readers, Read(r) \/ \E k \in Streams : StartRead(r, k)
      PROVE  ThreadInv'
  BY <1>8 DEF Read, StartRead, TryAgain, Found, NotFound, ReaderOnly, clientVars
<1>9. CASE UNCHANGED vars
  BY <1>9 DEF vars
<1>. QED  BY <1>1, <1>2, <1>3, <1>4, <1>5, <1>6, <1>7, <1>8, <1>9 DEF Next, Owner, Context

\* The destructor of the manager destroys the tables after the thread that
\* stores into them has ended, in whatever state of the client it begins.
THEOREM CallbackEndsBeforeFree == Spec => []NoCallbackAfterFree
<1>1. Init => ThreadInv
  BY DEF Init, Client!Init, ThreadInv
<1>2. ThreadInv => NoCallbackAfterFree
  BY DEF ThreadInv, NoCallbackAfterFree
<1>. QED  BY <1>1, <1>2, ThreadInvStep, PTL DEF Spec

-----------------------------------------------------------------------------
\* A step that leaves the tables and the readers alone.
LEMMA DataUnchanged ==
  DataInv /\ UNCHANGED <<events, table, timeout, reader>> => DataInv'
BY DEF DataInv, DataTypeOK, LastCandleStored, FloorIsPast, CandlesAreFresh

\* The channel that is asked for leads back to the bar size, for each of them:
\* a candle is stored where readEventCandlestick() looks it up.
THEOREM ChannelLeadsBack ==
  ASSUME NEW size \in BarSize
  PROVE  /\ barSizeToCandlestickChannel(size) \in CandlestickChannel
         /\ candlestickChannelToBarSize(barSizeToCandlestickChannel(size)) = size
BY DEF BarSize, CandlestickChannel, barSizeToCandlestickChannel, candlestickChannelToBarSize

\* A bar size that isValidBarSize() finds for a number of minutes lasts as many
\* minutes for numberOfMsForBarSize(), except the months: they are found for 28
\* and 84 days and last 30 and 90.
THEOREM MinutesAgree ==
  ASSUME NEW size \in BarSize, NEW minutes \in Nat, isValidBarSize(minutes, size)
  PROVE  numberOfMsForBarSize(size) =
           60000 * (IF size = "1M" THEN 30 * 1440 ELSE IF size = "3M" THEN 90 * 1440 ELSE minutes)
BY DEF BarSize, isValidBarSize, numberOfMsForBarSize, Day

LEMMA DeliverData ==
  ASSUME DataInv, NEW k \in Streams, Deliver(k)
  PROVE  DataInv'
<1>1. /\ events' = [events EXCEPT ![k] = events[k] + 1]
      /\ table' = [table EXCEPT ![k] = Stored(k, events[k] + 1)]
      /\ UNCHANGED <<timeout, reader>>
  <2>1. StoredAt(k) = k
    BY ManagerAssumption, ChannelLeadsBack DEF StoredAt, Streams
  <2>. QED  BY <2>1 DEF Deliver
<1>2. DataTypeOK'
  BY <1>1 DEF DataInv, DataTypeOK, Stored
<1>3. LastCandleStored'
  BY <1>1, ManagerAssumption DEF DataInv, DataTypeOK, LastCandleStored, Stored, Streams
<1>4. FloorIsPast'
  <2>1. \A j \in Streams : events[j] \in Nat /\ events[j] <= events'[j]
    BY <1>1 DEF DataInv, DataTypeOK
  <2>2. \A r \in Readers : reader[r].stream \in Streams /\ reader[r].floor \in Nat
    BY DEF DataInv, DataTypeOK, Reading
  <2>3. \A j \in Streams : events'[j] \in Nat
    BY <1>2 DEF DataTypeOK
  <2>. QED  BY <1>1, <2>1, <2>2, <2>3 DEF DataInv, FloorIsPast
<1>5. CandlesAreFresh'
  BY <1>1 DEF DataInv, CandlesAreFresh
<1>. QED  BY <1>2, <1>3, <1>4, <1>5 DEF DataInv

\* One reader changes its call.
LEMMA ReaderData ==
  ASSUME DataInv, NEW r \in Readers, NEW call \in Reading,
         reader' = [reader EXCEPT ![r] = call],
         UNCHANGED <<events, table, timeout>>,
         call.floor <= events[call.stream],
         call.pc = "found" /\ call.stream \in Candles => call.got >= call.floor
  PROVE  DataInv'
<1>1. DataTypeOK'
  BY DEF DataInv, DataTypeOK
<1>2. \A q \in Readers : reader'[q] = IF q = r THEN call ELSE reader[q]
  BY DEF DataInv, DataTypeOK
<1>3. FloorIsPast' /\ LastCandleStored' /\ CandlesAreFresh'
  BY <1>2 DEF DataInv, FloorIsPast, LastCandleStored, CandlesAreFresh
<1>. QED  BY <1>1, <1>3 DEF DataInv

LEMMA StartData ==
  ASSUME DataInv, NEW r \in Readers, NEW k \in Streams, StartRead(r, k)
  PROVE  DataInv'
<1> DEFINE call == [pc |-> "test", stream |-> k, tries |-> 0,
                    maxTries |-> timeout * TriesPerSecond, floor |-> events[k], got |-> 0]
<1>1. events[k] \in Nat /\ timeout * TriesPerSecond \in Nat
  BY ManagerAssumption DEF DataInv, DataTypeOK
<1>2. call \in Reading
  BY <1>1 DEF Reading
<1>3. reader' = [reader EXCEPT ![r] = call] /\ UNCHANGED <<events, table, timeout>>
  BY DEF StartRead, ReaderOnly
<1>4. /\ call.floor <= events[call.stream]
      /\ call.pc = "found" /\ call.stream \in Candles => call.got >= call.floor
  BY <1>1
<1> HIDE DEF call
<1>. QED  BY <1>2, <1>3, <1>4, ReaderData

LEMMA ReadData ==
  ASSUME DataInv, NEW r \in Readers, Read(r)
  PROVE  DataInv'
<1>1. /\ reader[r] \in Reading /\ reader[r].stream \in Streams
      /\ reader[r].floor \in Nat /\ reader[r].tries \in Nat
      /\ reader[r].floor <= events[reader[r].stream]
      /\ reader \in [Readers -> Reading]
  BY DEF DataInv, DataTypeOK, Reading, FloorIsPast
<1>2. UNCHANGED <<events, table, timeout>>
  BY DEF Read, TryAgain, Found, NotFound, ReaderOnly
<1>3. CASE TryAgain(r)
  <2> DEFINE looks == [reader[r] EXCEPT !.pc = "look"]
             ends == Returned(r, "idle", 0, 0)
  <2>1. looks \in Reading /\ looks.pc = "look" /\ looks.floor <= events[looks.stream]
    BY <1>1 DEF Reading
  <2>2. ends \in Reading /\ ends.pc = "idle" /\ ends.floor <= events[ends.stream]
    <3>1. events[reader[r].stream] \in Nat
      BY <1>1 DEF DataInv, DataTypeOK
    <3>. QED  BY <1>1, <3>1 DEF Reading, Returned
  <2>3. reader' = [reader EXCEPT ![r] = looks] \/ reader' = [reader EXCEPT ![r] = ends]
    BY <1>1, <1>3 DEF TryAgain, Goto
  <2> HIDE DEF looks, ends
  <2>. QED  BY <1>2, <2>1, <2>2, <2>3, ReaderData
<1>4. CASE Found(r)
  <2> DEFINE call == Returned(r, "found", reader[r].floor, table[reader[r].stream])
  <2>1. table[reader[r].stream] \in Nat
    BY <1>1 DEF DataInv, DataTypeOK
  <2>2. reader' = [reader EXCEPT ![r] = call]
    BY <1>4 DEF Found
  <2>3. call \in Reading /\ call.floor <= events[call.stream]
    BY <1>1, <2>1 DEF Reading, Returned
  <2>4. call.stream \in Candles => call.got >= call.floor
    BY <1>1, <2>1 DEF Reading, Returned, DataInv, LastCandleStored
  <2> HIDE DEF call
  <2>. QED  BY <1>2, <2>2, <2>3, <2>4, ReaderData
<1>5. CASE NotFound(r)
  <2> DEFINE call == [reader[r] EXCEPT !.pc = "test", !.tries = reader[r].tries + 1]
  <2>1. reader' = [reader EXCEPT ![r] = call] /\ call \in Reading
    BY <1>1, <1>5 DEF NotFound, Reading
  <2>2. call.floor <= events[call.stream] /\ call.pc # "found"
    BY <1>1 DEF Reading
  <2> HIDE DEF call
  <2>. QED  BY <1>2, <2>1, <2>2, ReaderData
<1>. QED  BY <1>3, <1>4, <1>5 DEF Read

LEMMA FreeData == DataInv /\ Free => DataInv'
<1>1. SUFFICES ASSUME DataInv, Free
               PROVE  DataInv'
  OBVIOUS
<1>2. UNCHANGED <<events, table, timeout>>
  BY <1>1 DEF Free
<1>3. ASSUME NEW r \in Readers
      PROVE  /\ reader'[r] \in Reading
             /\ reader'[r].floor = reader[r].floor
             /\ reader'[r].stream = reader[r].stream
             /\ reader'[r].got = reader[r].got
             /\ reader'[r].pc = "found" => reader[r].pc = "found"
  <2>1. reader[r] \in Reading
    BY <1>1 DEF DataInv, DataTypeOK
  <2>2. reader'[r] = IF Inside(r) THEN [reader[r] EXCEPT !.pc = "dangling"] ELSE reader[r]
    BY <1>1 DEF Free
  <2>. QED  BY <2>1, <2>2 DEF Reading
<1>4. DataTypeOK'
  BY <1>1, <1>2, <1>3 DEF Free, DataInv, DataTypeOK
<1>5. LastCandleStored' /\ FloorIsPast' /\ CandlesAreFresh'
  BY <1>1, <1>2, <1>3 DEF DataInv, LastCandleStored, FloorIsPast, CandlesAreFresh
<1>. QED  BY <1>4, <1>5 DEF DataInv

LEMMA DataInvStep == DataInv /\ [Next]_vars => DataInv'
<1> SUFFICES ASSUME DataInv, [Next]_vars
             PROVE  DataInv'
  OBVIOUS
<1>1. CASE OwnerInClient \/ ContextSteps \/ SessionSteps \/ \E k \in Streams : SubscribeStream(k)
  BY <1>1, DataUnchanged DEF OwnerInClient, ContextSteps, SessionSteps, SubscribeStream
<1>2. CASE ZeroTimeout \/ \E s \in Timeouts : SetTimeout(s)
  BY <1>2, ManagerAssumption DEF ZeroTimeout, SetTimeout, DataInv, DataTypeOK, LastCandleStored,
                                 FloorIsPast, CandlesAreFresh
<1>3. CASE Free
  BY <1>3, FreeData
<1>4. CASE \E k \in Streams : Deliver(k)
  BY <1>4, DeliverData
<1>5. CASE \E r \in Readers : Read(r) \/ \E k \in Streams : StartRead(r, k)
  BY <1>5, ReadData, StartData
<1>6. CASE UNCHANGED vars
  BY <1>6, DataUnchanged DEF vars
<1>. QED  BY <1>1, <1>2, <1>3, <1>4, <1>5, <1>6 DEF Next, Owner, Context

LEMMA DataInvariant == Spec => []DataInv
<1>1. Init => DataInv
  <2>1. SUFFICES ASSUME Init
                 PROVE  DataInv
    OBVIOUS
  <2>2. \A r \in Readers : \E k \in Streams :
          reader[r] = [pc |-> "idle", stream |-> k, tries |-> 0, maxTries |-> 0,
                       floor |-> 0, got |-> 0]
    BY <2>1 DEF Init
  <2>3. \A r \in Readers : /\ reader[r] \in Reading
                           /\ reader[r].stream \in Streams
                           /\ reader[r].floor = 0 /\ reader[r].pc = "idle"
    <3>1. SUFFICES ASSUME NEW r \in Readers
                   PROVE  /\ reader[r] \in Reading
                          /\ reader[r].stream \in Streams
                          /\ reader[r].floor = 0 /\ reader[r].pc = "idle"
      OBVIOUS
    <3>2. PICK k \in Streams :
            reader[r] = [pc |-> "idle", stream |-> k, tries |-> 0, maxTries |-> 0,
                         floor |-> 0, got |-> 0]
      BY <2>2
    <3>. QED  BY <3>2 DEF Reading
  <2>4. DataTypeOK
    BY <2>1, <2>3, ManagerAssumption DEF Init, DataTypeOK
  <2>5. LastCandleStored /\ FloorIsPast /\ CandlesAreFresh
    BY <2>1, <2>3 DEF Init, LastCandleStored, FloorIsPast, CandlesAreFresh, Streams
  <2>. QED  BY <2>4, <2>5 DEF DataInv
<1>. QED  BY <1>1, DataInvStep, PTL DEF Spec

\* readEventCandlestick() returns a candle that is no older than the last one
\* that had come when it was called.
THEOREM CandleReadsAreFresh == Spec => []CandlesAreFresh
<1>1. DataInv => CandlesAreFresh
  BY DEF DataInv
<1>. QED  BY <1>1, DataInvariant, PTL

-----------------------------------------------------------------------------
(* The client in the manager behaves as a client alone does.               *)

ClientProofs == INSTANCE WebSocketClient_proofs

LEMMA ClientStep == [Next]_vars => [Client!Next]_clientVars
<1> SUFFICES ASSUME [Next]_vars PROVE Client!Next \/ UNCHANGED clientVars
  OBVIOUS
<1>1. ASSUME NEW k \in Streams, SubscribeStream(k)
      PROVE  Client!Next
  BY <1>1 DEF SubscribeStream, Client!Next, Client!User
<1>2. CASE OwnerInClient
  BY <1>2 DEF OwnerInClient, Client!Next, Client!User
<1>3. CASE ContextSteps \/ SessionSteps
  BY <1>3 DEF ContextSteps, SessionSteps, Client!Next
<1>4. CASE \/ ZeroTimeout \/ Free
           \/ \E s \in Timeouts : SetTimeout(s)
           \/ \E k \in Streams : Deliver(k)
  BY <1>4 DEF ZeroTimeout, Free, SetTimeout, Deliver
<1>5. CASE \E r \in Readers : Read(r) \/ \E k \in Streams : StartRead(r, k)
  BY <1>5 DEF Read, StartRead, TryAgain, Found, NotFound, ReaderOnly
<1>6. CASE UNCHANGED vars
  BY <1>6 DEF vars, clientVars
<1> QED
  BY <1>1, <1>2, <1>3, <1>4, <1>5, <1>6 DEF Next, Owner, Context

\* Whatever the manager, its readers and the exchange do, its client takes the
\* steps of WebSocketClient and no other.
THEOREM ManagerImplementsClient == Spec => Client!Spec
<1>1. Init => Client!Init
  BY DEF Init
<1> QED
  BY <1>1, ClientStep, PTL DEF Spec, Client!Spec, Client!vars, clientVars

\* The client that the proofs of WebSocketClient are about is the same one.
LEMMA SameClient == Client!Spec => ClientProofs!Spec
<1>1. Client!Init => ClientProofs!Init
  BY DEF Client!Init, ClientProofs!Init
<1>2. Client!Next => ClientProofs!Next
  BY DEF Client!Subscribe, Client!CallRun, Client!RunCheck, Client!RunSet,
         Client!RunJoin, Client!RunSpawn, Client!Destroy, Client!DestroyJoin,
         Client!IoTop, Client!IoCheck, Client!IoRestart, Client!IoOutOfWork,
         Client!IoRunReturns, Client!IoClear, Client!IoClearAgain, Client!IoSessionEnds,
         Client!IoThrow, Client!User, Client!IoStep, Client!Next,
         ClientProofs!Subscribe, ClientProofs!CallRun, ClientProofs!RunCheck,
         ClientProofs!RunSet, ClientProofs!RunJoin, ClientProofs!RunSpawn,
         ClientProofs!Destroy, ClientProofs!DestroyJoin, ClientProofs!IoTop,
         ClientProofs!IoCheck, ClientProofs!IoRestart, ClientProofs!IoOutOfWork,
         ClientProofs!IoRunReturns, ClientProofs!IoClear, ClientProofs!IoClearAgain,
         ClientProofs!IoSessionEnds, ClientProofs!IoThrow, ClientProofs!User,
         ClientProofs!IoStep, ClientProofs!Next
<1>3. [Client!Next]_(Client!vars) => [ClientProofs!Next]_(ClientProofs!vars)
  BY <1>2 DEF Client!vars, ClientProofs!vars
<1> QED
  BY <1>1, <1>3, PTL DEF Client!Spec, ClientProofs!Spec

\* In the manager too run() sees the flag up while a thread is at the context.
THEOREM ManagersClientIsFlagged == Spec => []RunningIsFlagged
<1>1. ClientProofs!RunningIsFlagged => RunningIsFlagged
  BY DEF RunningIsFlagged, Client!RunningIsFlagged, ClientProofs!RunningIsFlagged
<1>2. ClientProofs!Spec => []ClientProofs!RunningIsFlagged
  BY ClientProofs!FlagTellsOfContext, PTL
<1> QED
  BY <1>1, <1>2, SameClient, ManagerImplementsClient, PTL

\* In the manager too no thread is spawned over another.
THEOREM ManagersClientJoins == Spec => []SpawnOnlyWhenJoined
<1>1. ClientProofs!SpawnOnlyWhenJoined => SpawnOnlyWhenJoined
  BY DEF SpawnOnlyWhenJoined, Client!SpawnOnlyWhenJoined, ClientProofs!SpawnOnlyWhenJoined
<1>2. ClientProofs!Spec => []ClientProofs!SpawnOnlyWhenJoined
  BY ClientProofs!NoThreadOverThread, PTL
<1> QED
  BY <1>1, <1>2, SameClient, ManagerImplementsClient, PTL

\* Every state of the manager has its type: the client's part by the client's
\* theorem, the tables and the readers by their own invariant.
THEOREM ManagerTypeCorrect == Spec => []TypeOK
<1> DEFINE Rest == asked \subseteq Streams /\ stage \in {"live", "zeroed", "freed"}
<1>1. Init => Rest
  BY DEF Init
<1>2. Rest /\ [Next]_vars => Rest'
  BY DEF Next, vars, Owner, Context, OwnerInClient, ContextSteps, SessionSteps, SubscribeStream,
     SetTimeout, ZeroTimeout, Free, Deliver, Read, StartRead, TryAgain, Found, NotFound, ReaderOnly
<1>3. Spec => []Rest
  BY <1>1, <1>2, PTL DEF Spec
<1>4. ClientProofs!ClientInv => Client!TypeOK
  BY DEF ClientProofs!ClientInv, ClientProofs!TypeOK, Client!TypeOK
<1>5. ClientProofs!Spec => []ClientProofs!ClientInv
  BY ClientProofs!ClientInvariant, PTL
<1>6. Client!TypeOK /\ DataInv /\ Rest => TypeOK
  BY DEF TypeOK, DataInv, DataTypeOK
<1> QED
  BY <1>3, <1>4, <1>5, <1>6, DataInvariant, SameClient, ManagerImplementsClient, PTL
=============================================================================
