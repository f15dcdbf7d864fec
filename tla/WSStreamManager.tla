--------------------------- MODULE WSStreamManager ---------------------------
(***************************************************************************)
(* WSStreamManager (src/src/okx_ws_stream_manager.cpp) on top of its       *)
(* WebSocketClient: the thread of the io_context stores the events of the  *)
(* subscribed streams, other threads of the application poll for them, and *)
(* the thread that owns the manager subscribes and destroys it.            *)
(*                                                                         *)
(* A stream of candles is the bar size it was subscribed with; there is    *)
(* one instrument.  An event is the number it has in its stream.  The two  *)
(* tables and their mutexes are one function: a lookup and a store are     *)
(* each one step.                                                          *)
(***************************************************************************)
EXTENDS BarSizes

CONSTANTS
  Tickers,            \* the streams of tickers
  Candles,            \* the streams of candles
  Readers,            \* threads that call the reading operations
  Timeouts,           \* the values setTimeout() is called with, in seconds
  TriesPerSecond,     \* 1 / 0.01
  MaxEvents           \* bound: events of a stream

ASSUME ManagerAssumption ==
  /\ Candles \subseteq BarSize /\ Tickers \cap BarSize = {}
  /\ Timeouts \subseteq Nat /\ TriesPerSecond \in Nat /\ MaxEvents \in Nat

VARIABLES
  isRunning, joinable, stopped, session, io, user, thrown,   \* the client
  asked,      \* streams that the session was asked for
  events,     \* history: events delivered, by stream
  table,      \* tickers and candlesticks: the event stored, 0 if none
  timeout,
  stage,      \* how far the destructor is
  reader

clientVars == <<isRunning, joinable, stopped, session, io, user, thrown>>
vars == <<isRunning, joinable, stopped, session, io, user, thrown,
          asked, events, table, timeout, stage, reader>>

Client == INSTANCE WebSocketClient

Streams == Tickers \cup Candles

\* A call of a reading operation; floor is the last event when it began.
Reading == [pc : {"idle", "test", "look", "found", "dangling"}, stream : Streams,
            tries : Nat, maxTries : Nat, floor : Nat, got : Nat]

TypeOK ==
  /\ Client!TypeOK
  /\ asked \subseteq Streams
  /\ events \in [Streams -> Nat] /\ table \in [Streams -> Nat]
  /\ timeout \in Nat
  /\ stage \in {"live", "zeroed", "freed"}
  /\ reader \in [Readers -> Reading]

Init ==
  /\ Client!Init
  /\ asked = {}
  /\ events = [k \in Streams |-> 0] /\ table = [k \in Streams |-> 0]
  /\ timeout \in Timeouts
  /\ stage = "live"
  /\ reader \in [Readers -> {[pc |-> "idle", stream |-> k, tries |-> 0, maxTries |-> 0,
                              floor |-> 0, got |-> 0] : k \in Streams}]

-----------------------------------------------------------------------------
(* The owner: subscribe, set the timeout, destroy.                         *)

\* A stream that is not subscribed is asked for; the client is run either way.
SubscribeStream(k) ==
  /\ Client!Subscribe \/ (k \in asked /\ Client!CallRun)
  /\ asked' = asked \cup {k}
  /\ UNCHANGED <<events, table, timeout, stage, reader>>

SetTimeout(seconds) ==
  /\ user = "idle"
  /\ timeout' = seconds
  /\ UNCHANGED <<clientVars, asked, events, table, stage, reader>>

\* run() goes on, or wsClient.reset() stops the context and joins its thread.
OwnerInClient ==
  /\ \/ Client!RunCheck \/ Client!RunSet \/ Client!RunJoin \/ Client!RunSpawn
     \/ Client!Destroy \/ Client!DestroyJoin
  /\ UNCHANGED <<asked, events, table, timeout, stage, reader>>

\* Mutant: the thread of the context is not waited for.
MutZeroUnjoined ==
  /\ user \in {"dtorJoin", "destroyed"}
  /\ stage = "live"
  /\ timeout' = 0
  /\ stage' = "zeroed"
  /\ UNCHANGED <<clientVars, asked, events, table, reader>>

ZeroTimeout ==
  /\ user = "destroyed"
  /\ stage = "live"
  /\ timeout' = 0
  /\ stage' = "zeroed"
  /\ UNCHANGED <<clientVars, asked, events, table, reader>>

Inside(r) == reader[r].pc \in {"test", "look"}

\* The members are destroyed; what a reader still inside does is undefined.
Free ==
  /\ stage = "zeroed"
  /\ stage' = "freed"
  /\ reader' = [r \in Readers |->
                  IF Inside(r) THEN [reader[r] EXCEPT !.pc = "dangling"] ELSE reader[r]]
  /\ UNCHANGED <<clientVars, asked, events, table, timeout>>

-----------------------------------------------------------------------------
(* The thread of the context.                                              *)

ContextSteps ==
  /\ Client!IoStep
  /\ UNCHANGED <<asked, events, table, timeout, stage, reader>>

\* With its session the subscriptions are gone.
SessionSteps ==
  /\ Client!IoSessionEnds \/ Client!IoThrow
  /\ asked' = IF session' THEN asked ELSE {}
  /\ UNCHANGED <<events, table, timeout, stage, reader>>

\* Mutant: a candle is stored like a ticker.
MutStoredFirst(k, event) == IF table[k] = 0 THEN event ELSE table[k]

\* What the callback leaves in the table: a ticker is stored only if there is
\* none, a candle replaces the one before.
Stored(k, event) == IF k \in Tickers /\ table[k] # 0 THEN table[k] ELSE event

\* Where the callback stores: the entry of the channel's bar size, where the
\* channel is the one that was asked for.
StoredAt(k) ==
  IF k \in Tickers THEN k
  ELSE candlestickChannelToBarSize(barSizeToCandlestickChannel(k))

Deliver(k) ==
  /\ io = "run" /\ session
  /\ k \in asked
  /\ events[k] < MaxEvents
  /\ events' = [events EXCEPT ![k] = @ + 1]
  /\ table' = [table EXCEPT ![StoredAt(k)] = Stored(k, events[k] + 1)]
  /\ UNCHANGED <<clientVars, asked, timeout, stage, reader>>

-----------------------------------------------------------------------------
(* The readers.                                                            *)

Goto(r, pc) == reader' = [reader EXCEPT ![r].pc = pc]
ReaderOnly == UNCHANGED <<clientVars, asked, events, table, timeout, stage>>

\* The number of tries is computed once, from the timeout of that moment.
StartRead(r, k) ==
  /\ reader[r].pc \in {"idle", "found"}
  /\ user \notin {"dtorJoin", "destroyed"}
  /\ reader' = [reader EXCEPT ![r] =
       [pc |-> "test", stream |-> k, tries |-> 0,
        maxTries |-> timeout * TriesPerSecond, floor |-> events[k], got |-> 0]]
  /\ ReaderOnly

MayTry(r) == reader[r].tries <= reader[r].maxTries /\ timeout # 0

\* The locals of a call go with it.
Returned(r, pc, floor, got) ==
  [pc |-> pc, stream |-> reader[r].stream, tries |-> 0, maxTries |-> 0,
   floor |-> floor, got |-> got]

TryAgain(r) ==
  /\ reader[r].pc = "test"
  /\ IF MayTry(r) THEN Goto(r, "look")
     ELSE reader' = [reader EXCEPT ![r] = Returned(r, "idle", 0, 0)]
  /\ ReaderOnly

Found(r) ==
  /\ reader[r].pc = "look"
  /\ table[reader[r].stream] # 0
  /\ reader' = [reader EXCEPT ![r] =
       Returned(r, "found", reader[r].floor, table[reader[r].stream])]
  /\ ReaderOnly

\* Mutant: the tries are not counted.
MutNotFoundUncounted(r) ==
  /\ reader[r].pc = "look"
  /\ table[reader[r].stream] = 0
  /\ Goto(r, "test")
  /\ ReaderOnly

\* Nothing yet: sleep for 3 ms.
NotFound(r) ==
  /\ reader[r].pc = "look"
  /\ table[reader[r].stream] = 0
  /\ reader' = [reader EXCEPT ![r].pc = "test", ![r].tries = @ + 1]
  /\ ReaderOnly

Read(r) == TryAgain(r) \/ Found(r) \/ NotFound(r)

-----------------------------------------------------------------------------
Owner == (\E k \in Streams : SubscribeStream(k)) \/ (\E s \in Timeouts : SetTimeout(s))
         \/ OwnerInClient \/ ZeroTimeout \/ Free

Context == ContextSteps \/ SessionSteps \/ (\E k \in Streams : Deliver(k))

Next ==
  \/ Owner \/ Context
  \/ \E r \in Readers : Read(r) \/ \E k \in Streams : StartRead(r, k)

Spec == Init /\ [][Next]_vars

\* Every thread is scheduled: the owner ends a call it has begun, which need not
\* come.  Nothing is assumed of the exchange.
FairSpec ==
  /\ Spec
  /\ \A r \in Readers : WF_vars(Read(r))
  /\ WF_vars(ContextSteps)
  /\ WF_vars((user # "idle" /\ OwnerInClient) \/ ZeroTimeout \/ Free)

-----------------------------------------------------------------------------
(* Safety.                                                                 *)

\* A candle that is read is no older than the last one that had come when the
\* reading operation was called.  Of tickers this is not said: the callback
\* keeps the first one.
CandlesAreFresh == \A r \in Readers :
  reader[r].pc = "found" /\ reader[r].stream \in Candles => reader[r].got >= reader[r].floor

\* The callback holds a reference to the tables: no thread runs it any more
\* when they are destroyed, whenever the destructor comes between the steps of
\* run() and of the context.
NoCallbackAfterFree == stage # "live" => io \in {"none", "ended"}

\* What WebSocketClient promises (see there), of the client in the manager: its
\* thread is flagged while it runs, and none is started over another.
RunningIsFlagged == Client!RunningIsFlagged
SpawnOnlyWhenJoined == Client!SpawnOnlyWhenJoined

(* Liveness.                                                               *)

\* A run() that sees the flag down brings the context to run, whichever streams
\* are subscribed and read meanwhile.
FlagDownStartsContext == Client!FlagDownStartsContext

\* A stop() that reaches the context ends the destructor of the client, unless
\* a handler throws and the context is restarted.
StopIsHonoured == Client!StopIsHonoured

\* A reading operation ends, whatever setTimeout() does meanwhile and though
\* no event ever comes.
EveryReadEnds == \A r \in Readers : Inside(r) ~> ~Inside(r)
=============================================================================
