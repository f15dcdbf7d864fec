-------------------------- MODULE WebSocketSession --------------------------
(***************************************************************************)
(* One WebSocketSession (src/src/okx_ws_session.cpp): a connection to the  *)
(* public stream of the exchange, driven by completion handlers that one   *)
(* io_context thread runs, and by subscribe()/isSubscribed()/close()       *)
(* called on any thread.                                                   *)
(*                                                                         *)
(* An asynchronous operation that has been started and whose handler has   *)
(* not run yet is counted in ops.  A handler is one action: it consumes    *)
(* its operation and starts the next ones.  The handlers of all operations *)
(* but ping and close hold a shared_ptr to the session: they keep it       *)
(* alive.                                                                  *)
(***************************************************************************)
EXTENDS Naturals, FiniteSets

CONSTANTS
  Requests,    \* the texts, other than the empty one, that the application gives
  NoRequest,   \* the empty text
  Channels,    \* what can be subscribed, written as dump() writes it
  Parse,       \* the channel of a text, or Unreadable
  Unreadable,  \* what json::parse() or fromJson() throws at
  Garbled,     \* what is sent when the buffer of a write is freed too early
  NoFrame,     \* nothing is being written
  MaxCalls,    \* bound: calls of run() and subscribe() together
  MaxPings,    \* bound: pings whose frame is still being written
  MaxCloses    \* bound: close operations under way

Texts == Requests \cup {NoRequest}
Meanings == Channels \cup {NoRequest, Unreadable}

ASSUME SessionAssumption ==
  /\ NoRequest \notin Requests \cup Channels
  /\ Unreadable \notin Channels \cup {NoRequest}
  /\ Garbled \notin Channels \cup {NoRequest}
  /\ NoFrame \notin Channels \cup {NoRequest, Garbled}
  /\ Parse \in [Requests -> Channels \cup {Unreadable}]
  /\ MaxCalls \in Nat /\ MaxPings \in Nat /\ MaxCloses \in Nat

VARIABLES
  ops,            \* operations whose completion handler has not run yet
  ws,             \* the websocket stream
  timer,          \* the wait on pingTimer
  unponged,       \* lastPingTime is (or may be) 20 s past lastPongTime
  slot,           \* subscriptionRequest
  subscriptions,  \* subscriptions, a vector: how often it holds a request
  writing,        \* the frame of the write under way
  wire,           \* frames the exchange has not answered
  calls,          \* history: how often run() and subscribe() were given a meaning
  app             \* the application: has set a log callback, calls close()

vars == <<ops, ws, timer, unponged, slot, subscriptions, writing, wire, calls, app>>

\* The empty frame is the empty text.
Frames == Channels \cup {NoRequest, Garbled}
Steps == {"resolve", "connect", "ssl", "handshake", "write", "read"}
OpKinds == Steps \cup {"ping", "close"}

TypeOK ==
  /\ ops \in [OpKinds -> Nat]
  /\ ws \in {"new", "opening", "open", "closing", "down"}
  /\ timer \in {"idle", "armed", "expired", "cancelled"}
  /\ unponged \in BOOLEAN
  /\ slot \in Texts
  /\ subscriptions \in [Channels -> Nat]
  /\ writing \in Frames \cup {NoFrame}
  /\ wire \in [Frames -> Nat]
  /\ calls \in [Meanings -> Nat]
  /\ app \in [logs : BOOLEAN, closes : BOOLEAN]

Init ==
  /\ ops = [k \in OpKinds |-> 0]
  /\ ws = "new"
  /\ timer = "idle"
  /\ unponged = FALSE
  /\ slot = NoRequest
  /\ subscriptions = [c \in Channels |-> 0]
  /\ writing = NoFrame
  /\ wire = [f \in Frames |-> 0]
  /\ calls = [m \in Meanings |-> 0]
  /\ app \in [logs : BOOLEAN, closes : BOOLEAN]

Started == ws # "new"
ChainAlive == \E k \in Steps : ops[k] > 0

\* No handler holds the session any more: it is destroyed and the client's
\* weak_ptr to it expires.
Released == Started /\ ~ChainAlive /\ timer = "idle"

Done(k) == ops' = [ops EXCEPT ![k] = @ - 1]
Then(k, next) == ops' = [ops EXCEPT ![k] = @ - 1, ![next] = @ + 1]

-----------------------------------------------------------------------------
(* The subscription slot.                                                  *)

\* The text is compared with the dumps of what is subscribed: the same request
\* in other words is not found.
WriteSubscriptionRequest(t) ==
  slot' = IF t \in Channels /\ subscriptions[t] > 0 THEN slot ELSE t

\* What readSubscriptionRequest() makes of the slot: nothing of an empty one.
Meaning(t) == IF t = NoRequest THEN NoRequest ELSE Parse[t]

\* async_write copies the frame at once unless another write holds the
\* stream: then it reads the string later, when its owner is gone.
Written(f) ==
  IF f # NoRequest /\ ops["ping"] + ops["close"] > 0 THEN {f, Garbled} ELSE {f}

\* Mutant: the slot is not cleared.
MutKeepSlot(k) ==
  /\ Meaning(slot) # Unreadable
  /\ Then(k, "write")
  /\ writing' \in Written(Meaning(slot))
  /\ UNCHANGED slot

\* readSubscriptionRequest() and the async_write of what it returned, after
\* the step k of the chain.  It throws at a text that it cannot read, before it
\* clears the slot.
WriteSlot(k) ==
  /\ Meaning(slot) # Unreadable
  /\ Then(k, "write")
  /\ writing' \in Written(Meaning(slot))
  /\ slot' = NoRequest

\* A second async_close does not change a stream that is not open.
Closing == ws' = IF ws = "open" THEN "closing" ELSE ws

\* A wait that has expired can no longer be cancelled: its handler is queued.
CancelTimer == timer' = IF timer = "armed" THEN "cancelled" ELSE timer

-----------------------------------------------------------------------------
(* The application.                                                        *)

CallsSoFar == Cardinality({p \in Meanings \X (1..MaxCalls) : p[2] <= calls[p[1]]})

\* An empty request is refused before anything is done.
Run(t) ==
  /\ ~Started
  /\ t # NoRequest
  /\ CallsSoFar < MaxCalls
  /\ WriteSubscriptionRequest(t)
  /\ ops' = [ops EXCEPT !["resolve"] = @ + 1]
  /\ ws' = "opening"
  /\ calls' = [calls EXCEPT ![Meaning(t)] = @ + 1]
  /\ UNCHANGED <<timer, unponged, subscriptions, writing, wire, app>>

\* An empty request is not refused: it clears the slot.
Subscribe(t) ==
  /\ Started /\ ~Released
  /\ CallsSoFar < MaxCalls
  /\ WriteSubscriptionRequest(t)
  /\ calls' = [calls EXCEPT ![Meaning(t)] = @ + 1]
  /\ UNCHANGED <<ops, ws, timer, unponged, subscriptions, writing, wire, app>>

Close ==
  /\ app.closes
  /\ Started /\ ~Released
  /\ ops["close"] < MaxCloses
  /\ ops' = [ops EXCEPT !["close"] = @ + 1]
  /\ Closing
  /\ UNCHANGED <<timer, unponged, slot, subscriptions, writing, wire, calls, app>>

-----------------------------------------------------------------------------
(* Opening the connection: every handler starts the next step or gives up. *)

GiveUp(k) ==
  /\ Done(k)
  /\ ws' = "down"

OnResolve ==
  /\ ops["resolve"] > 0
  /\ (Then("resolve", "connect") /\ UNCHANGED ws) \/ GiveUp("resolve")
  /\ UNCHANGED <<timer, unponged, slot, subscriptions, writing, wire, calls, app>>

OnConnect ==
  /\ ops["connect"] > 0
  /\ (Then("connect", "ssl") /\ UNCHANGED ws) \/ GiveUp("connect")
  /\ UNCHANGED <<timer, unponged, slot, subscriptions, writing, wire, calls, app>>

OnSSLHandshake ==
  /\ ops["ssl"] > 0
  /\ (Then("ssl", "handshake") /\ UNCHANGED ws) \/ GiveUp("ssl")
  /\ UNCHANGED <<timer, unponged, slot, subscriptions, writing, wire, calls, app>>

\* The wait on the timer is started before the slot is read.  An exception from
\* the reading leaves the handler, and an open stream that nobody uses.
OnHandshake ==
  /\ ops["handshake"] > 0
  /\ \/ /\ WriteSlot("handshake")
        /\ ws' = "open"
        /\ timer' = "armed"
     \/ /\ Meaning(slot) = Unreadable
        /\ Done("handshake")
        /\ ws' = "open"
        /\ timer' = "armed"
        /\ UNCHANGED <<slot, writing>>
     \/ /\ GiveUp("handshake")
        /\ UNCHANGED <<timer, slot, writing>>
  /\ UNCHANGED <<unponged, subscriptions, wire, calls, app>>

-----------------------------------------------------------------------------
(* Writing and reading.                                                    *)

\* A write that reached an open stream is with the exchange; on failure the
\* handler returns, and neither reads nor stops the timer.
OnWrite ==
  /\ ops["write"] > 0
  /\ \/ /\ Then("write", "read")
        /\ wire' = IF ws = "open" THEN [wire EXCEPT ![writing] = @ + 1] ELSE wire
     \/ /\ ws # "open"
        /\ Done("write")
        /\ UNCHANGED wire
  /\ writing' = NoFrame
  /\ UNCHANGED <<ws, timer, unponged, slot, subscriptions, calls, app>>

OnReadError ==
  /\ ops["read"] > 0
  /\ ws = "down"
  /\ Done("read")
  /\ CancelTimer
  /\ UNCHANGED <<ws, unponged, slot, subscriptions, writing, wire, calls, app>>

\* An empty std::function throws: bad_function_call leaves the handler, and
\* what follows the log call is not done.
Abandon ==
  /\ ~app.logs
  /\ Done("read")
  /\ UNCHANGED <<ws, slot, writing>>

\* A JSON exception ends the handler: close, and do not read again.
CloseAndStop ==
  \/ Abandon
  \/ /\ app.logs
     /\ ops["close"] < MaxCloses
     /\ Then("read", "close")
     /\ Closing
     /\ UNCHANGED <<slot, writing>>

\* The end of onRead: send the request that waits in the slot, or fail to read
\* it, or read on, or quit when nothing is subscribed (and read on until the
\* stream is closed).
\* Mutants: the else after the write is missing, so the handler also reads
\* on; the slot is not tested.
MutSendAndRead ==
  /\ slot # NoRequest /\ Meaning(slot) # Unreadable
  /\ ops' = [ops EXCEPT !["write"] = @ + 1]
  /\ writing' \in Written(Meaning(slot))
  /\ slot' = NoRequest
  /\ UNCHANGED ws

MutSendUntested == WriteSlot("read") /\ UNCHANGED ws

SendNext ==
  /\ slot # NoRequest
  /\ WriteSlot("read")
  /\ UNCHANGED ws

SendUnreadable ==
  /\ Meaning(slot) = Unreadable
  /\ CloseAndStop

ReadOn ==
  /\ slot = NoRequest
  /\ \E c \in Channels : subscriptions'[c] > 0
  /\ UNCHANGED <<ops, ws, slot, writing>>

Quit ==
  /\ slot = NoRequest
  /\ \A c \in Channels : subscriptions'[c] = 0
  /\ \/ Abandon
     \/ /\ app.logs
        /\ ops["close"] < MaxCloses
        /\ ops' = [ops EXCEPT !["close"] = @ + 1]
        /\ Closing
        /\ UNCHANGED <<slot, writing>>

\* Mutant: the slot is looked at only when nothing is subscribed.
MutReadFirst ==
  IF \E c \in Channels : subscriptions'[c] > 0
  THEN UNCHANGED <<ops, ws, slot, writing>>
  ELSE SendNext \/ SendUnreadable \/ Quit

Proceed == SendNext \/ SendUnreadable \/ ReadOn \/ Quit

Receiving == ops["read"] > 0 /\ ws \in {"open", "closing"}

OnSubscribed(c) ==
  /\ Receiving
  /\ wire[c] > 0
  /\ wire' = [wire EXCEPT ![c] = @ - 1]
  /\ subscriptions' = [subscriptions EXCEPT ![c] = @ + 1]
  /\ Proceed
  /\ UNCHANGED <<timer, unponged, calls, app>>

\* Mutant: the iterator is not compared with end().
MutEraseUnfound(c) ==
  /\ Receiving
  /\ subscriptions' = [subscriptions EXCEPT ![c] = @ - 1]
  /\ Proceed
  /\ UNCHANGED <<timer, unponged, wire, calls, app>>

\* What is not in the vector is not erased, and the handler goes on all the same.
OnUnsubscribed(c) ==
  /\ Receiving
  /\ subscriptions' = IF subscriptions[c] > 0
                      THEN [subscriptions EXCEPT ![c] = @ - 1]
                      ELSE subscriptions
  /\ Proceed
  /\ UNCHANGED <<timer, unponged, wire, calls, app>>

OnErrorEvent(f) ==
  /\ Receiving
  /\ wire[f] > 0
  /\ wire' = [wire EXCEPT ![f] = @ - 1]
  /\ UNCHANGED subscriptions
  /\ (app.logs /\ Proceed) \/ Abandon
  /\ UNCHANGED <<timer, unponged, calls, app>>

\* A data message of a subscribed channel.  When it, or the callback it is
\* given to, throws, the exception is logged and the handler goes on.
OnData ==
  /\ Receiving
  /\ \E c \in Channels : subscriptions[c] > 0
  /\ UNCHANGED subscriptions
  /\ Proceed \/ Abandon
  /\ UNCHANGED <<timer, unponged, wire, calls, app>>

\* Mutant: the exception is logged and the stream is left open.
MutMalformedIgnored ==
  /\ Receiving
  /\ Done("read")
  /\ UNCHANGED <<ws, slot, writing, timer, unponged, subscriptions, wire, calls, app>>

\* A message that is not JSON.
OnMalformed ==
  /\ Receiving
  /\ CloseAndStop
  /\ UNCHANGED <<timer, unponged, subscriptions, wire, calls, app>>

ServerSends ==
  \/ \E c \in Channels : OnSubscribed(c)
  \/ \E f \in Frames : OnErrorEvent(f)
  \/ OnData

-----------------------------------------------------------------------------
(* Keep-alive and close.                                                   *)

TimerExpires ==
  /\ timer = "armed"
  /\ timer' = "expired"
  /\ UNCHANGED <<ops, ws, unponged, slot, subscriptions, writing, wire, calls, app>>

\* Mutant: the timer is not armed again.
MutPingOnce ==
  /\ timer = "expired"
  /\ ops["ping"] < MaxPings
  /\ ops' = [ops EXCEPT !["ping"] = @ + 1]
  /\ timer' = "idle"
  /\ UNCHANGED <<ws, unponged, slot, subscriptions, writing, wire, calls, app>>

\* "ping expired" is only logged.
OnPingTimer ==
  /\ timer = "expired"
  /\ \/ /\ unponged /\ ~app.logs
        /\ timer' = "idle"
        /\ UNCHANGED ops
     \/ /\ IF ws = "open"
           THEN /\ ops["ping"] < MaxPings
                /\ ops' = [ops EXCEPT !["ping"] = @ + 1]
           ELSE UNCHANGED ops
        /\ timer' = "armed"
  /\ UNCHANGED <<ws, unponged, slot, subscriptions, writing, wire, calls, app>>

\* Mutant: the error code is not looked at.
MutCancelIgnored ==
  /\ timer = "cancelled"
  /\ timer' = "armed"
  /\ UNCHANGED <<ops, ws, unponged, slot, subscriptions, writing, wire, calls, app>>

OnPingTimerCancelled ==
  /\ timer = "cancelled"
  /\ timer' = "idle"
  /\ UNCHANGED <<ops, ws, unponged, slot, subscriptions, writing, wire, calls, app>>

OnPing ==
  /\ ops["ping"] > 0
  /\ Done("ping")
  /\ unponged' \in (IF ws = "open" THEN {TRUE} ELSE {unponged, TRUE})
  /\ UNCHANGED <<ws, timer, slot, subscriptions, writing, wire, calls, app>>

OnPong ==
  /\ Receiving
  /\ unponged
  /\ unponged' = FALSE
  /\ UNCHANGED <<ops, ws, timer, slot, subscriptions, writing, wire, calls, app>>

\* async_close ends when the stream is closed, or at once if it was not open.
OnClose ==
  /\ ops["close"] > 0
  /\ Done("close")
  /\ CancelTimer
  /\ ws' = IF ws = "closing" THEN "down" ELSE ws
  /\ UNCHANGED <<unponged, slot, subscriptions, writing, wire, calls, app>>

Disconnect ==
  /\ ws \in {"open", "closing"}
  /\ ws' = "down"
  /\ UNCHANGED <<ops, timer, unponged, slot, subscriptions, writing, wire, calls, app>>

-----------------------------------------------------------------------------
Application == (\E t \in Texts : Run(t) \/ Subscribe(t)) \/ Close
Opening == OnResolve \/ OnConnect \/ OnSSLHandshake \/ OnHandshake
Streaming == OnWrite \/ OnReadError \/ ServerSends \/ OnMalformed
             \/ (\E c \in Channels : OnUnsubscribed(c))
KeepAlive == TimerExpires \/ OnPingTimer \/ OnPingTimerCancelled \/ OnPing \/ OnPong

Next == Application \/ Opening \/ Streaming \/ KeepAlive \/ OnClose \/ Disconnect

Spec == Init /\ [][Next]_vars

(***************************************************************************)
(* Fairness: the io_context runs every handler that is ready; connects,    *)
(* handshakes, writes and closes end (Beast and TCP give them time limits),*)
(* timers expire, and the exchange answers or sends data on an open        *)
(* stream.  Nothing is assumed of the application, of disconnections, or   *)
(* of what the exchange chooses to send.                                   *)
(***************************************************************************)
Fairness ==
  /\ WF_vars(Opening)
  /\ WF_vars(OnWrite)
  /\ WF_vars(OnReadError)
  /\ WF_vars(ServerSends)
  /\ WF_vars(TimerExpires)
  /\ WF_vars(OnPingTimer)
  /\ WF_vars(OnPingTimerCancelled)
  /\ WF_vars(OnPing)
  /\ WF_vars(OnClose)

FairSpec == Spec /\ Fairness

-----------------------------------------------------------------------------
(* Safety.                                                                 *)

\* The stream's contract: the connection is opened step by step, and then at
\* most one read or write of the application is under way, whatever messages,
\* timers, calls of subscribe() and disconnections come between.
OneStepAtATime ==
  /\ \A k \in Steps : ops[k] <= 1
  /\ \A k, l \in Steps : ops[k] > 0 /\ ops[l] > 0 => k = l

\* An empty frame is sent only when subscribe("") has emptied the slot that
\* onHandshake() writes without looking, so as the first frame; onRead() looks.
EmptyFrameIsFirst ==
  ops["write"] > 0 /\ writing = NoRequest
    => /\ calls[NoRequest] > 0
       /\ \A f \in Frames : wire[f] = 0
       /\ \A c \in Channels : subscriptions[c] = 0

\* When errors can be logged and every request could be read, an open stream is
\* always being read or written, so that its messages, its end and the requests
\* in the slot are noticed.
OpenIsDriven ==
  ws = "open" /\ app.logs /\ calls[Unreadable] = 0
    => ops["read"] > 0 \/ ops["write"] > 0

\* Keep-alive pings go on for as long as the stream is open, unless a log call
\* throws or the application closes the session too early.
KeepAliveArmed ==
  ws = "open" /\ app.logs /\ ~app.closes => timer \in {"armed", "expired"}

\* A channel is sent, and subscribed, at most as often as run() or subscribe()
\* were given a request for it: neither a message that comes between nor a write
\* that fails makes the session send it again.
SentAsOftenAsAsked ==
  \A c \in Channels :
    subscriptions[c] + wire[c] + (IF writing = c THEN 1 ELSE 0)
      + (IF Meaning(slot) = c THEN 1 ELSE 0) <= calls[c]

\* What the handlers do with the requests is what Subscriptions says.
Promise == INSTANCE Subscriptions WITH
  waiting <- slot, sending <- writing, unanswered <- wire, subscribed <- subscriptions

ImplementsSubscriptions == Promise!Spec

(* Liveness.                                                               *)

\* A request in the slot is sent or cleared, unless the reading ends first.
PendingIsServed == slot # NoRequest ~> (slot = NoRequest \/ ~ChainAlive)

\* After pingTimer was cancelled in time the session is destroyed: the client
\* can open another one.
CancelledIsReleased == timer = "cancelled" /\ ~app.closes ~> Released

(* What the documentation says, and the code does not do.                  *)

\* "Subscribe WebSocket according to the subscriptionRequest"
\* (okx_ws_client.h): a request that waits to be sent is not dropped.
NoPendingRequestOverwritten ==
  [][slot # NoRequest => slot' \in {slot, NoRequest}]_vars

\* The same sentence: an accepted request is sent, or the session is gone and
\* the next subscribe() opens another one.
AcceptedIsSentOrReleased == slot # NoRequest ~> (slot = NoRequest \/ Released)
=============================================================================
