---------------------- MODULE WebSocketSession_proofs ----------------------
(***************************************************************************)
(* Proofs about WebSocketSession, for every set of requests and whatever   *)
(* the bounds.                                                             *)
(*                                                                         *)
(* None of the safety properties is inductive alone.  That at most one     *)
(* step of the chain is under way is kept because run() starts the chain   *)
(* on a session without operations; that only a first frame is empty,      *)
(* because until the handshake nothing is sent and nothing but an empty    *)
(* request empties the slot; that an open stream is driven, because        *)
(* whoever ends the chain has seen the stream closing or down, or a        *)
(* request that it cannot read.  SessionInv joins them with what relates   *)
(* the phase of the stream to the operations.                              *)
(***************************************************************************)
EXTENDS WebSocketSession, TLAPS

OpeningSteps == {"resolve", "connect", "ssl", "handshake"}

\* Nothing is unanswered or subscribed.
Unsent ==
  /\ \A f \in Frames : wire[f] = 0
  /\ \A c \in Channels : subscriptions[c] = 0

NewIsIdle ==
  ws = "new" => /\ \A k \in OpKinds : ops[k] = 0
                /\ Unsent
                /\ timer = "idle"

OpeningHasRequest ==
  \A k \in OpeningSteps :
    ops[k] > 0 => /\ ws = "opening" /\ timer = "idle" /\ Unsent
                  /\ slot = NoRequest => calls[NoRequest] > 0

\* What is in the slot was given.
SlotWasGiven == slot # NoRequest => calls[Meaning(slot)] > 0

WriteHasFrame == ops["write"] > 0 => writing # NoFrame

StreamingIsStarted ==
  ops["write"] > 0 \/ ops["read"] > 0 => ws \in {"open", "closing", "down"}

ClosesOnlyOpen ==
  ~app.closes /\ ops["close"] > 0 => ws \in {"closing", "down"}

SessionInv ==
  /\ TypeOK
  /\ OneStepAtATime
  /\ EmptyFrameIsFirst
  /\ WriteHasFrame
  /\ SlotWasGiven
  /\ NewIsIdle
  /\ OpeningHasRequest
  /\ StreamingIsStarted
  /\ OpenIsDriven
  /\ ClosesOnlyOpen
  /\ KeepAliveArmed

-----------------------------------------------------------------------------
(* The counters of the operations.                                         *)

\* Going from one step of the chain to the next leaves that one alone.
LEMMA ThenMoves ==
  ASSUME TypeOK, OneStepAtATime, NEW k \in Steps, NEW l \in Steps,
         k # l, ops[k] > 0, Then(k, l)
  PROVE  /\ ops' \in [OpKinds -> Nat]
         /\ ops'[l] = 1
         /\ \A m \in Steps \ {l} : ops'[m] = 0
         /\ \A m \in {"ping", "close"} : ops'[m] = ops[m]
BY DEF TypeOK, OneStepAtATime, Then, Steps, OpKinds

\* The chain ends with the step that is done.
LEMMA DoneEnds ==
  ASSUME TypeOK, OneStepAtATime, NEW k \in Steps, ops[k] > 0, Done(k)
  PROVE  /\ ops' \in [OpKinds -> Nat]
         /\ \A m \in Steps : ops'[m] = 0
         /\ \A m \in {"ping", "close"} : ops'[m] = ops[m]
BY DEF TypeOK, OneStepAtATime, Done, Steps, OpKinds

\* A ping or a close that starts or is done leaves the chain alone.
LEMMA OthersMove ==
  ASSUME TypeOK, NEW k \in {"ping", "close"},
         \/ ops' = [ops EXCEPT ![k] = @ + 1]
         \/ ops[k] > 0 /\ Done(k)
  PROVE  /\ ops' \in [OpKinds -> Nat]
         /\ \A m \in Steps : ops'[m] = ops[m]
         /\ k = "ping" => ops'["close"] = ops["close"]
BY DEF TypeOK, Done, Steps, OpKinds

-----------------------------------------------------------------------------
(* Texts and frames.                                                       *)

\* Only the empty text means nothing.
LEMMA MeaningOfText ==
  ASSUME NEW t \in Texts
  PROVE  /\ Meaning(t) \in Meanings
         /\ Meaning(t) = NoRequest <=> t = NoRequest
BY SessionAssumption DEF Meaning, Meanings, Texts

\* What is written is a frame, and an empty one only for an empty slot.
LEMMA WrittenIsFrame ==
  ASSUME NEW t \in Texts, Meaning(t) # Unreadable, NEW f \in Written(Meaning(t))
  PROVE  /\ f \in Frames /\ f # NoFrame
         /\ f = NoRequest <=> t = NoRequest
         /\ f \in {Meaning(t), Garbled}
<1>1. Meaning(t) \in Channels \cup {NoRequest}
  BY MeaningOfText DEF Meanings
<1> QED
  BY <1>1, MeaningOfText, SessionAssumption DEF Written, Frames

-----------------------------------------------------------------------------
(* Every action preserves the invariant.                                   *)

LEMMA InitInv == Init => SessionInv
<1> SUFFICES ASSUME Init PROVE SessionInv
  OBVIOUS
<1> USE SessionAssumption DEF Init
<1>1. TypeOK
  BY DEF TypeOK, Texts
<1>2. \A k \in OpKinds : ops[k] = 0
  OBVIOUS
<1>3. \A k \in Steps : ops[k] = 0
  BY <1>2 DEF OpKinds
<1> QED
  BY <1>1, <1>2, <1>3
  DEF SessionInv, OneStepAtATime, EmptyFrameIsFirst, WriteHasFrame, SlotWasGiven, Unsent, NewIsIdle, OpeningHasRequest,
      StreamingIsStarted, OpenIsDriven, ClosesOnlyOpen,
      KeepAliveArmed, OpeningSteps, Steps, OpKinds

\* A text that is given is counted, and goes to the slot or leaves it as it is.
LEMMA TextIsGiven ==
  ASSUME TypeOK, SlotWasGiven, NEW t \in Texts, WriteSubscriptionRequest(t),
         calls' = [calls EXCEPT ![Meaning(t)] = @ + 1]
  PROVE  /\ slot' \in Texts
         /\ calls' \in [Meanings -> Nat]
         /\ \A m \in Meanings : calls'[m] >= calls[m]
         /\ SlotWasGiven'
         /\ slot' = NoRequest => slot = NoRequest \/ calls'[NoRequest] > 0
<1>1. /\ calls' \in [Meanings -> Nat]
      /\ \A m \in Meanings : calls'[m] >= calls[m]
      /\ calls'[Meaning(t)] > 0
  BY MeaningOfText DEF TypeOK
<1>2. slot' = slot \/ slot' = t
  BY DEF WriteSubscriptionRequest
<1>3. slot' \in Texts
  BY <1>2 DEF TypeOK
<1>4. SlotWasGiven'
  <2>1. CASE slot' = t
    BY <1>1, <2>1 DEF SlotWasGiven, Meaning
  <2>2. CASE slot' = slot
    <3>1. Meaning(slot) \in Meanings
      BY MeaningOfText DEF TypeOK
    <3> QED
      BY <1>1, <2>2, <3>1 DEF SlotWasGiven, Meaning, TypeOK
  <2> QED
    BY <1>2, <2>1, <2>2
<1>5. t = NoRequest => Meaning(t) = NoRequest
  BY DEF Meaning
<1> QED
  BY <1>1, <1>2, <1>3, <1>4, <1>5

\* run() starts the chain on an idle session with a request in the slot.
LEMMA RunInv ==
  ASSUME SessionInv, NEW t \in Texts, Run(t) PROVE SessionInv'
<1> USE SessionAssumption DEF SessionInv
<1>1. /\ ops' \in [OpKinds -> Nat]
      /\ ops'["resolve"] = 1
      /\ \A k \in OpKinds \ {"resolve"} : ops'[k] = 0
  BY DEF Run, Started, NewIsIdle, TypeOK, OpKinds, Steps
<1>2. timer = "idle" /\ Unsent
  BY DEF Run, Started, NewIsIdle
<1>3. slot' = t /\ t # NoRequest
  BY <1>2 DEF Run, WriteSubscriptionRequest, Unsent
<1>4. calls' \in [Meanings -> Nat] /\ SlotWasGiven' /\ slot' \in Texts
  BY TextIsGiven DEF Run
<1>5. /\ \A k \in Steps \ {"resolve"} : ops'[k] = 0
      /\ ops'["close"] = 0
  BY <1>1 DEF OpKinds, Steps
<1>6. TypeOK'
  BY <1>1, <1>4 DEF Run, TypeOK
<1>7. OneStepAtATime'
  BY <1>1, <1>5 DEF OneStepAtATime, Steps
<1>8. Unsent'
  BY <1>2 DEF Run, Unsent
<1> QED
  BY <1>1, <1>2, <1>3, <1>4, <1>5, <1>6, <1>7, <1>8
  DEF Run, EmptyFrameIsFirst, WriteHasFrame, NewIsIdle, OpeningHasRequest,
      StreamingIsStarted, OpenIsDriven, ClosesOnlyOpen, KeepAliveArmed,
      OpeningSteps, Steps

\* subscribe() changes the slot, and empties it only for an empty request.
LEMMA SubscribeInv ==
  ASSUME SessionInv, NEW t \in Texts, Subscribe(t) PROVE SessionInv'
<1> USE SessionAssumption DEF SessionInv
<1>1. /\ slot' \in Texts
      /\ calls' \in [Meanings -> Nat]
      /\ \A m \in Meanings : calls'[m] >= calls[m]
      /\ SlotWasGiven'
      /\ slot' = NoRequest => slot = NoRequest \/ calls'[NoRequest] > 0
  BY TextIsGiven DEF Subscribe
<1>2. NoRequest \in Meanings /\ Unreadable \in Meanings
  BY DEF Meanings
<1>3. /\ calls'[NoRequest] >= calls[NoRequest] /\ calls'[Unreadable] >= calls[Unreadable]
      /\ calls[NoRequest] \in Nat /\ calls[Unreadable] \in Nat
      /\ calls'[NoRequest] \in Nat /\ calls'[Unreadable] \in Nat
  BY <1>1, <1>2 DEF TypeOK
<1>4. UNCHANGED <<ops, ws, timer, unponged, subscriptions, writing, wire, app>> /\ ws # "new"
  BY DEF Subscribe, Started
<1> QED
  BY <1>1, <1>3, <1>4
  DEF TypeOK, OneStepAtATime, EmptyFrameIsFirst, WriteHasFrame, Unsent, NewIsIdle,
      OpeningHasRequest, StreamingIsStarted, OpenIsDriven,
      ClosesOnlyOpen, KeepAliveArmed

\* close() adds a close operation.
LEMMA CloseInv == SessionInv /\ Close => SessionInv'
<1> SUFFICES ASSUME SessionInv, Close PROVE SessionInv'
  OBVIOUS
<1> USE SessionAssumption DEF SessionInv
<1>1. /\ ops' \in [OpKinds -> Nat]
      /\ \A m \in Steps : ops'[m] = ops[m]
  BY OthersMove DEF Close
<1>2. ws' = "open" => ws = "open"
  BY DEF Close, Closing, TypeOK
<1> QED
  BY <1>1, <1>2
  DEF Close, Closing, Started, TypeOK, OneStepAtATime, EmptyFrameIsFirst, WriteHasFrame, SlotWasGiven, Unsent, NewIsIdle,
      OpeningHasRequest, StreamingIsStarted, OpenIsDriven,
      ClosesOnlyOpen, KeepAliveArmed, OpeningSteps, Steps

\* A handler of the opening phase starts the next step of it, or gives up.
LEMMA OpeningStepInv ==
  ASSUME SessionInv, NEW k \in OpeningSteps, NEW l \in OpeningSteps, k # l,
         ops[k] > 0,
         (Then(k, l) /\ UNCHANGED ws) \/ GiveUp(k),
         UNCHANGED <<timer, unponged, slot, subscriptions, writing, wire, calls, app>>
  PROVE  SessionInv'
<1> USE SessionAssumption DEF SessionInv
<1>0. k \in Steps /\ l \in Steps
  BY DEF OpeningSteps, Steps
<1>1. CASE Then(k, l) /\ UNCHANGED ws
  <2>1. /\ ops' \in [OpKinds -> Nat]
        /\ ops'[l] = 1
        /\ \A m \in Steps \ {l} : ops'[m] = 0
        /\ \A m \in {"ping", "close"} : ops'[m] = ops[m]
    BY <1>0, <1>1, ThenMoves
  <2> QED
    BY <1>0, <1>1, <2>1
    DEF TypeOK, OneStepAtATime, EmptyFrameIsFirst, WriteHasFrame, SlotWasGiven, Unsent, NewIsIdle, OpeningHasRequest,
        StreamingIsStarted, OpenIsDriven, ClosesOnlyOpen,
        KeepAliveArmed, OpeningSteps, Steps
<1>2. CASE GiveUp(k)
  <2>1. /\ ops' \in [OpKinds -> Nat]
        /\ \A m \in Steps : ops'[m] = 0
        /\ \A m \in {"ping", "close"} : ops'[m] = ops[m]
    BY <1>0, <1>2, DoneEnds DEF GiveUp
  <2> QED
    BY <1>0, <1>2, <2>1
    DEF GiveUp, TypeOK, OneStepAtATime, EmptyFrameIsFirst, WriteHasFrame, SlotWasGiven, Unsent, NewIsIdle,
        OpeningHasRequest, StreamingIsStarted, OpenIsDriven,
        ClosesOnlyOpen, KeepAliveArmed, OpeningSteps, Steps
<1> QED
  BY <1>1, <1>2

\* After the handshake the request in the slot is written and the timer armed,
\* or nothing is written of a request that cannot be read.
LEMMA OnHandshakeInv == SessionInv /\ OnHandshake => SessionInv'
<1> SUFFICES ASSUME SessionInv, OnHandshake PROVE SessionInv'
  OBVIOUS
<1> USE SessionAssumption DEF SessionInv
<1>0. /\ ws = "opening" /\ Unsent
      /\ slot = NoRequest => calls[NoRequest] > 0
  BY DEF OnHandshake, OpeningHasRequest, OpeningSteps
<1>1. CASE WriteSlot("handshake") /\ ws' = "open" /\ timer' = "armed"
  <2>1. /\ ops' \in [OpKinds -> Nat]
        /\ ops'["write"] = 1
        /\ \A m \in Steps \ {"write"} : ops'[m] = 0
        /\ \A m \in {"ping", "close"} : ops'[m] = ops[m]
    BY <1>1, ThenMoves DEF WriteSlot, OnHandshake, Steps
  <2>2. /\ writing' \in Frames /\ writing' # NoFrame
        /\ writing' = NoRequest => slot = NoRequest
    BY <1>1, WrittenIsFrame DEF WriteSlot, TypeOK
  <2>3. slot' = NoRequest /\ NoRequest \in Texts
    BY <1>1 DEF WriteSlot, Texts
  <2>4. Unsent' /\ UNCHANGED calls
    BY <1>0 DEF OnHandshake, Unsent
  <2> QED
    BY <1>0, <1>1, <2>1, <2>2, <2>3, <2>4
    DEF OnHandshake, TypeOK, OneStepAtATime, EmptyFrameIsFirst, WriteHasFrame,
        SlotWasGiven, Unsent, NewIsIdle, OpeningHasRequest,
        StreamingIsStarted, OpenIsDriven, ClosesOnlyOpen,
        KeepAliveArmed, OpeningSteps, Steps
<1>3. CASE /\ Meaning(slot) = Unreadable /\ Done("handshake")
           /\ ws' = "open" /\ timer' = "armed" /\ UNCHANGED <<slot, writing>>
  <2>1. /\ ops' \in [OpKinds -> Nat]
        /\ \A m \in Steps : ops'[m] = 0
        /\ \A m \in {"ping", "close"} : ops'[m] = ops[m]
    BY <1>3, DoneEnds DEF OnHandshake, Steps
  <2>2. calls[Unreadable] > 0 /\ UNCHANGED calls
    BY <1>3 DEF SlotWasGiven, Meaning, OnHandshake
  <2>3. calls'[Unreadable] # 0
    BY <2>2 DEF TypeOK, Meanings
  <2>4. SlotWasGiven'
    BY <1>3, <2>2 DEF SlotWasGiven, Meaning
  <2> QED
    BY <1>0, <1>3, <2>1, <2>3, <2>4
    DEF OnHandshake, TypeOK, OneStepAtATime, EmptyFrameIsFirst, WriteHasFrame,
        NewIsIdle, OpeningHasRequest, StreamingIsStarted, OpenIsDriven,
        ClosesOnlyOpen, KeepAliveArmed, OpeningSteps, Steps
<1>2. CASE GiveUp("handshake") /\ UNCHANGED <<timer, slot, writing>>
  <2>1. /\ ops' \in [OpKinds -> Nat]
        /\ \A m \in Steps : ops'[m] = 0
        /\ \A m \in {"ping", "close"} : ops'[m] = ops[m]
    BY <1>2, DoneEnds DEF GiveUp, OnHandshake, Steps
  <2> QED
    BY <1>2, <2>1
    DEF OnHandshake, GiveUp, TypeOK, OneStepAtATime, EmptyFrameIsFirst, WriteHasFrame, SlotWasGiven, Unsent, NewIsIdle,
        OpeningHasRequest, StreamingIsStarted, OpenIsDriven,
        ClosesOnlyOpen, KeepAliveArmed, OpeningSteps, Steps
<1> QED
  BY <1>1, <1>2, <1>3 DEF OnHandshake

LEMMA OpeningInv == SessionInv /\ Opening => SessionInv'
<1> SUFFICES ASSUME SessionInv, Opening PROVE SessionInv'
  OBVIOUS
<1>0. /\ "resolve" \in OpeningSteps /\ "connect" \in OpeningSteps
      /\ "ssl" \in OpeningSteps /\ "handshake" \in OpeningSteps
  BY DEF OpeningSteps
<1>1. CASE OnResolve
  BY <1>0, <1>1, OpeningStepInv DEF OnResolve
<1>2. CASE OnConnect
  BY <1>0, <1>2, OpeningStepInv DEF OnConnect
<1>3. CASE OnSSLHandshake
  BY <1>0, <1>3, OpeningStepInv DEF OnSSLHandshake
<1>4. CASE OnHandshake
  BY <1>4, OnHandshakeInv
<1> QED
  BY <1>1, <1>2, <1>3, <1>4 DEF Opening

\* A write is followed by a read; a write that fails ends the chain, and the
\* stream is not open.
LEMMA OnWriteInv == SessionInv /\ OnWrite => SessionInv'
<1> SUFFICES ASSUME SessionInv, OnWrite PROVE SessionInv'
  OBVIOUS
<1> USE SessionAssumption DEF SessionInv
<1>0. wire' \in [Frames -> Nat]
  BY DEF OnWrite, TypeOK, EmptyFrameIsFirst, WriteHasFrame, SlotWasGiven, Unsent
<1>1. CASE Then("write", "read")
  <2>1. /\ ops' \in [OpKinds -> Nat]
        /\ ops'["read"] = 1
        /\ \A m \in Steps \ {"read"} : ops'[m] = 0
        /\ \A m \in {"ping", "close"} : ops'[m] = ops[m]
    BY <1>1, ThenMoves DEF OnWrite, Steps
  <2> QED
    BY <1>0, <1>1, <2>1
    DEF OnWrite, TypeOK, OneStepAtATime, EmptyFrameIsFirst, WriteHasFrame, SlotWasGiven, Unsent, NewIsIdle,
        OpeningHasRequest, StreamingIsStarted, OpenIsDriven,
        ClosesOnlyOpen, KeepAliveArmed, OpeningSteps, Steps
<1>2. CASE ws # "open" /\ Done("write")
  <2>1. /\ ops' \in [OpKinds -> Nat]
        /\ \A m \in Steps : ops'[m] = 0
        /\ \A m \in {"ping", "close"} : ops'[m] = ops[m]
    BY <1>2, DoneEnds DEF OnWrite, Steps
  <2> QED
    BY <1>0, <1>2, <2>1
    DEF OnWrite, TypeOK, OneStepAtATime, EmptyFrameIsFirst, WriteHasFrame, SlotWasGiven, Unsent, NewIsIdle,
        OpeningHasRequest, StreamingIsStarted, OpenIsDriven,
        ClosesOnlyOpen, KeepAliveArmed, OpeningSteps, Steps
<1> QED
  BY <1>1, <1>2 DEF OnWrite

LEMMA OnReadErrorInv == SessionInv /\ OnReadError => SessionInv'
<1> SUFFICES ASSUME SessionInv, OnReadError PROVE SessionInv'
  OBVIOUS
<1> USE SessionAssumption DEF SessionInv
<1>1. /\ ops' \in [OpKinds -> Nat]
      /\ \A m \in Steps : ops'[m] = 0
      /\ \A m \in {"ping", "close"} : ops'[m] = ops[m]
  BY DoneEnds DEF OnReadError, Steps
<1>2. timer' \in {"idle", "armed", "expired", "cancelled"}
  BY DEF OnReadError, CancelTimer, TypeOK
<1> QED
  BY <1>1, <1>2
  DEF OnReadError, TypeOK, OneStepAtATime, EmptyFrameIsFirst, WriteHasFrame, SlotWasGiven, Unsent, NewIsIdle,
      OpeningHasRequest, StreamingIsStarted, OpenIsDriven,
      ClosesOnlyOpen, KeepAliveArmed, OpeningSteps, Steps

\* A handler that ends with an exception ends the chain; the stream is closing,
\* or nobody logs.
LEMMA StopInv ==
  ASSUME SessionInv, Receiving, CloseAndStop,
         subscriptions' \in [Channels -> Nat], wire' \in [Frames -> Nat],
         UNCHANGED <<timer, unponged, calls, app>>
  PROVE  SessionInv'
<1> USE SessionAssumption DEF SessionInv
<1>0. ops["read"] > 0 /\ ws \in {"open", "closing"} /\ "read" \in Steps
  BY DEF Receiving, Steps
<1>1. /\ ops' \in [OpKinds -> Nat]
      /\ \A m \in Steps : ops'[m] = 0
  <2>1. CASE Abandon
    BY <1>0, <2>1, DoneEnds DEF Abandon
  <2>2. CASE Then("read", "close")
    BY <1>0, <2>2 DEF Then, TypeOK, OneStepAtATime, Steps, OpKinds
  <2> QED
    BY <2>1, <2>2 DEF CloseAndStop
<1>2. UNCHANGED <<slot, writing>>
  BY DEF CloseAndStop, Abandon
<1>3. \/ ~app.logs /\ UNCHANGED ws /\ ops'["close"] = ops["close"]
      \/ ws' = "closing"
  BY <1>0 DEF CloseAndStop, Abandon, Closing, Done, TypeOK, OpKinds
<1>4. SlotWasGiven'
  BY <1>2 DEF SlotWasGiven, Meaning
<1> QED
  BY <1>0, <1>1, <1>2, <1>3, <1>4
  DEF TypeOK, OneStepAtATime, EmptyFrameIsFirst, WriteHasFrame, NewIsIdle,
      OpeningHasRequest, StreamingIsStarted, OpenIsDriven, ClosesOnlyOpen,
      KeepAliveArmed, OpeningSteps, Steps

\* However onRead() ends: a write or a read is under way, or the stream is
\* closing, or nobody logs.
LEMMA ProceedInv ==
  ASSUME SessionInv, Receiving, Proceed \/ Abandon,
         subscriptions' \in [Channels -> Nat], wire' \in [Frames -> Nat],
         UNCHANGED <<timer, unponged, calls, app>>
  PROVE  SessionInv'
<1> USE SessionAssumption DEF SessionInv
<1>0. ops["read"] > 0 /\ ws \in {"open", "closing"} /\ "read" \in Steps
  BY DEF Receiving, Steps
<1>5. \A m \in Steps : m # "read" => ops[m] = 0
  BY <1>0 DEF OneStepAtATime, TypeOK, OpKinds
<1>1. CASE SendNext
  <2>1. /\ ops' \in [OpKinds -> Nat]
        /\ ops'["write"] = 1
        /\ \A m \in Steps \ {"write"} : ops'[m] = 0
        /\ \A m \in {"ping", "close"} : ops'[m] = ops[m]
    BY <1>0, <1>1, ThenMoves DEF SendNext, WriteSlot, Steps
  <2>2. writing' \in Frames /\ writing' # NoFrame /\ writing' # NoRequest
    BY <1>1, WrittenIsFrame DEF SendNext, WriteSlot, TypeOK
  <2>3. slot' = NoRequest /\ ws' = ws /\ NoRequest \in Texts
    BY <1>1 DEF SendNext, WriteSlot, Texts
  <2> QED
    BY <1>0, <2>1, <2>2, <2>3
    DEF TypeOK, OneStepAtATime, EmptyFrameIsFirst, WriteHasFrame, SlotWasGiven,
        NewIsIdle, OpeningHasRequest, StreamingIsStarted, OpenIsDriven,
        ClosesOnlyOpen, KeepAliveArmed, OpeningSteps, Steps
<1>2. CASE ReadOn
  <2>1. SlotWasGiven'
    BY <1>2 DEF ReadOn, SlotWasGiven
  <2> QED
    BY <1>0, <1>2, <1>5, <2>1
    DEF ReadOn, TypeOK, OneStepAtATime, EmptyFrameIsFirst, WriteHasFrame,
        NewIsIdle, OpeningHasRequest, StreamingIsStarted, OpenIsDriven,
        ClosesOnlyOpen, KeepAliveArmed, OpeningSteps, Steps
<1>3. CASE SendUnreadable \/ Abandon
  BY <1>3, StopInv DEF SendUnreadable, CloseAndStop
<1>4. CASE /\ ops' = [ops EXCEPT !["close"] = @ + 1]
           /\ Closing
           /\ UNCHANGED <<slot, writing>>
  <2>1. /\ ops' \in [OpKinds -> Nat]
        /\ \A m \in Steps : ops'[m] = ops[m]
    BY <1>4, OthersMove
  <2>2. ws' = "closing"
    BY <1>0, <1>4 DEF Closing
  <2>3. SlotWasGiven'
    BY <1>4 DEF SlotWasGiven, Meaning
  <2> QED
    BY <1>0, <1>4, <1>5, <2>1, <2>2, <2>3
    DEF TypeOK, OneStepAtATime, EmptyFrameIsFirst, WriteHasFrame, NewIsIdle,
        OpeningHasRequest, StreamingIsStarted, OpenIsDriven, ClosesOnlyOpen,
        KeepAliveArmed, OpeningSteps, Steps
<1> QED
  BY <1>1, <1>2, <1>3, <1>4 DEF Proceed, Quit

\* A message that is not JSON ends the chain.
LEMMA OnMalformedInv == SessionInv /\ OnMalformed => SessionInv'
BY StopInv DEF OnMalformed, SessionInv, TypeOK

LEMMA StreamingInv == SessionInv /\ Streaming => SessionInv'
<1> SUFFICES ASSUME SessionInv, Streaming PROVE SessionInv'
  OBVIOUS
<1>0. TypeOK
  BY DEF SessionInv
<1>1. ASSUME NEW r \in Channels, OnSubscribed(r) PROVE SessionInv'
  <2>1. subscriptions' \in [Channels -> Nat] /\ wire' \in [Frames -> Nat]
    BY <1>0, <1>1 DEF OnSubscribed, TypeOK, Frames
  <2> QED
    BY <1>1, <2>1, ProceedInv DEF OnSubscribed
<1>2. ASSUME NEW r \in Channels, OnUnsubscribed(r) PROVE SessionInv'
  <2>1. subscriptions' \in [Channels -> Nat] /\ wire' \in [Frames -> Nat]
    BY <1>0, <1>2 DEF OnUnsubscribed, TypeOK
  <2> QED
    BY <1>2, <2>1, ProceedInv DEF OnUnsubscribed
<1>3. ASSUME NEW f \in Frames, OnErrorEvent(f) PROVE SessionInv'
  <2>1. subscriptions' \in [Channels -> Nat] /\ wire' \in [Frames -> Nat]
    BY <1>0, <1>3 DEF OnErrorEvent, TypeOK
  <2> QED
    BY <1>3, <2>1, ProceedInv DEF OnErrorEvent
<1>4. CASE OnData
  BY <1>0, <1>4, ProceedInv DEF OnData, TypeOK
<1> QED
  BY <1>1, <1>2, <1>3, <1>4, OnWriteInv, OnReadErrorInv, OnMalformedInv
  DEF Streaming, ServerSends

LEMMA KeepAliveInv == SessionInv /\ KeepAlive => SessionInv'
<1> SUFFICES ASSUME SessionInv, KeepAlive PROVE SessionInv'
  OBVIOUS
<1> USE SessionAssumption DEF SessionInv
<1>1. CASE TimerExpires \/ OnPingTimerCancelled
  BY <1>1
  DEF TimerExpires, OnPingTimerCancelled, TypeOK, OneStepAtATime, EmptyFrameIsFirst, WriteHasFrame, SlotWasGiven, Unsent,
      NewIsIdle, OpeningHasRequest, StreamingIsStarted, OpenIsDriven, ClosesOnlyOpen, KeepAliveArmed
<1>2. CASE OnPingTimer
  <2>1. /\ ops' \in [OpKinds -> Nat]
        /\ \A m \in Steps : ops'[m] = ops[m]
        /\ ops'["close"] = ops["close"]
    BY <1>2, OthersMove DEF OnPingTimer, TypeOK, OpKinds, Steps
  <2>2. /\ timer = "expired"
        /\ timer' \in {"idle", "armed"}
        /\ app.logs => timer' = "armed"
    BY <1>2 DEF OnPingTimer
  <2>3. ws # "new"
    BY <2>2 DEF NewIsIdle
  <2> QED
    BY <1>2, <2>1, <2>2, <2>3
    DEF OnPingTimer, TypeOK, OneStepAtATime, EmptyFrameIsFirst, WriteHasFrame, SlotWasGiven, Unsent, NewIsIdle,
        OpeningHasRequest, StreamingIsStarted, OpenIsDriven,
        ClosesOnlyOpen, KeepAliveArmed, OpeningSteps, Steps
<1>3. CASE OnPing
  <2>1. /\ ops' \in [OpKinds -> Nat]
        /\ \A m \in Steps : ops'[m] = ops[m]
        /\ ops'["close"] = ops["close"]
    BY <1>3, OthersMove DEF OnPing
  <2>2. ws # "new"
    BY <1>3 DEF OnPing, NewIsIdle, OpKinds
  <2>3. unponged' \in BOOLEAN
    <3>1. unponged' = TRUE \/ unponged' = unponged
      BY <1>3 DEF OnPing
    <3> QED
      BY <3>1, Zenon DEF TypeOK
  <2> QED
    BY <1>3, <2>1, <2>2, <2>3
    DEF OnPing, TypeOK, OneStepAtATime, EmptyFrameIsFirst, WriteHasFrame, SlotWasGiven, Unsent, NewIsIdle,
        OpeningHasRequest, StreamingIsStarted, OpenIsDriven,
        ClosesOnlyOpen, KeepAliveArmed, OpeningSteps, Steps
<1>4. CASE OnPong
  BY <1>4
  DEF OnPong, TypeOK, OneStepAtATime, EmptyFrameIsFirst, WriteHasFrame, SlotWasGiven, Unsent, NewIsIdle,
      OpeningHasRequest, StreamingIsStarted, OpenIsDriven,
      ClosesOnlyOpen, KeepAliveArmed
<1> QED
  BY <1>1, <1>2, <1>3, <1>4 DEF KeepAlive

\* onClose() cancels the timer of a stream that is down, or that the
\* application closed before it was open.
LEMMA OnCloseInv == SessionInv /\ OnClose => SessionInv'
<1> SUFFICES ASSUME SessionInv, OnClose PROVE SessionInv'
  OBVIOUS
<1> USE SessionAssumption DEF SessionInv
<1>1. /\ ops' \in [OpKinds -> Nat]
      /\ \A m \in Steps : ops'[m] = ops[m]
  BY OthersMove DEF OnClose
<1>2. /\ ws # "new"
      /\ ops["close"] > 0
      /\ ws' = IF ws = "closing" THEN "down" ELSE ws
  BY DEF OnClose, NewIsIdle, OpKinds
<1>3. /\ timer' \in {"idle", "armed", "expired", "cancelled"}
      /\ timer = "idle" => timer' = "idle"
  BY DEF OnClose, CancelTimer, TypeOK
<1>4. /\ ws' \in {"opening", "open", "down"}
      /\ ws' # "down" => ws' = ws
      /\ ~app.closes => ws' = "down"
  BY <1>2 DEF TypeOK, ClosesOnlyOpen
<1>5. UNCHANGED <<unponged, slot, subscriptions, writing, wire, calls, app>>
  BY DEF OnClose
<1> QED
  BY <1>1, <1>2, <1>3, <1>4, <1>5
  DEF TypeOK, OneStepAtATime, EmptyFrameIsFirst, WriteHasFrame, SlotWasGiven, Unsent, NewIsIdle, OpeningHasRequest,
      StreamingIsStarted, OpenIsDriven, ClosesOnlyOpen,
      KeepAliveArmed, OpeningSteps, Steps

LEMMA DisconnectInv == SessionInv /\ Disconnect => SessionInv'
BY SessionAssumption
DEF SessionInv, Disconnect, TypeOK, OneStepAtATime, EmptyFrameIsFirst, WriteHasFrame, SlotWasGiven, Unsent, NewIsIdle,
    OpeningHasRequest, StreamingIsStarted, OpenIsDriven,
    ClosesOnlyOpen, KeepAliveArmed, OpeningSteps, Steps

LEMMA NextInv == SessionInv /\ [Next]_vars => SessionInv'
<1> SUFFICES ASSUME SessionInv, [Next]_vars PROVE SessionInv'
  OBVIOUS
<1>1. CASE Application
  BY <1>1, RunInv, SubscribeInv, CloseInv DEF Application
<1>2. CASE UNCHANGED vars
  BY <1>2
  DEF vars, SessionInv, TypeOK, OneStepAtATime, EmptyFrameIsFirst, WriteHasFrame, SlotWasGiven, Unsent, NewIsIdle,
      OpeningHasRequest, StreamingIsStarted, OpenIsDriven,
      ClosesOnlyOpen, KeepAliveArmed
<1> QED
  BY <1>1, <1>2, OpeningInv, StreamingInv, KeepAliveInv, OnCloseInv,
     DisconnectInv
  DEF Next

-----------------------------------------------------------------------------
(* The theorems.                                                           *)

\* Every reachable state of a session satisfies the inductive invariant.
THEOREM SessionInvariant == Spec => []SessionInv
<1>1. Init => SessionInv
  BY InitInv
<1>2. SessionInv /\ [Next]_vars => SessionInv'
  BY NextInv
<1> QED
  BY <1>1, <1>2, PTL DEF Spec

-----------------------------------------------------------------------------
(* What every step does to the requests, seen as Subscriptions sees it.    *)

\* A frame is being sent only by the write of the chain, so none is when a
\* handshake or a read has ended and the next one is written.
FrameHasWrite == writing # NoFrame => ops["write"] > 0

requestVars == <<slot, writing, wire, subscriptions>>

\* A step of the session: the requests stay as they are, one is asked for, a
\* frame is sent, or a message comes.
RequestStep ==
  \/ UNCHANGED calls /\ UNCHANGED requestVars
  \/ \E t \in Texts :
       /\ calls' = [calls EXCEPT ![Meaning(t)] = @ + 1]
       /\ Promise!Ask(t) \/ UNCHANGED requestVars
  \/ UNCHANGED calls /\ (Promise!Sent \/ Promise!Message)

LEMMA RequestsStay ==
  ASSUME FrameHasWrite, UNCHANGED requestVars, UNCHANGED calls,
         ops'["write"] = ops["write"]
  PROVE  FrameHasWrite' /\ RequestStep
BY DEF FrameHasWrite, RequestStep, requestVars

LEMMA RunOrSubscribeRequest ==
  ASSUME SessionInv, FrameHasWrite, NEW t \in Texts, Run(t) \/ Subscribe(t)
  PROVE  FrameHasWrite' /\ RequestStep
<1>1. /\ calls' = [calls EXCEPT ![Meaning(t)] = @ + 1]
      /\ slot' = IF t \in Channels /\ subscriptions[t] > 0 THEN slot ELSE t
      /\ UNCHANGED <<writing, wire, subscriptions>>
  BY DEF Run, Subscribe, WriteSubscriptionRequest
<1>2. ops'["write"] = ops["write"]
  BY DEF Run, Subscribe, SessionInv, TypeOK, OpKinds, Steps
<1>3. t \in Channels => subscriptions[t] \in Nat
  BY DEF SessionInv, TypeOK
<1>4. CASE t \in Channels /\ subscriptions[t] > 0
  BY <1>1, <1>2, <1>4 DEF FrameHasWrite, RequestStep, requestVars
<1>5. CASE t \in Channels => subscriptions[t] = 0
  <2>1. Promise!Ask(t)
    BY <1>1, <1>5 DEF Promise!Ask
  <2> QED
    BY <1>1, <1>2, <2>1 DEF FrameHasWrite, RequestStep
<1> QED
  BY <1>3, <1>4, <1>5

\* The slot is written after the handshake, when nothing was sent before, or,
\* if it is not empty, after a message.
LEMMA WriteSlotSends ==
  ASSUME SessionInv, FrameHasWrite, NEW k \in {"handshake", "read"}, ops[k] > 0,
         slot # NoRequest \/ Unsent, WriteSlot(k)
  PROVE  FrameHasWrite' /\ writing = NoFrame /\ Promise!Send
<1> USE DEF SessionInv
<1>1. k \in Steps /\ "write" \in Steps /\ k # "write"
  BY DEF Steps
<1>2. writing = NoFrame
  <2>1. ops["write"] = 0
    BY <1>1 DEF OneStepAtATime, TypeOK, OpKinds
  <2> QED
    BY <2>1 DEF FrameHasWrite
<1>3. ops'["write"] = 1
  BY <1>1, ThenMoves DEF WriteSlot
<1>4. slot' = NoRequest /\ Meaning(slot) # Unreadable
  BY DEF WriteSlot
<1>5. CASE slot = NoRequest
  <2>1. writing' = NoRequest
    BY <1>5 DEF WriteSlot, Written, Meaning
  <2>2. Promise!Fresh
    BY <1>5 DEF Unsent, Promise!Fresh, Frames, Promise!Frames
  <2> QED
    BY <1>2, <1>3, <1>4, <1>5, <2>1, <2>2 DEF FrameHasWrite, Promise!Send
<1>6. CASE slot # NoRequest
  <2>1. writing' \in {Parse[slot], Garbled} /\ Parse[slot] # Unreadable
    BY <1>4, <1>6 DEF WriteSlot, Written, Meaning
  <2> QED
    BY <1>2, <1>3, <1>4, <1>6, <2>1 DEF FrameHasWrite, Promise!Send
<1> QED
  BY <1>5, <1>6

\* However the handler of a message ends.
LEMMA ProceedRequest ==
  ASSUME SessionInv, FrameHasWrite, Receiving, Proceed \/ CloseAndStop
  PROVE  /\ FrameHasWrite'
         /\ writing = NoFrame
         /\ Promise!Send \/ UNCHANGED <<slot, writing>>
<1> USE DEF SessionInv
<1>1. ops["read"] > 0 /\ "read" \in Steps /\ "write" \in Steps
  BY DEF Receiving, Steps
<1>2. writing = NoFrame
  <2>1. ops["write"] = 0
    BY <1>1 DEF OneStepAtATime, TypeOK, OpKinds
  <2> QED
    BY <2>1 DEF FrameHasWrite
<1>3. CASE SendNext
  BY <1>1, <1>3, WriteSlotSends DEF SendNext
<1>4. CASE ReadOn \/ Quit \/ SendUnreadable \/ CloseAndStop
  BY <1>2, <1>4 DEF ReadOn, Quit, SendUnreadable, CloseAndStop, Abandon, FrameHasWrite
<1> QED
  BY <1>3, <1>4 DEF Proceed

LEMMA StreamingRequest ==
  ASSUME SessionInv, FrameHasWrite, Streaming
  PROVE  FrameHasWrite' /\ RequestStep
<1> USE DEF SessionInv
<1>1. CASE OnWrite
  <2>1. writing # NoFrame /\ writing' = NoFrame
    BY <1>1 DEF OnWrite, WriteHasFrame
  <2>2. Promise!Sent
    BY <1>1, <2>1 DEF OnWrite, Promise!Sent
  <2> QED
    BY <1>1, <2>1, <2>2 DEF OnWrite, FrameHasWrite, RequestStep
<1>2. CASE OnReadError
  <2>1. ops'["write"] = ops["write"]
    BY <1>2 DEF OnReadError, Done, TypeOK, OpKinds, Steps
  <2> QED
    BY <1>2, <2>1, RequestsStay DEF OnReadError, requestVars
<1>3. ASSUME NEW r \in Channels, OnSubscribed(r)
      PROVE  FrameHasWrite' /\ RequestStep
  <2>1. Promise!Subscribe(r)
    BY <1>3 DEF OnSubscribed, Promise!Subscribe, Promise!Answer
  <2> QED
    BY <1>3, <2>1, ProceedRequest DEF OnSubscribed, RequestStep, Promise!Message
<1>4. ASSUME NEW r \in Channels, OnUnsubscribed(r)
      PROVE  FrameHasWrite' /\ RequestStep
  <2>1. Promise!Unsubscribe(r) \/ UNCHANGED <<wire, subscriptions>>
    BY <1>4 DEF OnUnsubscribed, Promise!Unsubscribe
  <2> QED
    BY <1>4, <2>1, ProceedRequest DEF OnUnsubscribed, RequestStep, Promise!Message
<1>5. ASSUME NEW f \in Frames, OnErrorEvent(f)
      PROVE  FrameHasWrite' /\ RequestStep
  <2>1. Promise!Refuse(f) /\ f \in Promise!Frames
    BY <1>5 DEF OnErrorEvent, Promise!Refuse, Promise!Answer, Frames, Promise!Frames
  <2> QED
    BY <1>5, <2>1, ProceedRequest DEF OnErrorEvent, CloseAndStop, RequestStep, Promise!Message
<1>6. CASE OnData
  BY <1>6, ProceedRequest DEF OnData, CloseAndStop, RequestStep, Promise!Message
<1>7. CASE OnMalformed
  BY <1>7, ProceedRequest DEF OnMalformed, RequestStep, Promise!Message
<1> QED
  BY <1>1, <1>2, <1>3, <1>4, <1>5, <1>6, <1>7 DEF Streaming, ServerSends

LEMMA NextRequest ==
  ASSUME SessionInv, FrameHasWrite, Next
  PROVE  FrameHasWrite' /\ RequestStep
<1> USE DEF SessionInv
<1>0. "write" \in OpKinds
  BY DEF OpKinds, Steps
<1>1. CASE Application
  <2>1. CASE Close
    <3>1. ops'["write"] = ops["write"]
      BY <1>0, <2>1 DEF Close, TypeOK
    <3> QED
      BY <2>1, <3>1, RequestsStay DEF Close, requestVars
  <2> QED
    BY <1>1, <2>1, RunOrSubscribeRequest DEF Application
<1>2. CASE OnHandshake /\ WriteSlot("handshake")
  <2>1. Unsent /\ ops["handshake"] > 0 /\ UNCHANGED <<wire, subscriptions, calls>>
    BY <1>2 DEF OnHandshake, OpeningHasRequest, OpeningSteps
  <2>2. FrameHasWrite' /\ writing = NoFrame /\ Promise!Send
    BY <1>2, <2>1, WriteSlotSends
  <2> QED
    BY <2>1, <2>2 DEF RequestStep, Promise!Message
<1>3. CASE Opening /\ ~(OnHandshake /\ WriteSlot("handshake"))
  <2>1. /\ UNCHANGED <<slot, writing, wire, subscriptions, calls>>
        /\ \/ \E k \in OpeningSteps : Done(k)
           \/ \E k \in OpeningSteps, l \in OpeningSteps : Then(k, l)
    BY <1>3
    DEF Opening, OnResolve, OnConnect, OnSSLHandshake, OnHandshake, GiveUp, OpeningSteps
  <2>2. ops'["write"] = ops["write"]
    BY <1>0, <2>1 DEF Done, Then, TypeOK, OpeningSteps
  <2> QED
    BY <2>1, <2>2, RequestsStay DEF requestVars
<1>4. CASE KeepAlive \/ OnClose \/ Disconnect
  <2>1. /\ UNCHANGED <<slot, writing, wire, subscriptions, calls>>
        /\ \/ UNCHANGED ops
           \/ \E k \in {"ping", "close"} : Done(k) \/ ops' = [ops EXCEPT ![k] = @ + 1]
    BY <1>4
    DEF KeepAlive, OnClose, Disconnect, TimerExpires, OnPingTimer,
        OnPingTimerCancelled, OnPing, OnPong
  <2>2. ops'["write"] = ops["write"]
    BY <1>0, <2>1 DEF Done, TypeOK
  <2> QED
    BY <2>1, <2>2, RequestsStay DEF requestVars
<1> QED
  BY <1>1, <1>2, <1>3, <1>4, StreamingRequest DEF Next

LEMMA FramesHaveWrites == Spec => [](SessionInv /\ FrameHasWrite)
<1>1. Init => FrameHasWrite
  BY DEF Init, FrameHasWrite
<1>2. SessionInv /\ FrameHasWrite /\ [Next]_vars => FrameHasWrite'
  BY NextRequest DEF vars, FrameHasWrite
<1> QED
  BY <1>1, <1>2, SessionInvariant, PTL DEF Spec

-----------------------------------------------------------------------------
(* The properties of the runs.                                             *)

\* The counters and the bag of subscriptions stay natural numbers: nothing is
\* erased that is not there.
THEOREM SessionTypeCorrect == Spec => []TypeOK
<1>1. SessionInv => TypeOK
  BY DEF SessionInv
<1> QED
  BY <1>1, SessionInvariant, PTL

\* Whatever messages, timers, calls and disconnections come in whatever order,
\* at most one connect, handshake, read or write is under way.
THEOREM OneStep == Spec => []OneStepAtATime
<1>1. SessionInv => OneStepAtATime
  BY DEF SessionInv
<1> QED
  BY <1>1, SessionInvariant, PTL

\* Only subscribe("") before the handshake leads to an empty frame, which then
\* is the first one.
THEOREM EmptyFramesAreFirst == Spec => []EmptyFrameIsFirst
<1>1. SessionInv => EmptyFrameIsFirst
  BY DEF SessionInv
<1> QED
  BY <1>1, SessionInvariant, PTL

\* With a log callback set, and as long as every request given can be read, an
\* open stream has a read or a write under way: it does not fall silent.
THEOREM OpenStreamsAreDriven == Spec => []OpenIsDriven
<1>1. SessionInv => OpenIsDriven
  BY DEF SessionInv
<1> QED
  BY <1>1, SessionInvariant, PTL

\* With a log callback, and unless the application closes the session early,
\* the keep-alive of an open stream never stops.
THEOREM OpenStreamsAreKeptAlive == Spec => []KeepAliveArmed
<1>1. SessionInv => KeepAliveArmed
  BY DEF SessionInv
<1> QED
  BY <1>1, SessionInvariant, PTL

\* The handlers of a session do with its requests what Subscriptions says: the
\* last request waits, is sent alone, once and as it was given, and what is
\* subscribed was confirmed.
THEOREM SessionImplementsSubscriptions == Spec => ImplementsSubscriptions
<1>1. Init => Promise!Init
  BY DEF Init, Promise!Init, Frames, Promise!Frames
<1>2. SessionInv /\ FrameHasWrite /\ [Next]_vars => [Promise!Next]_requestVars
  <2> SUFFICES ASSUME SessionInv, FrameHasWrite, [Next]_vars
               PROVE  [Promise!Next]_requestVars
    OBVIOUS
  <2>1. CASE UNCHANGED vars
    BY <2>1 DEF vars, requestVars
  <2>2. CASE Next
    BY <2>2, NextRequest DEF RequestStep, Promise!Next, Texts
  <2> QED
    BY <2>1, <2>2
<1> QED
  BY <1>1, <1>2, FramesHaveWrites, PTL
  DEF Spec, ImplementsSubscriptions, Promise!Spec, requestVars

\* No request is sent or subscribed more often than it was asked for, however
\* often it is asked for, overwritten, garbled, refused or unsubscribed.
THEOREM SessionSendsAsOftenAsAsked == Spec => []SentAsOftenAsAsked
<1>1. Init => SentAsOftenAsAsked
  <2> SUFFICES ASSUME Init, NEW r \in Channels
               PROVE  subscriptions[r] + wire[r] + (IF writing = r THEN 1 ELSE 0)
                        + (IF Meaning(slot) = r THEN 1 ELSE 0) <= calls[r]
    BY DEF SentAsOftenAsAsked
  <2>1. subscriptions[r] = 0 /\ wire[r] = 0 /\ calls[r] = 0
    BY DEF Init, Frames, Meanings
  <2>2. writing # r /\ Meaning(slot) # r
    BY SessionAssumption DEF Init, Meaning
  <2> QED
    BY <2>1, <2>2
<1>2. SessionInv /\ FrameHasWrite /\ SentAsOftenAsAsked /\ [Next]_vars
        => SentAsOftenAsAsked'
  <2> SUFFICES ASSUME SessionInv, FrameHasWrite, SentAsOftenAsAsked, [Next]_vars,
                      NEW r \in Channels
               PROVE  (subscriptions[r] + wire[r] + (IF writing = r THEN 1 ELSE 0)
                        + (IF Meaning(slot) = r THEN 1 ELSE 0) <= calls[r])'
    BY DEF SentAsOftenAsAsked
  <2>1. /\ subscriptions \in [Channels -> Nat] /\ wire \in [Frames -> Nat]
        /\ calls \in [Meanings -> Nat] /\ slot \in Texts
        /\ r \in Frames /\ r \in Meanings
        /\ r # NoRequest /\ r # Garbled /\ r # NoFrame /\ r # Unreadable
    BY SessionAssumption DEF SessionInv, TypeOK, Frames, Meanings
  <2>2. subscriptions[r] + wire[r] + (IF writing = r THEN 1 ELSE 0)
          + (IF Meaning(slot) = r THEN 1 ELSE 0) <= calls[r]
    BY DEF SentAsOftenAsAsked
  <2>3. CASE UNCHANGED requestVars /\ calls'[r] >= calls[r] /\ calls'[r] \in Nat
    BY <2>1, <2>2, <2>3 DEF requestVars
  <2>4. ASSUME NEW q \in Texts, calls' = [calls EXCEPT ![Meaning(q)] = @ + 1], Promise!Ask(q)
        PROVE  (subscriptions[r] + wire[r] + (IF writing = r THEN 1 ELSE 0)
                 + (IF Meaning(slot) = r THEN 1 ELSE 0) <= calls[r])'
    BY <2>1, <2>2, <2>4 DEF Promise!Ask
  <2>5. CASE Promise!Sent /\ UNCHANGED calls
    BY <2>1, <2>2, <2>5 DEF Promise!Sent
  <2>6. CASE Promise!Message /\ UNCHANGED calls
    <3>1. /\ (subscriptions[r] + wire[r])' <= subscriptions[r] + wire[r]
          /\ subscriptions'[r] \in Nat /\ wire'[r] \in Nat
      BY <2>1, <2>6
      DEF Promise!Message, Promise!Subscribe, Promise!Unsubscribe, Promise!Refuse,
          Promise!Answer, Frames, Promise!Frames
    <3>2. (IF writing = r THEN 1 ELSE 0)' + (IF Meaning(slot) = r THEN 1 ELSE 0)'
            <= (IF writing = r THEN 1 ELSE 0) + (IF Meaning(slot) = r THEN 1 ELSE 0)
      <4>1. CASE UNCHANGED <<slot, writing>>
        BY <4>1 DEF Meaning
      <4>2. CASE Promise!Send
        <5>1. slot' = NoRequest /\ Meaning(slot)' # r /\ writing # r
          BY <2>1, <4>2 DEF Promise!Send, Meaning
        <5>2. writing' = r => Meaning(slot) = r
          BY <2>1, <4>2 DEF Promise!Send, Meaning
        <5> QED
          BY <5>1, <5>2
      <4> QED
        BY <2>6, <4>1, <4>2 DEF Promise!Message
    <3> QED
      BY <2>1, <2>2, <2>6, <3>1, <3>2
  <2>7. CASE UNCHANGED vars
    BY <2>1, <2>3, <2>7 DEF vars, requestVars
  <2> QED
    BY <2>1, <2>3, <2>4, <2>5, <2>6, <2>7, NextRequest DEF RequestStep
<1> QED
  BY <1>1, <1>2, FramesHaveWrites, PTL DEF Spec
=============================================================================
