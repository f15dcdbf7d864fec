---------------------------- MODULE Subscriptions ----------------------------
(***************************************************************************)
(* What a session promises about the subscription requests it is given:    *)
(* the last one waits, what it means is sent when nothing else is being    *)
(* sent, once (or garbled, when its buffer is freed too early), and what   *)
(* is subscribed is what the exchange has confirmed.  Only before anything *)
(* was sent may an empty frame be sent, for want of a request.             *)
(***************************************************************************)
EXTENDS Naturals

\* As in WebSocketSession.
CONSTANTS Requests, NoRequest, Channels, Parse, Unreadable, Garbled, NoFrame

VARIABLES
  waiting,      \* the request that waits to be sent
  sending,      \* the frame being sent, or NoFrame
  unanswered,   \* how often a frame is with the exchange, unanswered
  subscribed    \* how often a channel is subscribed

Frames == Channels \cup {NoRequest, Garbled}

Init ==
  /\ waiting = NoRequest /\ sending = NoFrame
  /\ unanswered = [f \in Frames |-> 0]
  /\ subscribed = [c \in Channels |-> 0]

\* What is subscribed, in the same words, is not asked for again; nothing, which
\* the empty text asks for, takes the place of what waits.
Ask(t) ==
  /\ t \in Channels => subscribed[t] = 0
  /\ waiting' = t
  /\ UNCHANGED <<sending, unanswered, subscribed>>

Fresh ==
  /\ \A f \in Frames : unanswered[f] = 0
  /\ \A c \in Channels : subscribed[c] = 0

Send ==
  /\ sending = NoFrame
  /\ \/ /\ waiting = NoRequest /\ Fresh
        /\ sending' = NoRequest
     \/ /\ waiting # NoRequest /\ Parse[waiting] # Unreadable
        /\ sending' \in {Parse[waiting], Garbled}
  /\ waiting' = NoRequest

\* The frame reaches the exchange, or is lost.
Sent ==
  /\ sending # NoFrame
  /\ sending' = NoFrame
  /\ \/ unanswered' = [unanswered EXCEPT ![sending] = @ + 1]
     \/ UNCHANGED unanswered
  /\ UNCHANGED <<waiting, subscribed>>

Answer(f) ==
  /\ unanswered[f] > 0
  /\ unanswered' = [unanswered EXCEPT ![f] = @ - 1]

Subscribe(c) ==
  /\ Answer(c)
  /\ subscribed' = [subscribed EXCEPT ![c] = @ + 1]

Refuse(f) == Answer(f) /\ UNCHANGED subscribed

Unsubscribe(c) ==
  /\ subscribed[c] > 0
  /\ subscribed' = [subscribed EXCEPT ![c] = @ - 1]
  /\ UNCHANGED unanswered

\* A message of the exchange is an occasion to send what waits, and is looked
\* at only while nothing is being sent.
Message ==
  /\ sending = NoFrame
  /\ \/ \E c \in Channels : Subscribe(c) \/ Unsubscribe(c)
     \/ \E f \in Frames : Refuse(f)
     \/ UNCHANGED <<unanswered, subscribed>>
  /\ Send \/ UNCHANGED <<waiting, sending>>

Next == (\E t \in Requests \cup {NoRequest} : Ask(t)) \/ Sent \/ Message

Spec == Init /\ [][Next]_<<waiting, sending, unanswered, subscribed>>
=============================================================================
