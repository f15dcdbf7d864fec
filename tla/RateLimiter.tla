----------------------------- MODULE RateLimiter -----------------------------
(***************************************************************************)
(* RateLimiter of src/src/okx_rest_client.cpp: the threads that share a    *)
(* RESTClient call wait() before a request.  wait() keeps the times of the *)
(* last requests, drops those that have left the window and sleeps, with   *)
(* the mutex locked, until there is room for one more.                     *)
(*                                                                         *)
(* Time passes between any two steps.  system_clock is taken not to jump.  *)
(***************************************************************************)
EXTENDS Integers, Sequences

CONSTANTS
  Threads, NoThread,
  Limit, Window,   \* m_limit and m_windowSizeMs
  Slack,           \* the 10 ms that are added to the time to sleep
  MaxCalls,        \* bound: requests
  MaxTime          \* bound: the clock, unless someone sleeps past it

ASSUME LimiterAssumption ==
  /\ NoThread \notin Threads
  /\ Limit \in Nat \ {0} /\ Window \in Nat /\ Slack \in Nat \ {0}
  /\ MaxCalls \in Nat /\ MaxTime \in Nat

VARIABLES
  clock,
  requestTimes,   \* m_requestTimes
  granted,        \* history: every time that was ever pushed
  holder,         \* the owner of m_mutex
  phase,          \* how far the owner is in wait()
  now, wake,      \* the owner's now, and the end of its sleep
  call            \* what each thread is doing

vars == <<clock, requestTimes, granted, holder, phase, now, wake, call>>

TypeOK ==
  /\ clock \in Nat
  /\ requestTimes \in Seq(Nat)
  /\ granted \in Seq(Nat)
  /\ holder \in Threads \cup {NoThread}
  /\ phase \in {"free", "purge", "sleep", "purgeAgain"}
  /\ now \in Nat /\ wake \in Nat
  /\ call \in [Threads -> {"idle", "wait", "inside", "send"}]

Init ==
  /\ clock = 0
  /\ requestTimes = <<>> /\ granted = <<>>
  /\ holder = NoThread /\ phase = "free"
  /\ now = 0 /\ wake = 0
  /\ call = [t \in Threads |-> "idle"]

-----------------------------------------------------------------------------
Sleeping == phase = "sleep" /\ clock < wake

Tick ==
  /\ clock < MaxTime \/ Sleeping
  /\ clock' = clock + 1
  /\ UNCHANGED <<requestTimes, granted, holder, phase, now, wake, call>>

Request(t) ==
  /\ call[t] = "idle"
  /\ Len(granted) < MaxCalls
  /\ call' = [call EXCEPT ![t] = "wait"]
  /\ UNCHANGED <<clock, requestTimes, granted, holder, phase, now, wake>>

Lock(t) ==
  /\ call[t] = "wait"
  /\ holder = NoThread
  /\ holder' = t
  /\ phase' = "purge"
  /\ now' = clock
  /\ call' = [call EXCEPT ![t] = "inside"]
  /\ UNCHANGED <<clock, requestTimes, granted, wake>>

\* Mutant: a time that is as old as the window is dropped.
MutExpiredEarly == requestTimes # <<>> /\ now - Head(requestTimes) >= Window

\* The oldest request has left the window.
Expired == requestTimes # <<>> /\ now - Head(requestTimes) > Window

Pop ==
  /\ phase \in {"purge", "purgeAgain"}
  /\ Expired
  /\ requestTimes' = Tail(requestTimes)
  /\ UNCHANGED <<clock, granted, holder, phase, now, wake, call>>

Full == Len(requestTimes) >= Limit

\* Mutant: the time to sleep is not rounded up.
MutWaitTimeExact == Head(requestTimes) + Window - now

\* How long until the oldest request has left the window.
WaitTime == Head(requestTimes) + Window - now + Slack

Sleep ==
  /\ phase = "purge"
  /\ ~Expired /\ Full
  /\ WaitTime > 0
  /\ wake' = clock + WaitTime
  /\ phase' = "sleep"
  /\ UNCHANGED <<clock, requestTimes, granted, holder, now, call>>

\* Mutant: now is not read again after the sleep.
MutWakeStale ==
  /\ phase = "sleep"
  /\ ~Sleeping
  /\ phase' = "purgeAgain"
  /\ UNCHANGED <<clock, requestTimes, granted, holder, now, wake, call>>

Wake ==
  /\ phase = "sleep"
  /\ ~Sleeping
  /\ now' = clock
  /\ phase' = "purgeAgain"
  /\ UNCHANGED <<clock, requestTimes, granted, holder, wake, call>>

\* Mutant: the mutex is not unlocked.
MutPushLocked ==
  /\ ~Expired
  /\ \/ phase = "purge" /\ (Full => WaitTime <= 0)
     \/ phase = "purgeAgain"
  /\ requestTimes' = Append(requestTimes, now)
  /\ granted' = Append(granted, now)
  /\ phase' = "free"
  /\ call' = [call EXCEPT ![holder] = "send"]
  /\ UNCHANGED <<clock, holder, now, wake>>

Push ==
  /\ ~Expired
  /\ \/ phase = "purge" /\ (Full => WaitTime <= 0)
     \/ phase = "purgeAgain"
  /\ requestTimes' = Append(requestTimes, now)
  /\ granted' = Append(granted, now)
  /\ holder' = NoThread
  /\ phase' = "free"
  /\ call' = [call EXCEPT ![holder] = "send"]
  /\ UNCHANGED <<clock, now, wake>>

\* The caller sends its request after wait() has returned.
Send(t) ==
  /\ call[t] = "send"
  /\ call' = [call EXCEPT ![t] = "idle"]
  /\ UNCHANGED <<clock, requestTimes, granted, holder, phase, now, wake>>

Next ==
  \/ Tick \/ Pop \/ Sleep \/ Wake \/ Push
  \/ \E t \in Threads : Request(t) \/ Lock(t) \/ Send(t)

Spec == Init /\ [][Next]_vars

\* Time goes on, a thread in wait() goes on, the mutex is handed over, and a
\* granted request is sent.  No thread need ask for one.
FairSpec ==
  /\ Spec
  /\ WF_vars(Tick)
  /\ WF_vars(Pop \/ Sleep \/ Wake \/ Push)
  /\ \A t \in Threads : WF_vars(Lock(t)) /\ WF_vars(Send(t))

-----------------------------------------------------------------------------
\* Of any Limit + 1 times in a row the last is more than Window after the
\* first: in a window there are at most Limit.
RateBound(times) ==
  \A i \in 1..Len(times) - Limit : times[i] + Window < times[i + Limit]

\* wait() grants at most Limit requests in any window, whichever threads call
\* it and however long it sleeps or waits for the mutex.
GrantsAreBounded == RateBound(granted)

\* The deque holds no more than Limit times, so it does not grow.
DequeIsBounded == Len(requestTimes) <= Limit

\* The promise of a rate limiter.
Promise == INSTANCE SlidingWindow
ImplementsSlidingWindow == Promise!Spec

\* Every call of wait() returns, although the others sleep with the mutex
\* locked: it is never left locked, and a sleep ends with room for the request.
EveryCallIsGranted ==
  \A t \in Threads : call[t] = "wait" ~> call[t] = "send"
=============================================================================
