------------------------- MODULE RateLimiter_proofs -------------------------
(***************************************************************************)
(* Proofs about RateLimiter, for every set of threads, limit and window.   *)
(*                                                                         *)
(* The bound on the grants speaks of times that are long out of the deque, *)
(* so it is not inductive.  The invariant says where they are: the deque   *)
(* is the tail of the history, everything before it has left the window,   *)
(* and the owner of the mutex, once it has slept, has something to drop.   *)
(* A time is pushed only when the deque has room, hence the time Limit     *)
(* places before it is one that was dropped.                               *)
(***************************************************************************)
EXTENDS RateLimiter, TLAPS

Dropped == 1..Len(granted) - Len(requestTimes)

DequeIsTail ==
  /\ Len(requestTimes) <= Len(granted)
  /\ \A i \in 1..Len(requestTimes) :
       requestTimes[i] = granted[Len(granted) - Len(requestTimes) + i]

Owned == phase # "free"

GrantsInOrder ==
  /\ now <= clock
  /\ \A i \in 1..Len(granted) : granted[i] <= clock /\ (Owned => granted[i] <= now)
  /\ \A i, j \in 1..Len(granted) : i <= j => granted[i] <= granted[j]

DroppedExpired ==
  \A i \in Dropped : /\ granted[i] + Window < clock
                     /\ Owned => granted[i] + Window < now

SleepFreesOne ==
  /\ phase = "sleep" =>
       Len(requestTimes) = Limit /\ requestTimes[1] + Window < wake
  /\ phase = "purgeAgain" /\ Len(requestTimes) = Limit =>
       requestTimes[1] + Window < now

LimiterInv ==
  /\ TypeOK
  /\ DequeIsTail
  /\ GrantsInOrder
  /\ DroppedExpired
  /\ SleepFreesOne
  /\ DequeIsBounded
  /\ GrantsAreBounded

-----------------------------------------------------------------------------
LEMMA InitInv == Init => LimiterInv
BY LimiterAssumption
DEF Init, LimiterInv, TypeOK, DequeIsTail, GrantsInOrder, DroppedExpired, Dropped,
    Owned, SleepFreesOne, DequeIsBounded, GrantsAreBounded, RateBound

\* When wait() pushes there is room: either it was there, or the sleep made it.
LEMMA PushHasRoom ==
  ASSUME LimiterInv, Push
  PROVE  Len(requestTimes) < Limit
<1> USE LimiterAssumption DEF LimiterInv, TypeOK
<1>1. requestTimes # <<>> => now - requestTimes[1] <= Window
  BY DEF Push, Expired
<1>2. Len(requestTimes) = Limit => requestTimes # <<>>
  OBVIOUS
<1>3. CASE phase = "purge" /\ (Full => WaitTime <= 0)
  <2>1. Full => requestTimes # <<>> /\ WaitTime > 0
    BY <1>1 DEF Full, WaitTime
  <2> QED
    BY <1>3, <2>1 DEF Full, WaitTime
<1>4. CASE phase = "purgeAgain"
  BY <1>1, <1>2, <1>4 DEF SleepFreesOne, DequeIsBounded
<1> QED
  BY <1>3, <1>4 DEF Push

LEMMA GrantedAreNat ==
  ASSUME TypeOK, NEW i \in 1..Len(granted) PROVE granted[i] \in Nat
BY DEF TypeOK

\* The steps that leave both sequences alone.
LEMMA WaitingInv ==
  ASSUME LimiterInv,
         \/ Tick \/ Sleep \/ Wake
         \/ \E t \in Threads : Request(t) \/ Lock(t) \/ Send(t)
  PROVE  LimiterInv'
<1> USE LimiterAssumption DEF LimiterInv
<1>1. UNCHANGED <<requestTimes, granted>>
  BY DEF Tick, Sleep, Wake, Request, Lock, Send
<1>2. DequeIsTail' /\ DequeIsBounded' /\ GrantsAreBounded'
  BY <1>1 DEF DequeIsTail, DequeIsBounded, GrantsAreBounded, RateBound
<1>3. CASE Tick
  <2>1. TypeOK' /\ SleepFreesOne'
    BY <1>1, <1>3 DEF Tick, TypeOK, SleepFreesOne
  <2>2. GrantsInOrder'
    BY <1>1, <1>3 DEF Tick, TypeOK, GrantsInOrder, Owned
  <2>3. DroppedExpired'
    BY <1>1, <1>3, GrantedAreNat DEF Tick, TypeOK, DroppedExpired, Dropped, Owned
  <2> QED
    BY <1>2, <2>1, <2>2, <2>3
<1>4. CASE Sleep
  <2>1. requestTimes # <<>> /\ Len(requestTimes) = Limit
    BY <1>4 DEF Sleep, Full, TypeOK, DequeIsBounded
  <2>2. wake' \in Nat /\ requestTimes[1] + Window < wake'
    BY <1>4, <2>1 DEF Sleep, WaitTime, TypeOK, GrantsInOrder
  <2> QED
    BY <1>1, <1>2, <1>4, <2>1, <2>2
    DEF Sleep, TypeOK, GrantsInOrder, DroppedExpired, Dropped, Owned, SleepFreesOne
<1>5. CASE Wake
  <2>1. now' = clock /\ phase = "sleep" /\ phase' = "purgeAgain" /\ clock >= wake
    BY <1>5 DEF Wake, Sleeping, TypeOK
  <2>2. requestTimes[1] \in Nat /\ requestTimes[1] + Window < wake
    BY <2>1 DEF SleepFreesOne, TypeOK
  <2>3. TypeOK' /\ SleepFreesOne'
    BY <1>1, <1>5, <2>1, <2>2 DEF Wake, TypeOK, SleepFreesOne
  <2>4. GrantsInOrder' /\ DroppedExpired'
    BY <1>1, <1>5, <2>1
    DEF Wake, TypeOK, GrantsInOrder, DroppedExpired, Dropped, Owned
  <2> QED
    BY <1>2, <2>3, <2>4
<1>6. ASSUME NEW t \in Threads, Request(t) \/ Send(t) PROVE LimiterInv'
  <2>1. UNCHANGED <<clock, requestTimes, granted, holder, phase, now, wake>>
    BY <1>6 DEF Request, Send
  <2>2. call' \in [Threads -> {"idle", "wait", "inside", "send"}]
    BY <1>6 DEF Request, Send, TypeOK
  <2>3. TypeOK' /\ SleepFreesOne'
    BY <2>1, <2>2 DEF TypeOK, SleepFreesOne
  <2>4. GrantsInOrder' /\ DroppedExpired'
    BY <2>1 DEF GrantsInOrder, DroppedExpired, Dropped, Owned
  <2> QED
    BY <1>2, <2>3, <2>4
<1>7. ASSUME NEW t \in Threads, Lock(t) PROVE LimiterInv'
  <2>1. TypeOK' /\ SleepFreesOne'
    BY <1>1, <1>7 DEF Lock, TypeOK, SleepFreesOne
  <2>2. GrantsInOrder' /\ DroppedExpired'
    BY <1>1, <1>7
    DEF Lock, TypeOK, GrantsInOrder, DroppedExpired, Dropped, Owned
  <2> QED
    BY <1>2, <2>1, <2>2
<1> QED
  BY <1>3, <1>4, <1>5, <1>6, <1>7

\* What is dropped from the front joins what has left the window.
LEMMA PopInv == LimiterInv /\ Pop => LimiterInv'
<1> SUFFICES ASSUME LimiterInv, Pop PROVE LimiterInv'
  OBVIOUS
<1> USE LimiterAssumption DEF LimiterInv
<1> DEFINE q == Len(requestTimes)  n == Len(granted)
<1>1. /\ requestTimes # <<>> /\ requestTimes \in Seq(Nat) /\ granted \in Seq(Nat)
      /\ requestTimes' = Tail(requestTimes)
      /\ granted' = granted
      /\ q \in Nat /\ n \in Nat /\ q >= 1 /\ q <= n /\ q <= Limit
  BY DEF Pop, Expired, TypeOK, DequeIsTail, DequeIsBounded
<1>2. /\ requestTimes' \in Seq(Nat)
      /\ Len(requestTimes') = q - 1
      /\ \A i \in 1..q - 1 : requestTimes'[i] = requestTimes[i + 1]
  BY <1>1
<1>3. DequeIsTail'
  BY <1>1, <1>2 DEF DequeIsTail
<1>4. requestTimes[1] = granted[n - q + 1] /\ requestTimes[1] + Window < now
  BY <1>1 DEF DequeIsTail, Pop, Expired, TypeOK
<1>5. TypeOK'
  BY <1>2 DEF Pop, TypeOK
<1>6. GrantsInOrder' /\ SleepFreesOne' /\ DequeIsBounded' /\ GrantsAreBounded'
  <2>1. UNCHANGED <<clock, now, phase>> /\ phase # "sleep"
    BY DEF Pop
  <2>2. GrantsInOrder' /\ GrantsAreBounded'
    BY <1>1, <2>1 DEF GrantsInOrder, Owned, GrantsAreBounded, RateBound
  <2>3. Len(requestTimes') < Limit
    BY <1>1, <1>2
  <2>4. DequeIsBounded' /\ SleepFreesOne'
    BY <2>1, <2>3 DEF DequeIsBounded, SleepFreesOne
  <2> QED
    BY <2>2, <2>4
<1>7. DroppedExpired'
  <2>1. Dropped' = 1..n - q + 1 /\ Dropped = 1..n - q
    BY <1>1, <1>2 DEF Dropped
  <2>2. Owned /\ now <= clock /\ UNCHANGED <<now, clock>>
    BY DEF GrantsInOrder, Pop, Owned
  <2>3. now \in Nat /\ clock \in Nat /\ Window \in Nat
    BY DEF TypeOK
  <2>4. ASSUME NEW i \in 1..n - q + 1
        PROVE  granted[i] \in Nat /\ granted[i] + Window < now
    <3>1. granted[i] \in Nat
      BY <1>1
    <3>2. CASE i = n - q + 1
      BY <1>4, <3>1, <3>2
    <3>3. CASE i # n - q + 1
      <4>1. i \in Dropped
        <5>1. i \in 1..n - q + 1 /\ n \in Nat /\ q \in Nat /\ q <= n
          BY <1>1
        <5>2. i \in 1..n - q
          <6> HIDE DEF n, q, LimiterInv
          <6> QED
            BY <3>3, <5>1
        <5> QED
          BY <5>2 DEF Dropped
      <4> QED
        BY <2>2, <3>1, <4>1 DEF DroppedExpired
    <3> QED
      BY <3>2, <3>3
  <2>5. ASSUME NEW i \in Dropped'
        PROVE  granted[i] + Window < now /\ granted[i] + Window < clock
    BY <2>1, <2>2, <2>3, <2>4
  <2> QED
    BY <1>1, <2>2, <2>5 DEF DroppedExpired
<1> QED
  BY <1>3, <1>5, <1>6, <1>7

\* A time that is pushed is the last one, and the one Limit places before it
\* was dropped.
LEMMA PushInv == LimiterInv /\ Push => LimiterInv'
<1> SUFFICES ASSUME LimiterInv, Push PROVE LimiterInv'
  OBVIOUS
<1> USE LimiterAssumption DEF LimiterInv
<1> DEFINE q == Len(requestTimes)  n == Len(granted)
<1>1. /\ requestTimes \in Seq(Nat) /\ granted \in Seq(Nat)
      /\ requestTimes' = Append(requestTimes, now)
      /\ granted' = Append(granted, now)
      /\ now \in Nat /\ clock \in Nat /\ Window \in Nat
      /\ q \in Nat /\ n \in Nat /\ q <= n /\ q < Limit
  BY PushHasRoom DEF Push, TypeOK, DequeIsTail
<1>2. /\ requestTimes' \in Seq(Nat)
      /\ Len(requestTimes') = q + 1
      /\ \A i \in 1..q : requestTimes'[i] = requestTimes[i]
      /\ requestTimes'[q + 1] = now
  BY <1>1
<1>3. /\ granted' \in Seq(Nat)
      /\ Len(granted') = n + 1
      /\ \A i \in 1..n : granted'[i] = granted[i]
      /\ granted'[n + 1] = now
  BY <1>1
<1>4. UNCHANGED <<now, clock>> /\ phase' = "free" /\ Owned
  BY DEF Push, Owned
<1>5. TypeOK'
  BY <1>2, <1>3 DEF Push, TypeOK
<1>6. DequeIsTail' /\ DequeIsBounded' /\ SleepFreesOne'
  <2>1. DequeIsBounded' /\ SleepFreesOne'
    BY <1>1, <1>2, <1>4 DEF DequeIsBounded, SleepFreesOne
  <2>2. ASSUME NEW i \in 1..q + 1
        PROVE  requestTimes'[i] = granted'[n + 1 - (q + 1) + i]
    <3>1. CASE i = q + 1
      BY <1>1, <1>2, <1>3, <3>1
    <3>2. CASE i # q + 1
      BY <1>1, <1>2, <1>3, <3>2 DEF DequeIsTail
    <3> QED
      BY <3>1, <3>2
  <2>3. DequeIsTail'
    <3>1. Len(requestTimes') = q + 1 /\ Len(granted') = n + 1 /\ q + 1 <= n + 1
      BY <1>1, <1>2, <1>3
    <3>2. \A i \in 1..Len(requestTimes') :
            requestTimes'[i] = granted'[Len(granted') - Len(requestTimes') + i]
      BY <2>2, <3>1
    <3>3. Len(requestTimes') <= Len(granted')
      BY <3>1, <1>1
    <3> QED
      BY <3>2, <3>3 DEF DequeIsTail
  <2> QED
    BY <2>1, <2>3
<1>7. GrantsInOrder'
  BY <1>1, <1>3, <1>4 DEF GrantsInOrder, Owned
<1>8. DroppedExpired'
  BY <1>1, <1>2, <1>3, <1>4 DEF DroppedExpired, Dropped, Owned
<1>9. GrantsAreBounded'
  <2> SUFFICES ASSUME NEW i \in 1..n + 1 - Limit
               PROVE  granted'[i] + Window < granted'[i + Limit]
    BY <1>3 DEF GrantsAreBounded, RateBound
  <2>1. CASE i = n + 1 - Limit
    <3>1. i \in Dropped
      BY <1>1, <2>1 DEF Dropped
    <3>2. granted[i] + Window < now
      BY <1>4, <3>1 DEF DroppedExpired
    <3> QED
      BY <1>1, <1>3, <2>1, <3>2
  <2>2. CASE i # n + 1 - Limit
    <3>1. i \in 1..n - Limit /\ i \in 1..n /\ i + Limit \in 1..n
      <4>1. i \in 1..n + 1 - Limit /\ n \in Nat /\ Limit \in Nat \ {0}
        BY <1>1
      <4> HIDE DEF n, LimiterInv
      <4> QED
        BY <2>2, <4>1
    <3>2. granted[i] + Window < granted[i + Limit]
      BY <3>1 DEF GrantsAreBounded, RateBound
    <3> QED
      BY <1>3, <3>1, <3>2
  <2> QED
    BY <2>1, <2>2
<1> QED
  BY <1>5, <1>6, <1>7, <1>8, <1>9

LEMMA NextInv == LimiterInv /\ [Next]_vars => LimiterInv'
<1> SUFFICES ASSUME LimiterInv, [Next]_vars PROVE LimiterInv'
  OBVIOUS
<1>1. CASE UNCHANGED vars
  BY <1>1
  DEF vars, LimiterInv, TypeOK, DequeIsTail, GrantsInOrder, DroppedExpired,
      Dropped, Owned, SleepFreesOne, DequeIsBounded, GrantsAreBounded, RateBound
<1> QED
  BY <1>1, WaitingInv, PopInv, PushInv DEF Next

-----------------------------------------------------------------------------
(* The theorems.                                                           *)

\* The inductive invariant holds in every reachable state of the limiter.
THEOREM LimiterInvariant == Spec => []LimiterInv
<1>1. Init => LimiterInv
  BY InitInv
<1>2. LimiterInv /\ [Next]_vars => LimiterInv'
  BY NextInv
<1> QED
  BY <1>1, <1>2, PTL DEF Spec

\* Whatever the threads, the limit and the window: wait() grants at most Limit
\* requests in any window.
THEOREM RateIsBounded == Spec => []GrantsAreBounded
<1>1. LimiterInv => GrantsAreBounded
  BY DEF LimiterInv
<1> QED
  BY <1>1, LimiterInvariant, PTL

\* The deque of a limiter never holds more than Limit times.
THEOREM DequeStaysSmall == Spec => []DequeIsBounded
<1>1. LimiterInv => DequeIsBounded
  BY DEF LimiterInv
<1> QED
  BY <1>1, LimiterInvariant, PTL

\* Every push is a grant of the abstract rate limiter.
LEMMA PushGrants ==
  ASSUME LimiterInv, Push
  PROVE  now \in 0..clock /\ Promise!Grant(now)
<1> USE LimiterAssumption DEF LimiterInv
<1> DEFINE q == Len(requestTimes)  n == Len(granted)
<1>1. /\ now \in Nat /\ clock \in Nat /\ Window \in Nat /\ now <= clock
      /\ granted \in Seq(Nat)
      /\ n \in Nat /\ q \in Nat /\ q <= n /\ q < Limit
      /\ granted' = Append(granted, now) /\ clock' = clock
      /\ Owned
  BY PushHasRoom DEF Push, TypeOK, DequeIsTail, GrantsInOrder, Owned
<1>2. granted # <<>> => granted[n] <= now
  BY <1>1 DEF GrantsInOrder
<1>3. n >= Limit => granted[n + 1 - Limit] + Window < now
  <2> SUFFICES ASSUME n >= Limit PROVE granted[n + 1 - Limit] + Window < now
    OBVIOUS
  <2>1. n + 1 - Limit \in Dropped
    BY <1>1 DEF Dropped
  <2> QED
    BY <1>1, <2>1 DEF DroppedExpired
<1>4. now \in 0..clock
  BY <1>1
<1> QED
  BY <1>1, <1>2, <1>3, <1>4 DEF Promise!Grant

\* RateLimiter implements the abstract rate limiter: its steps are ticks of the
\* clock, grants, or steps that change neither.
THEOREM LimiterImplementsSlidingWindow == Spec => ImplementsSlidingWindow
<1>1. Init => Promise!Init
  BY DEF Init, Promise!Init
<1>2. LimiterInv /\ [Next]_vars => [Promise!Next]_<<clock, granted>>
  <2> SUFFICES ASSUME LimiterInv, [Next]_vars
               PROVE  [Promise!Next]_<<clock, granted>>
    OBVIOUS
  <2>1. CASE Tick
    BY <2>1 DEF Tick, Promise!Next, Promise!Tick
  <2>2. CASE Push
    BY <2>2, PushGrants DEF Promise!Next
  <2>3. CASE \/ Pop \/ Sleep \/ Wake \/ UNCHANGED vars
             \/ \E t \in Threads : Request(t) \/ Lock(t) \/ Send(t)
    BY <2>3 DEF Pop, Sleep, Wake, vars, Request, Lock, Send
  <2> QED
    BY <2>1, <2>2, <2>3 DEF Next
<1> QED
  BY <1>1, <1>2, LimiterInvariant, PTL DEF Spec, ImplementsSlidingWindow, Promise!Spec
=============================================================================
