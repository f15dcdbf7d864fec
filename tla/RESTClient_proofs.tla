-------------------------- MODULE RESTClient_proofs --------------------------
(***************************************************************************)
(* Proofs about RESTClient.  The invariant follows a request from the call *)
(* that wrote it: a call has one request at most, numbers tell calls       *)
(* apart, and an order is taken by handling that request.                  *)
(***************************************************************************)
EXTENDS RESTClient, TLAPS

\* The calls are numbered, and hold what their pc promises.
CallsOK == \A c \in Callers :
  /\ caller[c].number <= calls
  /\ caller[c].pc = "idle" <=> caller[c].number = 0
  /\ caller[c].call \in Calls
  /\ caller[c].pc \in {"idle", "test", "send"} => ~caller[c].wrote
  /\ caller[c].pc \in {"test", "store", "copy"} => Of(c, "instruments")
  /\ caller[c].answer.kind # "none" => caller[c].wrote

\* A request belongs to a call that has written it and has no answer.
RequestsOK == \A r \in inflight :
  /\ r.number \in 1..caller[r.caller].number
  /\ r.price \in Rounded(r.call.price) /\ r.call \in Calls
  /\ r.number = caller[r.caller].number =>
       /\ caller[r.caller].wrote /\ r.call = caller[r.caller].call
       /\ caller[r.caller].answer.kind = "none"
  /\ taken[r.caller][r.number] = 0
  /\ \A q \in inflight : q.caller = r.caller /\ q.number = r.number => q = r

\* How often the orders of the calls have been taken.
TakenOK == \A c \in Callers :
  /\ \A n \in 1..MaxCalls :
       /\ taken[c][n] <= 1
       /\ n > caller[c].number => taken[c][n] = 0
       /\ n = caller[c].number /\ ~caller[c].wrote => taken[c][n] = 0
  /\ /\ Of(c, "order")
     /\ caller[c].answer.kind = "ok" \/ caller[c].pc = "done"
     => taken[c][caller[c].number] = 1

IsFresh(c, list) == list.type = caller[c].call.type /\ list.version >= caller[c].floor

\* The list that a call was answered, stored or found is fresh.
FreshOK == \A c \in Callers : Of(c, "instruments") =>
  /\ caller[c].pc \in {"test", "send", "wait"} => caller[c].floor <= listed[caller[c].call.type]
  /\ caller[c].answer.kind = "ok" => IsFresh(c, caller[c].answer.list)
  /\ caller[c].pc = "store" => caller[c].answer.kind = "ok"
  /\ caller[c].call.force \/ caller[c].wrote =>
       /\ caller[c].pc = "copy" /\ ~caller[c].overtaken => IsFresh(c, instruments)
       /\ caller[c].pc = "done" /\ ~caller[c].overtaken => IsFresh(c, caller[c].got)

IInv == TypeOK /\ CallsOK /\ RequestsOK /\ TakenOK /\ FreshOK

-----------------------------------------------------------------------------
\* A rounded price is a number that is near.
LEMMA RoundedIsNear ==
  ASSUME NEW p \in Nat, p < 1000 * 1000, NEW q \in Rounded(p)
  PROVE  q \in Nat /\ 200 * q <= 201 * p /\ 200 * q >= 199 * p
<1> DEFINE u == Unit(p)
           b == p \div u
           rest == p % u
<1>1. u \in Units /\ p < 1000 * u /\ (u = 1 \/ p >= 100 * u)
  <2> SUFFICES \E v \in Units : p < 1000 * v /\ (v = 1 \/ p >= 100 * v)
    BY DEF Unit
  <2>1. CASE p < 1000
    BY <2>1 DEF Units
  <2>2. CASE p >= 1000 /\ p < 10 * 1000
    BY <2>2 DEF Units
  <2>3. CASE p >= 10 * 1000 /\ p < 100 * 1000
    BY <2>3 DEF Units
  <2>4. CASE p >= 100 * 1000
    BY <2>4 DEF Units
  <2> QED
    BY <2>1, <2>2, <2>3, <2>4
<1>2. \/ q = u * b /\ 2 * rest <= u
      \/ q = u * b + u /\ 2 * (u - rest) <= u
  BY DEF Rounded
<1> HIDE DEF u
<1>3. CASE u = 1
  BY <1>1, <1>2, <1>3
<1>4. CASE u = 10
  BY <1>1, <1>2, <1>4
<1>5. CASE u = 100
  BY <1>1, <1>2, <1>5
<1>6. CASE u = 1000
  BY <1>1, <1>2, <1>6
<1> QED
  BY <1>1, <1>3, <1>4, <1>5, <1>6 DEF Units

\* It is a multiple of its unit, no further from the price than half a unit.
LEMMA RoundedToUnits ==
  ASSUME NEW p \in Nat, p < 1000 * 1000, NEW q \in Rounded(p)
  PROVE  \E u \in Units, k \in Nat :
           /\ q = u * k /\ 2 * q <= 2 * p + u /\ 2 * p <= 2 * q + u
           /\ p < 1000 * u /\ (u = 1 \/ p >= 100 * u)
<1> DEFINE u == Unit(p)
           b == p \div u
           rest == p % u
<1>1. u \in Units /\ p < 1000 * u /\ (u = 1 \/ p >= 100 * u)
  <2> SUFFICES \E v \in Units : p < 1000 * v /\ (v = 1 \/ p >= 100 * v)
    BY DEF Unit
  <2> QED
    BY p < 1000 \/ (p >= 1000 /\ p < 10 * 1000) \/ (p >= 10 * 1000 /\ p < 100 * 1000)
         \/ p >= 100 * 1000
    DEF Units
<1>2. \/ q = u * b /\ 2 * rest <= u
      \/ q = u * b + u /\ 2 * (u - rest) <= u
  BY DEF Rounded
<1> HIDE DEF u
<1>3. SUFFICES \E k \in Nat : q = u * k /\ 2 * q <= 2 * p + u /\ 2 * p <= 2 * q + u
  BY <1>1
<1>4. b \in Nat /\ b + 1 \in Nat /\ rest \in Nat /\ p = u * b + rest /\ u \in Nat
      /\ u * (b + 1) = u * b + u /\ u * b \in Nat
  <2>1. CASE u = 1
    BY <2>1
  <2>2. CASE u = 10
    BY <2>2
  <2>3. CASE u = 100
    BY <2>3
  <2>4. CASE u = 1000
    BY <2>4
  <2> QED
    BY <1>1, <2>1, <2>2, <2>3, <2>4 DEF Units
<1> DEFINE ub == u * b
           ub1 == u * (b + 1)
<1> HIDE DEF b, rest
<1>5. CASE q = ub /\ 2 * rest <= u
  <2>1. 2 * q <= 2 * p + u /\ 2 * p <= 2 * q + u
    <3> HIDE DEF ub
    <3>1. p = ub + rest /\ ub \in Nat
      BY <1>4 DEF ub
    <3> QED
      BY <1>4, <1>5, <3>1
  <2> QED
    BY <1>4, <1>5, <2>1
<1>6. CASE q = ub + u /\ 2 * (u - rest) <= u
  <2>1. 2 * q <= 2 * p + u /\ 2 * p <= 2 * q + u
    <3> HIDE DEF ub
    <3>1. p = ub + rest /\ ub \in Nat
      BY <1>4 DEF ub
    <3>2. rest < u
      BY <1>1, <1>4 DEF rest, Units
    <3> QED
      BY <1>4, <1>6, <3>1, <3>2
  <2>2. q = u * (b + 1)
    BY <1>4, <1>6
  <2> QED
    BY <1>4, <2>1, <2>2
<1> QED
  BY <1>2, <1>5, <1>6

\* Of two prices the lower one is not rounded to more.
LEMMA RoundedKeepsOrder ==
  ASSUME NEW p \in Nat, NEW s \in Nat, p < s, s < 1000 * 1000,
         NEW q \in Rounded(p), NEW t \in Rounded(s)
  PROVE  q <= t
<1>1. PICK u \in Units, k \in Nat :
        /\ q = u * k /\ 2 * q <= 2 * p + u /\ p < 1000 * u /\ (u = 1 \/ p >= 100 * u)
  BY RoundedToUnits
<1>2. PICK v \in Units, m \in Nat :
        /\ t = v * m /\ 2 * s <= 2 * t + v /\ s < 1000 * v /\ (v = 1 \/ s >= 100 * v)
  BY RoundedToUnits
<1>3. CASE u = v
  <2>1. CASE u = 1
    BY <1>1, <1>2, <1>3, <2>1
  <2>2. CASE u = 10
    BY <1>1, <1>2, <1>3, <2>2
  <2>3. CASE u = 100
    BY <1>1, <1>2, <1>3, <2>3
  <2>4. CASE u = 1000
    BY <1>1, <1>2, <1>3, <2>4
  <2> QED
    BY <2>1, <2>2, <2>3, <2>4 DEF Units
<1>4. CASE u < v
  <2>1. CASE u = 1
    BY <1>1, <1>2, <1>4, <2>1 DEF Units
  <2>2. CASE u = 10
    BY <1>1, <1>2, <1>4, <2>2 DEF Units
  <2>3. CASE u = 100
    BY <1>1, <1>2, <1>4, <2>3 DEF Units
  <2> QED
    BY <1>4, <2>1, <2>2, <2>3 DEF Units
<1>5. ~(u > v)
  BY <1>1, <1>2 DEF Units
<1> QED
  BY <1>3, <1>4, <1>5 DEF Units

LEMMA RoundedZero ==
  ASSUME NEW p, p = 0
  PROVE  p \in Rounded(p)
<1>1. Unit(p) \in Units /\ p < 1000 * Unit(p) /\ (Unit(p) = 1 \/ p >= 100 * Unit(p))
  <2>1. \E u \in Units : p < 1000 * u /\ (u = 1 \/ p >= 100 * u)
    BY DEF Units
  <2> QED
    BY <2>1 DEF Unit
<1>2. Unit(p) = 1
  BY <1>1 DEF Units
<1> QED
  BY <1>2 DEF Rounded

LEMMA InitIInv == Init => IInv
<1> SUFFICES ASSUME Init PROVE IInv
  OBVIOUS
<1> USE DEF Init
<1>1. TypeOK
  <2>1. calls \in 0..MaxCalls /\ sessions \in Nat /\ listed \in [Types -> Nat]
        /\ inflight \subseteq Request /\ taken \in [Callers -> [1..MaxCalls -> Nat]]
    BY RESTAssumption
  <2>2. NoList \in List
    BY DEF NoList, List
  <2>3. NoAnswer \in Answer
    BY <2>2 DEF NoAnswer, Answer
  <2>4. [op |-> "read", type |-> "none", force |-> FALSE, price |-> 0] \in Call
    BY DEF Call, Operations
  <2>5. caller \in [Callers -> Caller]
    BY <2>2, <2>3, <2>4 DEF Caller
  <2> QED
    BY <2>1, <2>2, <2>5 DEF TypeOK
<1>i. \A c \in Callers :
        /\ caller[c].pc = "idle" /\ caller[c].number = 0 /\ ~caller[c].wrote
        /\ caller[c].answer.kind = "none" /\ caller[c].call.op = "read"
        /\ caller[c].call = [op |-> "read", type |-> "none", force |-> FALSE, price |-> 0]
  BY DEF NoAnswer
<1> HIDE DEF Init
<1>2. CallsOK
  <2>1. [op |-> "read", type |-> "none", force |-> FALSE, price |-> 0] \in Calls
    BY DEF Calls, Operations
  <2>2. ASSUME NEW c \in Callers
        PROVE  /\ caller[c].number <= calls
               /\ caller[c].call \in Calls
               /\ ~caller[c].wrote
    <3>1. calls = 0
      BY DEF Init
    <3> QED
      BY <2>1, <3>1, <1>i
  <2>3. ASSUME NEW c \in Callers
        PROVE  /\ caller[c].pc = "idle" <=> caller[c].number = 0
               /\ ~(caller[c].pc \in {"test", "store", "copy"})
    BY <1>i
  <2> QED
    BY <2>2, <2>3, <1>i DEF CallsOK
<1>3. RequestsOK
  BY DEF Init, RequestsOK
<1>4. TakenOK
  <2>1. \A c \in Callers : \A n \in 1..MaxCalls : taken[c][n] = 0
    BY DEF Init
  <2>2. \A c \in Callers : ~Of(c, "order")
    BY <1>i DEF Of
  <2>3. ASSUME NEW c \in Callers, NEW n \in 1..MaxCalls
        PROVE  taken[c][n] <= 1
    BY <2>1
  <2> QED
    BY <2>1, <2>2, <2>3 DEF TakenOK
<1>5. FreshOK
  BY <1>i DEF FreshOK, Of
<1> QED
  BY <1>1, <1>2, <1>3, <1>4, <1>5 DEF IInv

-----------------------------------------------------------------------------
(* The steps of the callers that touch neither the requests nor the orders.*)

LocalStep ==
  /\ UNCHANGED <<calls, inflight, taken>>
  /\ \A d \in Callers :
       /\ caller'[d].number = caller[d].number /\ caller'[d].call = caller[d].call
       /\ caller'[d].wrote = caller[d].wrote
       /\ caller'[d].answer \in {caller[d].answer, NoAnswer}
       /\ caller'[d].pc = "idle" <=> caller[d].pc = "idle"
       /\ caller'[d].pc \in {"test", "send"} => caller[d].pc \in {"test", "send"}
       /\ caller'[d].pc \in {"test", "store", "copy"} => Of(d, "instruments")
       /\ caller'[d].pc = "done" /\ Of(d, "order") =>
            caller[d].pc = "done" \/ caller[d].answer.kind = "ok"

LEMMA LocalKeeps ==
  ASSUME IInv, TypeOK', LocalStep
  PROVE  CallsOK' /\ RequestsOK' /\ TakenOK'
<1> USE DEF LocalStep, Of
<1>1. CallsOK'
  BY DEF IInv, CallsOK, NoAnswer
<1>2. RequestsOK'
  <2>1. \A r \in inflight : r.caller \in Callers
    BY DEF IInv, TypeOK, Request
  <2> QED
    BY <2>1 DEF IInv, RequestsOK, NoAnswer
<1>3. TakenOK'
  BY DEF IInv, TakenOK, NoAnswer
<1> QED
  BY <1>1, <1>2, <1>3

\* What a step of one caller changes.
LEMMA CallerStep ==
  ASSUME IInv, NEW c \in Callers, NEW record \in Caller, CallerOnly,
         caller' = [caller EXCEPT ![c] = record]
  PROVE  TypeOK' /\ caller'[c] = record /\ \A d \in Callers \ {c} : caller'[d] = caller[d]
  BY DEF IInv, TypeOK, CallerOnly

LEMMA EndsKeeps ==
  ASSUME IInv, NEW c \in Callers, NEW pc \in {"done", "thrown"}, Ends(c, pc),
         caller[c].pc \in {"send", "wait"}, ~Of(c, "instruments") \/ pc = "thrown",
         pc = "done" => caller[c].answer.kind = "ok"
  PROVE  IInv'
<1> DEFINE record == [caller[c] EXCEPT !.pc = pc, !.answer = NoAnswer]
<1>1. record \in Caller
  <2>1. caller[c] \in Caller /\ NoAnswer \in Answer
    BY DEF IInv, TypeOK, NoAnswer, Answer, NoList, List
  <2> QED
    BY <2>1 DEF Caller
<1>2. caller' = [caller EXCEPT ![c] = record] /\ CallerOnly
  BY DEF Ends, IInv, TypeOK, Caller
<1>3. TypeOK' /\ caller'[c] = record /\ \A d \in Callers \ {c} : caller'[d] = caller[d]
  BY <1>1, <1>2, CallerStep
<1>4. LocalStep
  BY <1>1, <1>2, <1>3 DEF LocalStep, CallerOnly, Caller, Of, IInv, CallsOK
<1>5. FreshOK'
  BY <1>1, <1>2, <1>3 DEF FreshOK, IsFresh, CallerOnly, Caller, Of, IInv, NoAnswer
<1> QED
  BY <1>3, <1>4, <1>5, LocalKeeps DEF IInv

LEMMA CachedKeeps ==
  ASSUME IInv, NEW c \in Callers, TestCache(c) \/ CopyInstruments(c)
  PROVE  IInv'
<1>t. caller[c] \in Caller /\ instruments \in List /\ NoAnswer \in Answer
  BY DEF IInv, TypeOK, NoAnswer, Answer, NoList, List
<1>1. CASE TestCache(c)
  <2> DEFINE record == [caller[c] EXCEPT !.pc =
        IF instruments.version = 0 \/ caller[c].call.force THEN "send" ELSE "copy"]
  <2>1. record \in Caller
    BY <1>t DEF Caller
  <2>2. caller' = [caller EXCEPT ![c] = record] /\ CallerOnly
    BY <1>1 DEF TestCache, Goto
  <2>3. TypeOK' /\ caller'[c] = record /\ \A d \in Callers \ {c} : caller'[d] = caller[d]
    BY <2>1, <2>2, CallerStep
  <2>4. caller[c].pc = "test" /\ ~caller[c].wrote
    BY <1>1 DEF TestCache, IInv, CallsOK
  <2>5. LocalStep
    BY <2>2, <2>3, <2>4, <1>t DEF LocalStep, CallerOnly, Caller, Of, IInv, CallsOK
  <2>6. FreshOK'
    BY <2>2, <2>3, <2>4, <1>t DEF FreshOK, IsFresh, CallerOnly, Caller, Of, IInv
  <2> QED
    BY <2>3, <2>5, <2>6, LocalKeeps DEF IInv
<1>2. CASE CopyInstruments(c)
  <2> DEFINE record == [caller[c] EXCEPT !.pc = "done", !.got = instruments, !.answer = NoAnswer]
  <2>1. record \in Caller
    BY <1>t DEF Caller
  <2>2. caller' = [caller EXCEPT ![c] = record] /\ CallerOnly
    BY <1>2, <1>t DEF CopyInstruments, Caller
  <2>3. TypeOK' /\ caller'[c] = record /\ \A d \in Callers \ {c} : caller'[d] = caller[d]
    BY <2>1, <2>2, CallerStep
  <2>4. caller[c].pc = "copy" /\ caller[c].call.op = "instruments"
    BY <1>2 DEF CopyInstruments, IInv, CallsOK, Of
  <2>5. LocalStep
    BY <2>2, <2>3, <2>4, <1>t DEF LocalStep, CallerOnly, Caller, Of, IInv, CallsOK
  <2>6. FreshOK'
    BY <2>2, <2>3, <2>4, <1>t DEF FreshOK, IsFresh, CallerOnly, Caller, Of, IInv, NoAnswer
  <2> QED
    BY <2>3, <2>5, <2>6, LocalKeeps DEF IInv
<1> QED
  BY <1>1, <1>2

\* All but the field that is changed is kept.
SameCall(new, old) ==
  /\ new.number = old.number /\ new.call = old.call /\ new.answer = old.answer
  /\ new.got = old.got /\ new.floor = old.floor
  /\ new.wrote = old.wrote

LEMMA OvertakenIs ==
  ASSUME NEW d \in Callers, caller[d] \in Caller
  PROVE  /\ Overtaken(d) \in Caller /\ SameCall(Overtaken(d), caller[d])
         /\ Overtaken(d).pc = caller[d].pc
         /\ caller[d].overtaken \/ caller[d].pc = "copy" => Overtaken(d).overtaken
  BY DEF Overtaken, Caller, SameCall

LEMMA PcIs ==
  ASSUME NEW old \in Caller, NEW pc \in {"send", "wait", "store", "copy", "dangling"},
         NEW new, new = [old EXCEPT !.pc = pc]
  PROVE  /\ new \in Caller /\ SameCall(new, old)
         /\ new.pc = pc /\ new.overtaken = old.overtaken
  BY DEF Caller, SameCall

LEMMA StoreKeeps ==
  ASSUME IInv, NEW c \in Callers, StoreInstruments(c)
  PROVE  IInv'
<1>t. \A d \in Callers : caller[d] \in Caller
  BY DEF IInv, TypeOK
<1>1. caller[c].pc = "store" /\ caller[c].call.op = "instruments"
      /\ IsFresh(c, caller[c].answer.list) /\ caller[c].answer.list \in List
  BY <1>t DEF StoreInstruments, IInv, CallsOK, FreshOK, Of, Caller, Answer
<1>2. instruments' = caller[c].answer.list
      /\ UNCHANGED <<calls, sessions, listed, inflight, taken>>
  BY DEF StoreInstruments, StoredList
<1>3. /\ caller'[c] \in Caller /\ SameCall(caller'[c], caller[c]) /\ caller'[c].pc = "copy"
      /\ \A d \in Callers \ {c} :
           /\ caller'[d] \in Caller /\ SameCall(caller'[d], caller[d])
           /\ caller'[d].pc = caller[d].pc
           /\ caller[d].overtaken \/ caller[d].pc = "copy" => caller'[d].overtaken
  <2>1. /\ caller'[c] = [caller[c] EXCEPT !.pc = "copy"]
        /\ \A d \in Callers \ {c} : caller'[d] = Overtaken(d)
    BY DEF StoreInstruments
  <2>2. caller'[c] \in Caller /\ SameCall(caller'[c], caller[c]) /\ caller'[c].pc = "copy"
    BY <1>t, <2>1, PcIs
  <2> QED
    BY <1>t, <2>1, <2>2, OvertakenIs
<1>4. TypeOK'
  <2>1. caller' \in [Callers -> Caller]
    BY <1>3 DEF StoreInstruments
  <2> QED
    BY <1>1, <1>2, <2>1 DEF TypeOK, IInv
<1>5. LocalStep
  BY <1>1, <1>2, <1>3 DEF LocalStep, SameCall, Of, IInv, CallsOK
<1>6. FreshOK'
  BY <1>1, <1>2, <1>3 DEF IInv, FreshOK, IsFresh, Of, SameCall
<1> QED
  BY <1>4, <1>5, <1>6, LocalKeeps DEF IInv

LEMMA SetKeeps ==
  ASSUME IInv, NEW v \in 0..MaxVersion, SetInstruments(v)
  PROVE  IInv'
<1>t. \A d \in Callers : caller[d] \in Caller
  BY DEF IInv, TypeOK
<1>2. instruments' \in List /\ UNCHANGED <<calls, sessions, listed, inflight, taken>>
  BY RESTAssumption DEF SetInstruments, StoredList, List
<1>3. \A d \in Callers :
        /\ caller'[d] \in Caller /\ SameCall(caller'[d], caller[d])
        /\ caller'[d].pc = caller[d].pc
        /\ caller[d].overtaken \/ caller[d].pc = "copy" => caller'[d].overtaken
  <2>1. \A d \in Callers : caller'[d] = Overtaken(d)
    BY DEF SetInstruments
  <2> QED
    BY <1>t, <2>1, OvertakenIs
<1>4. TypeOK'
  <2>1. caller' \in [Callers -> Caller]
    BY <1>3 DEF SetInstruments
  <2> QED
    BY <1>2, <2>1 DEF TypeOK, IInv
<1>5. LocalStep
  BY <1>2, <1>3 DEF LocalStep, SameCall, Of, IInv, CallsOK
<1>6. FreshOK'
  BY <1>2, <1>3 DEF IInv, FreshOK, IsFresh, Of, SameCall
<1> QED
  BY <1>4, <1>5, <1>6, LocalKeeps DEF IInv

LEMMA CredentialsKeep ==
  ASSUME IInv, SetCredentials
  PROVE  IInv'
<1>t. \A d \in Callers : caller[d] \in Caller
  BY DEF IInv, TypeOK
<1>1. sessions' = sessions + 1 /\ UNCHANGED <<calls, instruments, listed, inflight, taken>>
  BY DEF SetCredentials
<1>2. \A d \in Callers :
        /\ caller'[d] \in Caller /\ SameCall(caller'[d], caller[d])
        /\ \/ caller'[d].pc = caller[d].pc
           \/ (caller'[d].pc = "dangling" /\ caller[d].pc # "idle")
        /\ caller'[d].overtaken = caller[d].overtaken
  <2>1. \A d \in Callers :
           \/ caller'[d] = caller[d]
           \/ (caller[d].pc \in {"send", "wait"} /\ caller'[d] = [caller[d] EXCEPT !.pc = "dangling"])
    BY DEF SetCredentials
  <2> SUFFICES ASSUME NEW d \in Callers, caller'[d] # caller[d]
               PROVE  /\ caller'[d] \in Caller /\ SameCall(caller'[d], caller[d])
                      /\ caller'[d].pc = "dangling" /\ caller[d].pc # "idle"
                      /\ caller'[d].overtaken = caller[d].overtaken
    BY <1>t DEF SameCall
  <2>2. caller[d].pc \in {"send", "wait"} /\ caller'[d] = [caller[d] EXCEPT !.pc = "dangling"]
    BY <2>1
  <2> QED
    BY <1>t, <2>2, PcIs
<1>3. TypeOK'
  <2>1. caller' \in [Callers -> Caller]
    BY <1>2 DEF SetCredentials
  <2> QED
    BY <1>1, <2>1 DEF TypeOK, IInv
<1>4. LocalStep
  BY <1>1, <1>2 DEF LocalStep, SameCall, Of, IInv, CallsOK
<1>5. FreshOK'
  BY <1>1, <1>2 DEF IInv, FreshOK, IsFresh, Of, SameCall
<1> QED
  BY <1>3, <1>4, <1>5, LocalKeeps DEF IInv

LEMMA TakeInstrumentsKeeps ==
  ASSUME IInv, NEW c \in Callers, TakeInstruments(c)
  PROVE  IInv'
<1>t. caller[c] \in Caller
  BY DEF IInv, TypeOK
<1>1. /\ caller[c].pc = "wait" /\ caller[c].answer.kind = "ok" /\ caller[c].call.op = "instruments"
      /\ caller' = [caller EXCEPT ![c] = [caller[c] EXCEPT !.pc = "store"]] /\ CallerOnly
  BY <1>t DEF TakeInstruments, Success, Goto
<1>2. [caller[c] EXCEPT !.pc = "store"] \in Caller
  BY <1>t, PcIs
<1>3. TypeOK' /\ caller'[c] = [caller[c] EXCEPT !.pc = "store"]
      /\ \A d \in Callers \ {c} : caller'[d] = caller[d]
  BY <1>1, <1>2, CallerStep
<1>4. LocalStep
  BY <1>1, <1>3, <1>t DEF LocalStep, CallerOnly, Caller, Of, IInv, CallsOK
<1>5. FreshOK'
  BY <1>1, <1>3, <1>t DEF FreshOK, IsFresh, CallerOnly, Caller, Of, IInv
<1> QED
  BY <1>3, <1>4, <1>5, LocalKeeps DEF IInv

LEMMA ListChangesKeeps ==
  ASSUME IInv, NEW t \in Types, ListChanges(t)
  PROVE  IInv'
<1>1. UNCHANGED <<calls, instruments, sessions, inflight, taken, caller>>
      /\ listed' \in [Types -> Nat] /\ \A u \in Types : listed'[u] >= listed[u]
  BY DEF ListChanges, IInv, TypeOK
<1>2. TypeOK'
  BY <1>1 DEF IInv, TypeOK
<1>3. LocalStep
  BY <1>1 DEF LocalStep, IInv, CallsOK
<1>4. FreshOK'
  <2>1. ASSUME NEW c \in Callers, Of(c, "instruments")
        PROVE  caller[c].call.type \in Types
    BY <2>1 DEF IInv, CallsOK, Calls, Of
  <2>2. \A c \in Callers : caller[c].floor \in Nat
    BY DEF IInv, TypeOK, Caller
  <2>3. \A u \in Types : listed[u] \in Nat /\ listed'[u] \in Nat
    BY <1>1 DEF IInv, TypeOK
  <2> QED
    BY <1>1, <2>1, <2>2, <2>3 DEF FreshOK, IsFresh, Of, IInv
<1> QED
  BY <1>2, <1>3, <1>4, LocalKeeps DEF IInv

-----------------------------------------------------------------------------
(* The steps that begin, write and handle.                                 *)

LEMMA CallPrice ==
  ASSUME NEW call \in Calls
  PROVE  call \in Call /\ call.price \in Nat /\ call.price < 1000 * 1000
<1>1. call.price = 0 \/ call.price \in Prices
  BY DEF Calls
<1>2. CASE call.price = 0
  BY <1>2 DEF Calls, Call
<1>3. CASE call.price \in Prices
  <2>1. call.price \in Nat /\ call.price < 1000 * 1000
    BY <1>3, RESTAssumption
  <2> QED
    BY <2>1 DEF Calls, Call
<1> QED
  BY <1>1, <1>2, <1>3

LEMMA StartKeeps ==
  ASSUME IInv, NEW c \in Callers, NEW call \in Calls, StartCall(c, call)
  PROVE  IInv'
<1> DEFINE record ==
      [pc |-> IF call.op = "instruments" THEN "test" ELSE "send",
       number |-> caller[c].number + 1, call |-> call,
       answer |-> NoAnswer, got |-> NoList, wrote |-> FALSE, overtaken |-> FALSE,
       floor |-> Listed(call.type)]
<1>t. /\ \A d \in Callers : caller[d] \in Caller
      /\ calls \in 0..MaxCalls /\ MaxCalls \in Nat
      /\ caller[c].number \in Nat /\ caller[c].number <= calls
  BY RESTAssumption DEF IInv, TypeOK, CallsOK, Caller
<1>1. /\ caller' = [caller EXCEPT ![c] = record] /\ calls' = calls + 1 /\ calls < MaxCalls
      /\ UNCHANGED <<instruments, sessions, listed, inflight, taken>>
  BY DEF StartCall
<1>2. record \in Caller
  <2>1. NoList \in List /\ NoAnswer \in Answer
    BY DEF NoAnswer, Answer, NoList, List
  <2>2. call \in Call
    BY CallPrice
  <2>3. Listed(call.type) \in Nat
    BY DEF Listed, IInv, TypeOK
  <2> QED
    BY <2>1, <2>2, <2>3, <1>t DEF Caller
<1>3. caller'[c] = record /\ \A d \in Callers \ {c} : caller'[d] = caller[d]
  BY <1>1 DEF IInv, TypeOK
<1>p. /\ caller'[c].pc \in {"test", "send"} /\ caller'[c].number = caller[c].number + 1
      /\ caller'[c].call = call /\ caller'[c].answer.kind = "none" /\ ~caller'[c].wrote
      /\ caller'[c].floor = Listed(call.type)
      /\ caller'[c].pc = "test" => call.op = "instruments"
  BY <1>3 DEF NoAnswer
<1> HIDE DEF record
<1>4. TypeOK'
  BY <1>1, <1>2, <1>t DEF IInv, TypeOK
<1>5. CallsOK'
  <2>1. \A d \in Callers : caller[d].number \in Nat
    BY <1>t DEF Caller
  <2> QED
    BY <1>1, <1>3, <1>p, <1>t, <2>1 DEF IInv, CallsOK, Of
<1>6. RequestsOK'
  <2>1. \A r \in inflight : r.caller \in Callers /\ r.number \in Nat
    BY DEF IInv, TypeOK, Request
  <2> QED
    BY <1>1, <1>3, <1>p, <1>t, <2>1 DEF IInv, RequestsOK
<1>7. TakenOK'
  <2>1. \A n \in 1..MaxCalls : taken[c][n] <= 1 /\ (n > caller[c].number => taken[c][n] = 0)
    BY DEF IInv, TakenOK
  <2> QED
    BY <1>1, <1>3, <1>p, <1>t, <2>1 DEF IInv, TakenOK, Of
<1>8. FreshOK'
  <2>1. call.op = "instruments" => call.type \in Types
    BY DEF Calls
  <2>2. call.op = "instruments" => Listed(call.type) = listed[call.type] /\ listed[call.type] \in Nat
    BY <2>1 DEF Listed, IInv, TypeOK
  <2> QED
    BY <1>1, <1>3, <1>p, <2>2 DEF IInv, FreshOK, IsFresh, Of
<1> QED
  BY <1>4, <1>5, <1>6, <1>7, <1>8 DEF IInv

LEMMA WriteKeeps ==
  ASSUME IInv, NEW c \in Callers, Write(c)
  PROVE  IInv'
<1>t. /\ \A d \in Callers : caller[d] \in Caller
      /\ caller[c].number \in Nat /\ caller[c].call \in Calls /\ caller[c].call \in Call
      /\ caller[c].pc = "send" /\ ~caller[c].wrote
  BY DEF Write, IInv, TypeOK, CallsOK, Caller
<1>1. PICK r \in RequestsOf(c) : inflight' = inflight \cup {r}
  BY DEF Write
<1>2. /\ r.caller = c /\ r.number = caller[c].number /\ r.call = caller[c].call
      /\ r.price \in Rounded(r.call.price) /\ r \in Request
  <2>1. PICK p \in IF caller[c].call.op = "order" THEN Rounded(caller[c].call.price) ELSE {0} :
          r = [caller |-> c, number |-> caller[c].number, call |-> caller[c].call, price |-> p]
    BY DEF RequestsOf
  <2>2. caller[c].call.op # "order" => caller[c].call.price = 0
    BY <1>t DEF Calls
  <2>3. p \in Rounded(caller[c].call.price)
    <3>1. CASE caller[c].call.op = "order"
      BY <2>1, <3>1
    <3>2. CASE caller[c].call.op # "order"
      <4>1. p = 0
        BY <2>1, <3>2
      <4>2. p \in Rounded(p)
        BY <4>1, RoundedZero
      <4> QED
        BY <2>2, <3>2, <4>1, <4>2
    <3> QED
      BY <3>1, <3>2
  <2>4. p \in Nat
    BY <1>t, <2>3, CallPrice, RoundedIsNear
  <2> QED
    BY <1>t, <2>1, <2>3, <2>4 DEF Request
<1>3. /\ UNCHANGED <<calls, instruments, sessions, listed, taken>>
      /\ caller' = [caller EXCEPT ![c] = [caller[c] EXCEPT !.pc = "wait", !.wrote = TRUE]]
  BY <1>t DEF Write, Caller
<1>4. /\ caller'[c] \in Caller /\ caller'[c].pc = "wait" /\ caller'[c].wrote
      /\ caller'[c].number = caller[c].number /\ caller'[c].call = caller[c].call
      /\ caller'[c].answer = caller[c].answer /\ caller'[c].floor = caller[c].floor
      /\ \A d \in Callers \ {c} : caller'[d] = caller[d]
  <2>1. caller'[c] = [caller[c] EXCEPT !.pc = "wait", !.wrote = TRUE]
        /\ \A d \in Callers \ {c} : caller'[d] = caller[d]
    BY <1>3 DEF IInv, TypeOK
  <2> QED
    BY <1>t, <2>1 DEF Caller
<1>5. TypeOK'
  BY <1>1, <1>2, <1>3, <1>4 DEF IInv, TypeOK
<1>6. CallsOK'
  BY <1>3, <1>4, <1>t DEF IInv, CallsOK, Of
<1>n. caller[c].number \in 1..MaxCalls /\ caller[c].number >= 1 /\ caller[c].answer.kind = "none"
      /\ taken[c][caller[c].number] = 0
  <2>1. caller[c].number # 0 /\ caller[c].number <= calls /\ caller[c].answer.kind = "none"
    BY <1>t DEF IInv, CallsOK
  <2>2. caller[c].number \in 1..MaxCalls
    BY <1>t, <2>1, RESTAssumption DEF IInv, TypeOK
  <2> QED
    BY <1>t, <2>1, <2>2 DEF IInv, TakenOK
<1>7. RequestsOK'
  <2>1. \A q \in inflight : ~(q.caller = c /\ q.number = caller[c].number)
    BY <1>t DEF IInv, RequestsOK
  <2>2. \A q \in inflight : q.caller \in Callers
    BY DEF IInv, TypeOK, Request
  <2>3. ASSUME NEW q \in inflight
        PROVE  /\ q.number \in 1..caller'[q.caller].number
               /\ q.price \in Rounded(q.call.price) /\ q.call \in Calls
               /\ q.number = caller'[q.caller].number =>
                    /\ caller'[q.caller].wrote /\ q.call = caller'[q.caller].call
                    /\ caller'[q.caller].answer.kind = "none"
               /\ taken'[q.caller][q.number] = 0
    BY <1>3, <1>4, <2>1, <2>2 DEF IInv, RequestsOK
  <2>4. ASSUME NEW q \in inflight', NEW p \in inflight', p.caller = q.caller, p.number = q.number
        PROVE  p = q
    BY <1>1, <1>2, <2>1, <2>4 DEF IInv, RequestsOK
  <2>5. /\ r.number \in 1..caller'[r.caller].number
        /\ r.call \in Calls /\ taken'[r.caller][r.number] = 0
        /\ caller'[r.caller].wrote /\ r.call = caller'[r.caller].call
        /\ caller'[r.caller].answer.kind = "none"
    BY <1>2, <1>3, <1>4, <1>n, <1>t
  <2> QED
    BY <1>1, <1>2, <2>3, <2>4, <2>5 DEF RequestsOK
<1>8. TakenOK'
  BY <1>3, <1>4, <1>n DEF IInv, TakenOK, Of
<1>9. FreshOK'
  BY <1>3, <1>4, <1>t DEF IInv, FreshOK, IsFresh, Of
<1> QED
  BY <1>5, <1>6, <1>7, <1>8, <1>9 DEF IInv

LEMMA HandleKeeps ==
  ASSUME IInv, NEW r \in inflight, NEW kind \in {"ok", "error"}, Handle(r, kind)
  PROVE  IInv'
<1> DEFINE c == r.caller
           n == r.number
           answer == [kind |-> kind, list |-> [type |-> r.call.type, version |-> Listed(r.call.type)]]
<1>t. /\ c \in Callers /\ n \in Nat /\ \A d \in Callers : caller[d] \in Caller
      /\ \A q \in inflight : q.caller \in Callers
  BY DEF IInv, TypeOK, Request
<1>r. /\ n \in 1..caller[c].number /\ taken[c][n] = 0 /\ r.call \in Calls
      /\ n = caller[c].number => /\ caller[c].wrote /\ r.call = caller[c].call
                                 /\ caller[c].answer.kind = "none"
      /\ \A q \in inflight : q.caller = c /\ q.number = n => q = r
  BY DEF IInv, RequestsOK
<1>n. n \in 1..MaxCalls /\ caller[c].number \in Nat
  BY <1>t, <1>r, RESTAssumption DEF IInv, TypeOK, CallsOK, Caller
<1>1. /\ UNCHANGED <<calls, instruments, sessions, listed>> /\ inflight' = inflight \ {r}
      /\ caller' = IF caller[c].number = n /\ caller[c].pc = "wait"
           THEN [caller EXCEPT ![c] = [caller[c] EXCEPT !.answer = answer]] ELSE caller
  BY <1>t DEF Handle
<1>2. PICK m \in Takes(r, kind) : taken' = [taken EXCEPT ![c][n] = @ + m]
  BY DEF Handle
<1>3. m \in {0, 1} /\ (r.call.op = "order" /\ kind = "ok" => m = 1)
  BY <1>2 DEF Takes
<1>4. /\ taken' \in [Callers -> [1..MaxCalls -> Nat]]
      /\ taken'[c][n] = m
      /\ \A d \in Callers, k \in 1..MaxCalls : (d # c \/ k # n) => taken'[d][k] = taken[d][k]
  <2>1. taken \in [Callers -> [1..MaxCalls -> Nat]]
    BY DEF IInv, TypeOK
  <2> QED
    <3>1. taken' = [taken EXCEPT ![c] = [taken[c] EXCEPT ![n] = m]]
      BY <1>2, <1>3, <1>n, <1>t, <1>r, <2>1
    <3>2. [taken[c] EXCEPT ![n] = m] \in [1..MaxCalls -> Nat]
      <4>1. taken[c] \in [1..MaxCalls -> Nat] /\ m \in Nat
        BY <1>3, <1>t, <2>1
      <4> QED
        BY <4>1
    <3>3. taken' \in [Callers -> [1..MaxCalls -> Nat]] /\ taken'[c] = [taken[c] EXCEPT ![n] = m]
          /\ \A d \in Callers : d # c => taken'[d] = taken[d]
      BY <1>t, <2>1, <3>1, <3>2
    <3>4. /\ taken'[c][n] = m
          /\ \A k \in 1..MaxCalls : k # n => taken'[c][k] = taken[c][k]
      BY <1>t, <1>n, <2>1, <3>3
    <3> QED
      BY <1>t, <3>3, <3>4
<1> DEFINE hears == caller[c].number = n /\ caller[c].pc = "wait"
<1>5. /\ \A d \in Callers : /\ caller'[d] \in Caller /\ caller'[d].pc = caller[d].pc
                             /\ caller'[d].number = caller[d].number
                             /\ caller'[d].call = caller[d].call /\ caller'[d].wrote = caller[d].wrote
                             /\ caller'[d].got = caller[d].got /\ caller'[d].floor = caller[d].floor
                             /\ caller'[d].overtaken = caller[d].overtaken
      /\ \A d \in Callers : d # c => caller'[d] = caller[d]
      /\ hears => caller'[c].answer = answer
      /\ ~hears => caller' = caller
  <2>0. answer \in Answer
    <3>1. Listed(r.call.type) \in Nat
      BY DEF Listed, IInv, TypeOK
    <3>2. r.call.type \in Types \cup {"none"}
      BY <1>r DEF Calls
    <3> QED
      BY <3>1, <3>2 DEF Answer, List
  <2>1. CASE hears
    <3>1. caller'[c] = [caller[c] EXCEPT !.answer = answer]
          /\ \A d \in Callers : d # c => caller'[d] = caller[d]
      BY <1>1, <1>t, <2>1 DEF IInv, TypeOK
    <3> HIDE DEF answer
    <3>2. /\ caller'[c] \in Caller /\ caller'[c].pc = caller[c].pc
          /\ caller'[c].number = caller[c].number
          /\ caller'[c].call = caller[c].call /\ caller'[c].wrote = caller[c].wrote
          /\ caller'[c].got = caller[c].got /\ caller'[c].floor = caller[c].floor
          /\ caller'[c].overtaken = caller[c].overtaken /\ caller'[c].answer = answer
      BY <1>t, <2>0, <3>1 DEF Caller
    <3> QED
      BY <1>t, <2>1, <3>1, <3>2
  <2>2. CASE ~hears
    BY <1>1, <1>t, <2>2
  <2> QED
    BY <2>1, <2>2
<1>6. TypeOK'
  <2>1. caller' \in [Callers -> Caller]
    BY <1>1, <1>5, <1>t DEF IInv, TypeOK
  <2> QED
    BY <1>1, <1>4, <2>1 DEF IInv, TypeOK
<1>a. answer.kind = kind /\ answer.list.type = r.call.type /\ answer.list.version = Listed(r.call.type)
  OBVIOUS
<1> HIDE DEF answer, hears
<1>7. CallsOK'
  <2>1. hears => caller[c].wrote
    BY <1>r DEF hears
  <2>2. ASSUME NEW d \in Callers, caller'[d].answer.kind # "none"
        PROVE  caller'[d].wrote
    <3>1. CASE d = c /\ hears
      BY <1>5, <2>1, <3>1
    <3>2. CASE ~(d = c /\ hears)
      <4>1. caller'[d] = caller[d]
        BY <1>5, <3>2
      <4> QED
        BY <2>2, <4>1 DEF IInv, CallsOK
    <3> QED
      BY <3>1, <3>2
  <2> QED
    BY <1>1, <1>5, <2>2 DEF IInv, CallsOK, Of
<1>8. RequestsOK'
  <2>1. ASSUME NEW q \in inflight', q.caller = c
        PROVE  q.number # n
    BY <1>1, <1>r, <2>1
  <2>2. ASSUME NEW q \in inflight'
        PROVE  /\ q.number \in 1..caller'[q.caller].number
               /\ q.price \in Rounded(q.call.price) /\ q.call \in Calls
               /\ \A p \in inflight' : p.caller = q.caller /\ p.number = q.number => p = q
    BY <1>1, <1>5, <1>t DEF IInv, RequestsOK
  <2>3. ASSUME NEW q \in inflight'
        PROVE  taken'[q.caller][q.number] = 0
    <3>1. q \in inflight /\ q.number \in 1..caller[q.caller].number /\ q.caller \in Callers
      BY <1>1, <1>t DEF IInv, RequestsOK
    <3>2. caller[q.caller].number <= calls /\ calls \in 0..MaxCalls /\ MaxCalls \in Nat
          /\ caller[q.caller].number \in Nat
      BY <3>1, <1>t, RESTAssumption DEF IInv, TypeOK, CallsOK, Caller
    <3>3. q.number \in 1..MaxCalls
      BY <3>1, <3>2
    <3> QED
      BY <1>4, <2>1, <3>1, <3>3 DEF IInv, RequestsOK
  <2>4. ASSUME NEW q \in inflight', q.number = caller'[q.caller].number
        PROVE  /\ caller'[q.caller].wrote /\ q.call = caller'[q.caller].call
               /\ caller'[q.caller].answer.kind = "none"
    <3>1. q \in inflight /\ q.caller \in Callers
      BY <1>1, <1>t
    <3>2. /\ caller[q.caller].wrote /\ q.call = caller[q.caller].call
          /\ caller[q.caller].answer.kind = "none"
      BY <1>5, <2>4, <3>1 DEF IInv, RequestsOK
    <3>3. caller'[q.caller].answer = caller[q.caller].answer
      BY <1>5, <2>1, <2>4, <3>1 DEF hears
    <3> QED
      BY <1>5, <3>1, <3>2, <3>3
  <2> QED
    BY <2>2, <2>3, <2>4 DEF RequestsOK
<1>9. TakenOK'
  <2>1. ASSUME NEW d \in Callers, NEW k \in 1..MaxCalls
        PROVE  /\ taken'[d][k] <= 1
               /\ k > caller'[d].number => taken'[d][k] = 0
               /\ k = caller'[d].number /\ ~caller'[d].wrote => taken'[d][k] = 0
    <3>1. CASE d = c /\ k = n
      BY <1>3, <1>4, <1>5, <1>r, <1>n, <3>1
    <3>2. CASE d # c \/ k # n
      BY <1>4, <1>5, <3>2 DEF IInv, TakenOK
    <3> QED
      BY <3>1, <3>2
  <2>2. ASSUME NEW d \in Callers, Of(d, "order")',
               caller'[d].answer.kind = "ok" \/ caller'[d].pc = "done"
        PROVE  taken'[d][caller'[d].number] = 1
    <3>1. Of(d, "order") /\ caller'[d].number = caller[d].number
      BY <1>5, <2>2 DEF Of
    <3>2. CASE d = c /\ hears
      <4>1. kind = "ok" /\ r.call.op = "order"
        BY <1>5, <1>a, <1>r, <2>2, <3>1, <3>2 DEF hears, Of
      <4> QED
        BY <1>3, <1>4, <3>1, <3>2, <4>1 DEF hears
    <3>3. CASE ~(d = c /\ hears)
      <4>1. caller'[d] = caller[d]
        BY <1>5, <3>3
      <4>2. taken[d][caller[d].number] = 1
        BY <2>2, <3>1, <4>1 DEF IInv, TakenOK
      <4>3. ~(d = c /\ caller[d].number = n)
        BY <1>r, <4>2
      <4>4. caller[d].number \in 1..MaxCalls
        <5>1. caller[d].number # 0
          BY <2>2, <4>1 DEF IInv, CallsOK
        <5> QED
          BY <5>1, <1>t, RESTAssumption DEF IInv, CallsOK, TypeOK, Caller
      <4> QED
        BY <1>4, <3>1, <4>2, <4>3, <4>4
    <3> QED
      BY <3>2, <3>3
  <2> QED
    BY <2>1, <2>2 DEF TakenOK
<1>10. FreshOK'
  <2>1. ASSUME hears, Of(c, "instruments")
        PROVE  answer.list.type = caller[c].call.type /\ answer.list.version >= caller[c].floor
    <3>1. r.call = caller[c].call /\ caller[c].pc = "wait"
      BY <1>r, <2>1 DEF hears
    <3>2. r.call.type \in Types
      BY <1>r, <2>1, <3>1 DEF Calls, Of
    <3>3. caller[c].floor <= listed[r.call.type]
      BY <1>t, <2>1, <3>1 DEF IInv, FreshOK
    <3>4. caller[c].floor \in Nat /\ listed[r.call.type] \in Nat
      BY <1>t, <3>2 DEF IInv, TypeOK, Caller
    <3> QED
      BY <1>a, <3>1, <3>2, <3>3, <3>4 DEF Listed
  <2> QED
    BY <1>1, <1>5, <1>t, <2>1 DEF IInv, FreshOK, IsFresh, Of, hears
<1> QED
  BY <1>6, <1>7, <1>8, <1>9, <1>10 DEF IInv

-----------------------------------------------------------------------------
LEMMA NextIInv == IInv /\ [Next]_vars => IInv'
<1> SUFFICES ASSUME IInv, [Next]_vars PROVE IInv'
  OBVIOUS
<1>1. ASSUME NEW c \in Callers, Cached(c)
      PROVE  IInv'
  BY <1>1, CachedKeeps, StoreKeeps DEF Cached
<1>2. ASSUME NEW c \in Callers, Session(c)
      PROVE  IInv'
  <2>1. CASE SendFails(c) \/ ReadFails(c)
    <3>1. caller[c].pc \in {"send", "wait"} /\ Ends(c, "thrown")
      BY <2>1 DEF SendFails, ReadFails
    <3> QED
      BY <3>1, EndsKeeps
  <2>2. CASE Write(c)
    BY <2>2, WriteKeeps
  <2> QED
    BY <1>2, <2>1, <2>2 DEF Session
<1>3. ASSUME NEW c \in Callers, Check(c)
      PROVE  IInv'
  <2>1. CASE Rejected(c)
    <3>1. caller[c].pc \in {"send", "wait"} /\ Ends(c, "thrown")
      BY <2>1 DEF Rejected
    <3> QED
      BY <3>1, EndsKeeps
  <2>2. CASE TakeReading(c) \/ TakeOrders(c)
    <3>1. /\ caller[c].pc \in {"send", "wait"} /\ Ends(c, "done")
          /\ caller[c].answer.kind = "ok" /\ ~Of(c, "instruments")
      BY <2>2 DEF TakeReading, TakeOrders, Success, Of
    <3> QED
      BY <3>1, EndsKeeps
  <2>3. CASE TakeInstruments(c)
    BY <2>3, TakeInstrumentsKeeps
  <2> QED
    BY <1>3, <2>1, <2>2, <2>3 DEF Check
<1>4. ASSUME NEW c \in Callers, NEW call \in Calls, StartCall(c, call)
      PROVE  IInv'
  BY <1>4, StartKeeps
<1>5. CASE Exchange
  BY <1>5, ListChangesKeeps, HandleKeeps DEF Exchange
<1>6. CASE UNCHANGED vars
  BY <1>6 DEF vars, IInv, TypeOK, CallsOK, RequestsOK, TakenOK, FreshOK, IsFresh, Of
<1> QED
  BY <1>1, <1>2, <1>3, <1>4, <1>5, <1>6, SetKeeps, CredentialsKeep DEF Next

LEMMA SpecIInv == Spec => []IInv
  BY InitIInv, NextIInv, PTL DEF Spec

\* An order is taken once at most, and exactly once if the call returns, however
\* connections break and answers are late (see RESTClient).
THEOREM OrdersAreTakenOnce == Spec => []OrderIsTakenOnce
<1>1. IInv => OrderIsTakenOnce
  <2> SUFFICES ASSUME IInv, NEW c \in Callers
               PROVE  /\ \A n \in 1..MaxCalls : taken[c][n] <= 1
                      /\ Of(c, "order") /\ caller[c].pc = "done" => taken[c][caller[c].number] = 1
                      /\ caller[c].number # 0 /\ ~caller[c].wrote => taken[c][caller[c].number] = 0
    BY DEF OrderIsTakenOnce
  <2>1. caller[c].number # 0 => caller[c].number \in 1..MaxCalls
    BY RESTAssumption DEF IInv, TypeOK, CallsOK, Caller
  <2> QED
    BY <2>1 DEF IInv, TakenOK
<1> QED
  BY <1>1, SpecIInv, PTL

\* A reload returns a list of its type that is no older than the call, unless
\* another thread has stored one in between (see RESTClient).
THEOREM ReloadsAreFresh == Spec => []ReloadIsFresh
<1>1. IInv => ReloadIsFresh
  BY DEF IInv, FreshOK, IsFresh, ReloadIsFresh
<1> QED
  BY <1>1, SpecIInv, PTL

\* Three digits leave every price below a million of its last digits within half
\* a percent, and the orders under way in the order of their prices (see
\* RESTClient).
THEOREM PricesStandForWhatWasMeant == Spec => []PricesKeepOrder
<1>1. IInv => PricesKeepOrder
  BY CallPrice, RoundedIsNear, RoundedKeepsOrder DEF IInv, RequestsOK, PricesKeepOrder
<1> QED
  BY <1>1, SpecIInv, PTL

\* Every state of the client has its type: what a call holds, the cache, the
\* requests under way, and what the exchange has counted.
THEOREM RESTTypeCorrect == Spec => []TypeOK
<1>1. IInv => TypeOK
  BY DEF IInv
<1> QED
  BY <1>1, SpecIInv, PTL
=============================================================================
