------------------------------ MODULE RESTClient ------------------------------
(***************************************************************************)
(* RESTClient (src/src/okx_rest_client.cpp) on its HTTPSession             *)
(* (src/src/okx_http_session.cpp): threads of the application share one    *)
(* client.  Every call opens a connection of its own, blocks, and throws   *)
(* if anything goes wrong; nothing is retried.  The client keeps the       *)
(* instruments it was last answered, under a mutex that is taken for each  *)
(* access.  What a connection that breaks leaves behind may still reach    *)
(* the exchange.                                                           *)
(*                                                                         *)
(* A list of instruments is the type it was asked for and its version at   *)
(* the exchange; version 0 lists nothing.  A price is in units of its last *)
(* digit.  The downloads are the subject of HistoryPager and MarketData.   *)
(***************************************************************************)
EXTENDS Naturals

CONSTANTS
  Callers,      \* threads of the application
  Types,        \* instrument types
  Prices,       \* limit prices
  MaxCalls,     \* bound: calls
  MaxVersion,   \* bound: versions of what is listed
  MaxSessions   \* bound: sessions of the client

ASSUME RESTAssumption ==
  /\ Types \cap {"user", "none"} = {}
  /\ \A p \in Prices : p \in Nat \ {0} /\ p < 1000 * 1000
  /\ MaxCalls \in Nat /\ MaxVersion \in Nat /\ MaxSessions \in Nat

VARIABLES
  calls,         \* history: how many calls were made
  instruments,   \* m_instruments
  sessions,      \* how many sessions the client has had, with its httpSession
  listed,        \* external: what the exchange lists
  inflight,      \* external: requests that the exchange may still take
  taken,         \* external, history: how often it took the order of a call
  caller

vars == <<calls, instruments, sessions, listed, inflight, taken, caller>>

\* read: tickers, time, balance, positions, order detail.  order: place, cancel.
Operations == {"instruments", "read", "order"}

List == [type : Types \cup {"user", "none"}, version : Nat]

\* error: the status, the body or the code tell of no success.
Answer == [kind : {"none", "ok", "error"}, list : List]

Call == [op : Operations, type : Types \cup {"none"}, force : BOOLEAN, price : Nat]

Request == [caller : Callers, number : Nat, call : Call, price : Nat]

\* wrote, overtaken and floor are histories: the request was written; another
\* list was stored after the own one; the version listed when the call began.
Caller == [pc : {"idle", "test", "send", "wait", "store", "copy", "done", "thrown", "dangling"},
           number : Nat, call : Call, answer : Answer, got : List,
           wrote : BOOLEAN, overtaken : BOOLEAN, floor : Nat]

TypeOK ==
  /\ calls \in 0..MaxCalls
  /\ instruments \in List
  /\ sessions \in Nat
  /\ listed \in [Types -> Nat]
  /\ inflight \subseteq Request
  /\ taken \in [Callers -> [1..MaxCalls -> Nat]]
  /\ caller \in [Callers -> Caller]

NoList == [type |-> "user", version |-> 0]
NoAnswer == [kind |-> "none", list |-> NoList]

Init ==
  /\ calls = 0
  /\ instruments = NoList
  /\ sessions = 1
  /\ listed \in [Types -> 0..MaxVersion]
  /\ inflight = {}
  /\ taken = [c \in Callers |-> [n \in 1..MaxCalls |-> 0]]
  /\ caller = [c \in Callers |->
       [pc |-> "idle", number |-> 0, answer |-> NoAnswer, got |-> NoList,
        call |-> [op |-> "read", type |-> "none", force |-> FALSE, price |-> 0],
        wrote |-> FALSE, overtaken |-> FALSE, floor |-> 0]]

-----------------------------------------------------------------------------
(* The application.                                                        *)

Listed(t) == IF t \in Types THEN listed[t] ELSE 0

Free(c) == caller[c].pc \in {"idle", "done", "thrown"}

StartCall(c, call) ==
  /\ Free(c) /\ calls < MaxCalls
  /\ calls' = calls + 1
  /\ caller' = [caller EXCEPT ![c] =
       [pc |-> IF call.op = "instruments" THEN "test" ELSE "send",
        number |-> caller[c].number + 1, call |-> call,
        answer |-> NoAnswer, got |-> NoList, wrote |-> FALSE, overtaken |-> FALSE,
        floor |-> Listed(call.type)]]
  /\ UNCHANGED <<instruments, sessions, listed, inflight, taken>>

\* The session is replaced: what a call does with the old one is undefined.
SetCredentials ==
  /\ sessions < MaxSessions
  /\ sessions' = sessions + 1
  /\ caller' = [c \in Callers |->
       IF caller[c].pc \in {"send", "wait"}
         THEN [caller[c] EXCEPT !.pc = "dangling"] ELSE caller[c]]
  /\ UNCHANGED <<calls, instruments, listed, inflight, taken>>

-----------------------------------------------------------------------------
(* getInstruments().                                                       *)

Goto(c, pc) == caller' = [caller EXCEPT ![c].pc = pc]
CallerOnly == UNCHANGED <<calls, instruments, sessions, listed, inflight, taken>>

Ends(c, pc) ==
  /\ caller' = [caller EXCEPT ![c].pc = pc, ![c].answer = NoAnswer]
  /\ CallerOnly

\* The cache is asked for no type; the mutex is released after the test.
TestCache(c) ==
  /\ caller[c].pc = "test"
  /\ Goto(c, IF instruments.version = 0 \/ caller[c].call.force THEN "send" ELSE "copy")
  /\ CallerOnly

\* A list is stored: those that were stored before are overtaken.
StoredList(list) ==
  /\ instruments' = list
  /\ UNCHANGED <<calls, sessions, listed, inflight, taken>>

Overtaken(d) == [caller[d] EXCEPT !.overtaken = @ \/ caller[d].pc = "copy"]

\* Mutant: what is cached meanwhile is kept.
MutStoreInstruments(c) ==
  /\ caller[c].pc = "store"
  /\ IF instruments.version = 0 THEN StoredList(caller[c].answer.list) ELSE CallerOnly
  /\ caller' = [d \in Callers |->
       IF d = c THEN [caller[d] EXCEPT !.pc = "copy"] ELSE caller[d]]

StoreInstruments(c) ==
  /\ caller[c].pc = "store"
  /\ StoredList(caller[c].answer.list)
  /\ caller' = [d \in Callers |->
       IF d = c THEN [caller[d] EXCEPT !.pc = "copy"] ELSE Overtaken(d)]

CopyInstruments(c) ==
  /\ caller[c].pc = "copy"
  /\ caller' = [caller EXCEPT ![c].pc = "done", ![c].got = instruments, ![c].answer = NoAnswer]
  /\ CallerOnly

\* setInstruments() of the application.
SetInstruments(version) ==
  /\ StoredList([type |-> "user", version |-> version])
  /\ caller' = [d \in Callers |-> Overtaken(d)]

-----------------------------------------------------------------------------
(* HTTPSession.                                                            *)

Units == {1, 10, 100, 1000}

\* Mutant: two digits.
MutUnit(price) == CHOOSE u \in Units : price < 100 * u /\ (u = 1 \/ price >= 10 * u)

\* What the third digit of a price stands for.
Unit(price) == CHOOSE u \in Units : price < 1000 * u /\ (u = 1 \/ price >= 100 * u)

\* px.str(3): the nearest number of three digits, either one if there are two.
Rounded(price) ==
  LET u == Unit(price)
      below == u * (price \div u)
      rest == price % u
  IN  {q \in {below, below + u} : IF q = below THEN 2 * rest <= u ELSE 2 * (u - rest) <= u}

\* Resolving, connecting, the handshakes or the writing fails.
SendFails(c) ==
  /\ caller[c].pc = "send"
  /\ Ends(c, "thrown")

\* get() and post(): what is sent for a call.
RequestsOf(c) ==
  {[caller |-> c, number |-> caller[c].number, call |-> caller[c].call, price |-> p] :
     p \in IF caller[c].call.op = "order" THEN Rounded(caller[c].call.price) ELSE {0}}

\* The request is made, signed for the account of the session and written.
Write(c) ==
  /\ caller[c].pc = "send"
  /\ \E r \in RequestsOf(c) : inflight' = inflight \cup {r}
  /\ caller' = [caller EXCEPT ![c].pc = "wait", ![c].wrote = TRUE]
  /\ UNCHANGED <<calls, instruments, sessions, listed, taken>>

\* Mutant: the request is sent again.
MutReadFails(c) ==
  /\ caller[c].pc = "wait" /\ caller[c].answer = NoAnswer
  /\ Goto(c, "send")
  /\ CallerOnly

\* The connection breaks before the answer was read, whatever became of the
\* request.  There is no timeout: without this the call waits.
ReadFails(c) ==
  /\ caller[c].pc = "wait"
  /\ Ends(c, "thrown")

-----------------------------------------------------------------------------
(* The answer is read: checkResponse() and handleOKXResponse().            *)

Rejected(c) ==
  /\ caller[c].pc = "wait" /\ caller[c].answer.kind = "error"
  /\ Ends(c, "thrown")

Success(c, op) ==
  /\ caller[c].pc = "wait" /\ caller[c].answer.kind = "ok"
  /\ caller[c].call.op = op

TakeInstruments(c) == Success(c, "instruments") /\ Goto(c, "store") /\ CallerOnly
TakeReading(c) == Success(c, "read") /\ Ends(c, "done")
TakeOrders(c) == Success(c, "order") /\ Ends(c, "done")

-----------------------------------------------------------------------------
(* The exchange.                                                           *)

ListChanges(t) ==
  /\ listed[t] < MaxVersion
  /\ listed' = [listed EXCEPT ![t] = @ + 1]
  /\ UNCHANGED <<calls, instruments, sessions, inflight, taken, caller>>

\* After an error the order is taken or not: a status is no answer to it.
Takes(r, kind) ==
  IF r.call.op # "order" THEN {0} ELSE IF kind = "ok" THEN {1} ELSE {0, 1}

Handle(r, kind) ==
  /\ r \in inflight
  /\ inflight' = inflight \ {r}
  /\ \E n \in Takes(r, kind) : taken' = [taken EXCEPT ![r.caller][r.number] = @ + n]
  /\ caller' = IF caller[r.caller].number = r.number /\ caller[r.caller].pc = "wait"
       THEN [caller EXCEPT ![r.caller].answer =
               [kind |-> kind, list |-> [type |-> r.call.type, version |-> Listed(r.call.type)]]]
       ELSE caller
  /\ UNCHANGED <<calls, instruments, sessions, listed>>

-----------------------------------------------------------------------------
\* Only getInstruments() is about a type, and only placing an order has a price.
Calls ==
  {call \in [op : Operations, type : Types \cup {"none"}, force : BOOLEAN,
             price : Prices \cup {0}] :
     /\ call.force => call.op = "instruments"
     /\ call.op = "instruments" <=> call.type # "none"
     /\ call.price # 0 => call.op = "order"}

Cached(c) == TestCache(c) \/ StoreInstruments(c) \/ CopyInstruments(c)
Session(c) == SendFails(c) \/ Write(c) \/ ReadFails(c)
Check(c) == Rejected(c) \/ TakeInstruments(c) \/ TakeReading(c) \/ TakeOrders(c)

Exchange ==
  \/ \E t \in Types : ListChanges(t)
  \/ \E r \in inflight, kind \in {"ok", "error"} : Handle(r, kind)

Next ==
  \/ \E c \in Callers : Cached(c) \/ Session(c) \/ Check(c) \/ \E call \in Calls : StartCall(c, call)
  \/ \E v \in 0..MaxVersion : SetInstruments(v)
  \/ SetCredentials
  \/ Exchange

Spec == Init /\ [][Next]_vars

-----------------------------------------------------------------------------
(* Safety.                                                                 *)

Of(c, op) == caller[c].call.op = op

\* An order (placed or cancelled) is taken once at most, though connections
\* break and answers are late; once exactly if the call returns; and not at all
\* if it throws before the request was written.  After a later exception the
\* caller cannot know.
OrderIsTakenOnce == \A c \in Callers :
  /\ \A n \in 1..MaxCalls : taken[c][n] <= 1
  /\ Of(c, "order") /\ caller[c].pc = "done" => taken[c][caller[c].number] = 1
  /\ caller[c].number # 0 /\ ~caller[c].wrote => taken[c][caller[c].number] = 0

\* getInstruments() that has asked the exchange, as it does when it is forced
\* to, returns a list of the type that was asked for and no older than the call,
\* unless another thread has stored one in between.
ReloadIsFresh == \A c \in Callers :
  /\ Of(c, "instruments") /\ caller[c].pc = "done"
  /\ caller[c].call.force \/ caller[c].wrote
  /\ ~caller[c].overtaken
  => caller[c].got.type = caller[c].call.type /\ caller[c].got.version >= caller[c].floor

\* Three digits are left of the price of an order.  What is sent still stands for
\* what was meant: it differs by half a percent at most, and of two orders on
\* their way, of one caller or two, the one with the lower price is not sent with
\* the higher one, though the third digit stands for more above a power of ten
\* than below it, and a price below may be rounded to it.
PricesKeepOrder == \A r \in inflight : r.call.op = "order" =>
  /\ 200 * r.price <= 201 * r.call.price
  /\ 200 * r.price >= 199 * r.call.price
  /\ \A q \in inflight :
       q.call.op = "order" /\ r.call.price < q.call.price => r.price <= q.price
=============================================================================
