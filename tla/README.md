# A verification development of okx_cpp_api

TLA+ models of the parts of this library that keep state and share it between
threads, completion handlers and the exchange; TLC configurations that check
them on small instances; and TLAPS proofs of the properties that matter most for
every instance. Line numbers refer to the files under `src/`.

1. [The system](#1-the-system): components, state, operations, interactions
2. [The modules](#2-the-modules): what models what
3. [The runs](#3-the-runs): what is checked, with which bounds
4. [Fairness](#4-fairness)
5. [What is proved](#5-what-is-proved)
6. [Disagreements](#6-disagreements-between-the-code-and-what-is-said-of-it)
7. [Observations](#7-observations-that-no-run-states)
8. [What is not modelled](#8-what-is-not-modelled)
9. [Plan](#9-plan)

## 1. The system

The library gives an application access to the OKX exchange: requests over HTTP,
and the public stream over a WebSocket.

```
 application threads
   |                 |                    |
   | subscribe, read | getFundingRates    | getHistoricalPrices, ...
   v                 v                    v
 WSStreamManager   OKXFuturesExchange-   RESTClient --- RateLimiter (two of them)
   |      ^        Connector --worker-->  |        --- instrument cache
   v      | data events                   v
 WebSocketClient  --io thread-->        HTTPSession    market data utils (zip, CSV)
   |      ^
   v      | completion handlers
 WebSocketSession  <---- exchange
```

| component | state | operations | how it interacts |
|---|---|---|---|
| `WebSocketSession` (`okx_ws_session.cpp`) | the stream, one slot for a request, the vector of answered subscriptions, the ping timer, the times of the last ping and pong | `run`, `subscribe`, `isSubscribed`, `close`, twelve handlers | its handlers run on the io thread and hold a `shared_ptr` to it; `subscribe` and `isSubscribed` come from any thread, under a mutex |
| `WebSocketClient` (`okx_ws_client.cpp`) | the `io_context`, a thread handle, `isRunning`, a `weak_ptr` to the session | `run`, `subscribe`, `isSubscribed`, destructor | spawns the io thread; makes a session when the old one is gone |
| `WSStreamManager` (`okx_ws_stream_manager.cpp`) | two tables of last events, each with a mutex, and a timeout | subscribe (tickers, candles), read (tickers, candles), `setTimeout`, destructor | stores events on the io thread; application threads poll the tables |
| `RateLimiter` (`okx_rest_client.cpp:33`) | a mutex and the times of recent requests | `wait` | called by every thread that uses a limited request; sleeps with the mutex locked |
| history downloads (`okx_rest_client.cpp:147-262`) | local to a call | `getHistoricalPrices`, `getFundingRates` | ask for pages until one is empty, while the exchange adds bars |
| requests and instrument cache (`okx_rest_client.cpp:83-145, 264-345`) | the instruments under a mutex, the session | `getInstruments`, `setInstruments`, `setCredentials`, reading requests, `placeOrder`, `cancelOrder` | any number of threads share a client; used by the connector and by applications |
| bulk market data (`okx_rest_client.cpp:368-410`, `okx_market_data_utils.cpp`) | local to a call | list of files, download, unzip, parse CSV, merge, sort | downloads through `HTTPSession`, unpacks with minizip |
| `OKXFuturesExchangeConnector` | a REST client, a vector of funding rates, a worker thread, `isRunning` | `getFundingRates`, `login`, `getFundingRate`, destructor | the worker starts one task per instrument, three at a time |
| `HTTPSession` | credentials | `get`, `post`, `downloadBinary` | one blocking connection for each request, nothing is retried |
| models, enums | none | JSON | |
| bar sizes (`okx.cpp`) | none | four tables | the manager goes through two of them to subscribe, store and read |

### What is hard, and what makes each part correct

* **Session.** Reads, writes, pings and closes are asynchronous; Beast allows one
  read and one write of the application at a time. Correct means: the chain of
  handlers never forks and never breaks off while the stream is open; what was
  subscribed is sent; the ping timer lives as long as the stream and no longer;
  a session that is over is destroyed, since the client opens another only then.
* **Client.** `isRunning`, the handle and `io_context::stopped()` are read and
  written by two threads without a lock that spans them. Correct means: a thread
  is never spawned over another; `run` after `subscribe` leads to a context that
  runs; the destructor ends.
* **Manager.** The callback captures references to the manager's tables. Correct
  means: it is never run after they are gone; a read returns what came last; a
  read ends.
* **Rate limiter.** Boundaries of the window, a `now` that gets old during a
  sleep, a mutex held meanwhile. Correct means: at most `limit` grants in any
  window, and every caller gets its turn.
* **History downloads.** Pages arrive newest first while bars close. Correct
  means: no gap, no overlap, ascending, only confirmed candles, and an end.

* **Requests.** Connections break at any step, answers come late or are errors, and
  the cache is tested, filled and copied under three separate locks. Correct
  means: an order is not taken twice, a call that returns was answered, a reload
  is fresh, the price that is sent is the price that was meant.
* **Connector.** An owner, a worker and one thread per instrument behind a
  semaphore. Correct means: the stored rates are whole, requests keep the rate of
  the exchange, a worker is joined before the next one and before the destructor
  ends, a batch ends.
* **Bulk market data.** Many kinds of lines, files that overlap, eight steps with
  handles that are released by hand. Correct means: each time of a file once, all
  files or nothing, ascending candles, no handle left open.

`PROJECT.json` lists these hazards one by one with their lines.

## 2. The modules

| module | models | extends / instantiates |
|---|---|---|
| `WebSocketSession` | `okx_ws_session.cpp` | `INSTANCE Subscriptions` |
| `Subscriptions` | the abstract promise of a session about the requests it is given | |
| `WebSocketClient` | `okx_ws_client.cpp` | |
| `WSStreamManager` | `okx_ws_stream_manager.cpp`, over the client | `EXTENDS BarSizes`, `INSTANCE WebSocketClient` |
| `BarSizes` | the tables of `okx.cpp` and the names of `okx_enums.h` | |
| `RateLimiter` | `RateLimiter` of `okx_rest_client.cpp` | `INSTANCE SlidingWindow` |
| `SlidingWindow` | the abstract promise of a rate limiter | |
| `FundingRateBatch` | the tasks of the connector's worker | `INSTANCE SlidingWindow` |
| `FuturesConnector` | `okx_futures_exchange_connector.cpp`: owner and worker | `EXTENDS FundingRateBatch` |
| `HistoryPager` | the paged downloads of `okx_rest_client.cpp` | |
| `RESTClient` | the other requests and the cache of `okx_rest_client.cpp`, on `okx_http_session.cpp` | |
| `MarketData` | `okx_market_data_utils.cpp` and the download that uses it | |
| `MC...` | the instance of a module that TLC checks | the module |
| `..._proofs` | the theorems about a module | the module and TLAPS |

Definitions named `Mut...` are deliberate faults. No specification uses them; each
stands before the definition it would replace and shows that a property of a run
can fail.

### WebSocketSession and Subscriptions

`ops` counts, for each kind of asynchronous operation, those whose handler has
not run. A handler is one action: it takes its operation from `ops` and adds the
ones it starts. `ChainAlive` and `timer` say whether a handler still holds the
`shared_ptr`; `Released` is the destruction of the session, seen by the client as
an expired `weak_ptr`. The handlers of ping and close hold only `this` and do not
keep it alive.

| state | code |
|---|---|
| `ws` | `ws`: not started, opening, open, closing (a close was sent), down |
| `timer` | `pingTimer`: no wait, armed, expired (handler queued, cannot be cancelled), cancelled (handler queued with an error) |
| `unponged` | whether `lastPingTime - lastPongTime` may exceed 20 s |
| `slot` | `subscriptionRequest`: a text, empty when nothing waits |
| `subscriptions` | the vector `subscriptions`, as a bag of channels |
| `writing`, `wire` | the frame being written; frames at the exchange that it has not answered |
| `app` | whether the application has set a log callback, and whether it calls `close()` |

`app.logs = FALSE` matters because `logMessageCB` is called without a test: an
empty `std::function` throws, and what follows the call in the handler is not
done (`Abandon`). `Garbled` stands for what is sent when `async_write` reads its
buffer after `onRead` has returned: Beast copies a frame at once unless another
write (a ping or a close) holds the stream.

A request is a text (`Texts`), and `Parse` says which channel it asks for, if
`json::parse()` and `fromJson()` can read it at all. The session looks at it in
two ways. `writeSubscriptionRequest()` compares the text itself with the dumps in
the vector, so the same request in other words is not found there; and
`readSubscriptionRequest()` parses it and throws when it cannot, before it clears
the slot. From `onRead()` that exception closes the stream (`SendUnreadable`); from
`onHandshake()` it leaves the handler, after the timer was armed. The empty text is
refused by `run()` and taken by `subscribe()`, for which it empties the slot; a
frame of nothing is the empty frame, and `NoFrame` is none.

`calls` is a history variable: how often `run()` and `subscribe()` were given a
request for each channel, the empty one, or one that cannot be read.

`Subscriptions` is what an application may rely on: a mailbox in which the latest
request waits, is sent once when nothing else is being sent, and is subscribed
when the exchange says so. The session implements it with `slot` as the mailbox,
`writing` as the frame being sent and `wire` as what is unanswered; connecting,
pings, timers and closes are steps that change nothing of it. It does not promise
that each request is sent: section 6 has two ways in which one is lost.

The two locked sections at lines 201 and 205 are one step: a `subscribe()` that
falls between them has the effect of one just after the handler.

### WebSocketClient

The thread of the application (`user`) and the io thread (`io`) each have a
program counter; one step is one access to what they share. The session is a
Boolean: while it is alive the context has work, and a context without work stops
itself (`IoOutOfWork`). `IoThrow` is an exception that escapes from a handler: the
loop of line 64 restarts. `isRunning` is cleared twice, at lines 71 and 80.

### WSStreamManager

The client's variables and actions are taken over by `INSTANCE`; the manager adds
what the io thread stores (`table`), the poll loops of the readers and the steps
of the destructor: `wsClient.reset()` (stop and join), `timeout = 0`, destruction
of the members (`stage`). A reader that is inside at that moment becomes
`dangling`: what it does is undefined, so nothing is said about it. An event is
its number in its stream; `events` and a reader's `floor` are history variables.

A candle stream is a bar size of one instrument. It is subscribed and read by the
bar size and stored by the channel that comes with the event, so `StoredAt` goes
through both tables of `BarSizes`: two bar sizes that share a channel, or a channel
that leads back to another one, would mix two streams. Both read operations have
the same loop (lines 137 to 153 and 159 to 180), so `Read` is one action.

### RateLimiter and SlidingWindow

`holder` is the mutex, `phase` where its owner is in `wait()`; `now` is the local
variable, which gets old while `clock` advances between any two steps. `granted`
is every time ever pushed. `SlidingWindow` says only what a limiter promises;
`RateLimiter` implements it with the identity mapping on `clock` and `granted`.

### FundingRateBatch and FuturesConnector

`task` is the thread and the future of each instrument: waiting for a permit,
asking the exchange, sleeping with the permit, ready, thrown, or taken by the loop
of the worker. `Busy` are those with a permit. The sleep is cut to whole
milliseconds (line 59), so a task holds its permit until one of two times
(`HeldUntil`). `starts` remembers when requests began; it implements
`SlidingWindow` with `Limit` the number of permits and a window one less than what
a permit is surely held. With the code's constants (three permits, 345 ms) that
is at most 18 requests in any 2 s, where the exchange allows 20, while no request
has failed: after a failure `starts` records nothing and nothing is claimed.

`FuturesConnector` adds the owner (`owner`: where it is in `getFundingRates()` or
the destructor), the worker (`worker`: also whether the thread object is
joinable), the flag and the stored rates. `Throw` is an exception that leaves the
worker, be it the request for the instruments or what `future.get()` throws again:
nothing catches it, the process is terminated, and `Next` has no further step.

### RESTClient

Each caller is at a step of one call: the test of the cache, the sending, the
waiting, the store, the copy. `inflight` are requests that the exchange may still
take; a connection that breaks (`ReadFails`) leaves its request there. `taken`
counts how often the exchange took the order of a call, `overtaken` and `floor`
are histories. Every list of instruments is its type and its version at the
exchange. A call that is under way when `setCredentials()` replaces the session is
`dangling`, and nothing is said of it. `Rounded` is `px.str(3)` of `Order::toJson`:
the nearest number of three significant digits (either one, if there are two),
whose last digit stands for `Unit`, which grows at each power of ten.

### MarketData

One parser step reads one line (`ReadLine`), whose record has what the parsers
look at: the number of its fields, whether it begins with a digit, whether its
numbers convert, the field that holds the time, the confirm flag. A time that is
no number is 0 (it is kept). `extractZip()` is eight steps, each of which may fail;
`handles` are the four objects it releases by hand, and `Released` what the error
path of a step releases. `expected` counts what the files should give by the
reference definition `FirstOfTheirTime`, which looks at all the lines at once
where the parser goes line by line.

### HistoryPager

`closed` and `open` are the exchange: bars that are complete and the one that is
not. `Pages` are the answers it may give: descending, the newest of the entries
that match, empty only if there are none. `BarCloses` happens between any two
steps of a download. The parameters are built as the code builds them, `after`
when *from* is given and `before` when *to* is (lines 155 to 161). `due` remembers
what was closed when the first page was sent.

## 3. The runs

Twelve runs; `expect: violation` marks what a document says and the code does not
do (section 6).

| run | shows | bounds |
|---|---|---|
| `session` | the stream's contract, keep-alive, an empty frame only as the first, sending of what waits, release after cancelling; no channel sent more often than asked for; implementation of `Subscriptions`; with and without a log callback and early `close()` | 2 channels, one of them asked for in other words than the code's, an unreadable text and the empty one; 3 calls, 1 ping and 2 closes under way |
| `session_overwrite` | violation: a waiting request is dropped | the 2 channels, 2 calls, 1 close |
| `session_zombie` | violation: a dead session takes a request that is never sent | the same |
| `client_lost_wakeup` | violation: `run` starts no context | none: the client's state space is finite |
| `manager` | freshness of candles, destruction, end of reads; and, of the client in it, no second thread, a context that is brought to run, an honoured `stop` | 2 candle streams, 1 reader, 2 events each, timeouts 0 and 1, 1 try per second |
| `limiter` | rate, deque, implementation of `SlidingWindow`, every call returns | 2 threads, limit 2, window 2, slack 1, 4 requests, clock to 5 and as far as a sleep goes |
| `pager` | order, completeness, the one open candle, what a writer has at the end and after a failure, requests that shrink, end of downloads | any history of bars 0 to 3, 2 bars that close meanwhile, pages of 1 or 2, *from* and *to* in {-1, 0, 3, 6} |
| `pager_unconfirmed` | violation: the open candle is returned | the same |
| `connector` | whole rates, the rate of the requests, joins, destruction, end of a batch | 3 instruments, 2 permits held for 3 ticks, 3 tasks in all batches together, clock to 1 and as far as a sleep goes |
| `marketdata` | each readable time once, all files or nothing, handles released | 7 kinds of lines, 4 lines of a file, 2 files, both parsers |
| `marketdata_malformed` | violation: a line that cannot be parsed is skipped | the same |
| `restclient` | orders taken once, fresh reloads, prices near and in order | 2 callers, 2 types, 3 calls, 2 sessions, 3 prices, lists of two versions, symmetric in callers and types |

Why the bounds are enough:

* *Session.* Two channels are the least with which one request can replace
  another, or one be subscribed and the other not. Three calls allow a session to
  be opened, to be given a second request, and a third while the second is on the
  wire; to repeat a request before its answer, or after it in the words that are
  found and in those that are not; to empty the slot before the handshake, and to
  put into it what cannot be read before the handshake or after it. One ping under
  way is what holds the stream during a write; two closes are `close()` and the
  handler's own.
* *Manager.* Two events of a stream are the least in which one is newer; two
  candle streams are the least that can be mixed up. Readers do not interact with
  each other; the theorems are about any number of them and of streams. The client
  in the manager is unbounded, so its properties are checked here, with everything
  its owner and the readers do in between, and not in a run of its own. The run has
  no ticker stream (`Tickers` is empty), which the theorems have.
* *Limiter.* With a limit of 2 the oldest and the newest time differ; four
  requests fill the window twice; two threads are one that sleeps and one that
  waits for the mutex. Time is in ticks, and the order of the comparisons at the
  boundary is what matters: window, window + 1, window + slack all occur.
* *Pager.* Five entries in pages of two are three pages, so there is a first,
  an inner and a last page; both bars that close do so before, between and after
  any of them. `MaxResult` bounds only downloads without *from* (section 7).
* *Connector.* Three instruments for two permits: one task waits while two hold
  the permits, and can be started when the first gives its own back. The bound on
  the tasks allows a whole batch of three, or two batches of one and two, after a
  login with other instruments too, and any number of empty ones. Time needs to go
  only as far as the tasks sleep; the one tick more lets requests begin at
  different times.
* *MarketData.* Four lines have a header, an empty line before it, and two lines
  of the same time with another in between. The seven lines differ in every
  condition of the parsers; two files are the least that are appended.
* *RESTClient.* Two callers and three calls: both can find the cache empty, and a
  third call finds what they left. A request can be overtaken by the next call of
  its caller. Of the three prices 9995 lies below a power of ten and may be sent as
  9990 or, past it, as 10000; 10040 lies above and is sent as 10000; 12345 as 12300.
  Two calls, of one caller or two, have any two of them on their way at once. All
  prices below a million units are the subject of the theorem.

`CHECK_DEADLOCK FALSE` is in every configuration because every part may stop: a
session that is released, a client or manager that is destroyed, a limiter nobody
calls, a download that has returned, a connector that is destroyed or whose
process was terminated, callers that have made their calls.

## 4. Fairness

* Session: the io thread runs every handler that is ready; connects, handshakes,
  writes and closes end (Beast's suggested timeouts and `expires_after` limit
  them); timers expire; the exchange sends something on an open stream. Nothing is
  assumed of the application, of disconnections, or of what the exchange sends.
* Client: both threads are scheduled. A session need not end, handlers need not
  throw and the application need not call.
* Manager: the same, and readers are scheduled. No event need come.
* Limiter: time passes; the owner of the mutex goes on; a thread that waits for
  the mutex gets it at some time. For that one, weak fairness of `Lock(t)` is
  enough only because the number of requests is bounded; `std::mutex` itself
  promises no order, so with callers that never stop a thread could starve.
* Pager: the exchange answers the request of a page, and the thread goes on. That
  a request or the writer throws is possible at any page, and never relied on.

* Connector: threads that can go on do; a permit that is free again and again is
  got (strong fairness of `Acquire`, since other tasks can take it in between);
  the exchange answers in the end or the request fails. The owner ends a call it
  has begun and need not call.
* Bulk downloads and the requests of `RESTClient` have no liveness property:
  `HTTPSession` blocks without a timeout, and an exchange that never answers keeps
  a call for ever.

## 5. What is proved

For all values of the constants under the named assumptions
(`SessionAssumption`, `LimiterAssumption`, `ManagerAssumption`,
`PagerAssumption`, `BatchAssumption`, `ConnectorAssumption`,
`MarketDataAssumption`, `RESTAssumption`): numbers are natural, limits, page sizes
and permits positive, special values distinct, instruments finite, prices below a
million units.

| theorem | statement |
|---|---|
| `SessionInvariant`, `SessionTypeCorrect` | the inductive invariant of a session; `TypeOK` |
| `OneStep`, `EmptyFramesAreFirst` | `OneStepAtATime`, `EmptyFrameIsFirst` |
| `SessionImplementsSubscriptions` | every behaviour of a session is one of `Subscriptions` |
| `SessionSendsAsOftenAsAsked` | `SentAsOftenAsAsked` |
| `OpenStreamsAreDriven`, `OpenStreamsAreKeptAlive` | `OpenIsDriven`, `KeepAliveArmed` |
| `ClientInvariant`, `FlagTellsOfContext`, `NoThreadOverThread` | `RunningIsFlagged`, `SpawnOnlyWhenJoined` of a client alone |
| `ManagerImplementsClient` | every behaviour of the manager is one of `WebSocketClient` |
| `ManagersClientIsFlagged`, `ManagersClientJoins` | the client's two invariants in the manager |
| `ManagerTypeCorrect`, `RESTTypeCorrect` | `TypeOK` of the manager, of the requests |
| `LimiterInvariant`, `RateIsBounded`, `DequeStaysSmall` | `GrantsAreBounded`, `DequeIsBounded` |
| `LimiterImplementsSlidingWindow` | every behaviour of `RateLimiter` is one of `SlidingWindow` |
| `PagerInvariant`, `DownloadsAscend`, `DownloadsAreComplete`, `WritersGetResults` | `ResultAscends`, `ResultIsComplete`, `WriterGetsResult` |
| `DownloadsShrink`, `DownloadsConfirmAllButNewest` | `RequestsShrink`, `OnlyNewestIsOpen` |
| `CallbackEndsBeforeFree`, `CandleReadsAreFresh` | `NoCallbackAfterFree`, `CandlesAreFresh` |
| `ChannelLeadsBack`, `MinutesAgree` | how the tables of bar sizes fit together |
| `ConnectorTypeCorrect`, `ConnectorRatesAreComplete` | `TypeOK`, `RatesAreComplete` |
| `ConnectorOutlivesItsThreads`, `ConnectorJoinsEarlierWorker` | `NothingOutlivesTheConnector`, `EarlierWorkerIsJoined` |
| `BatchImplementsSlidingWindow` | every behaviour of the connector keeps `SlidingWindow` |
| `BatchRequestsAreSpaced`, `BatchKeepsLimitUntilFailure` | while none has failed: the distance of requests; with the code's constants at most 18 in 2 s |
| `ParserKeepsEveryTimeOnce`, `DownloadsAreWhole` | `EveryTimeOnce`, `ResultIsWhole` |
| `ExtractReleasesHandles` | `HandlesAreReleased` |
| `OrdersAreTakenOnce`, `ReloadsAreFresh`, `PricesStandForWhatWasMeant` | `OrderIsTakenOnce`, `ReloadIsFresh`, `PricesKeepOrder` |

The arguments:

* **Session.** At most one step is under way is inductive only with its converse:
  which state of `ws` goes with which step (an opening step only while the stream
  is opening, none before `run`), that until the handshake nothing was sent and only
  an empty request can have emptied the slot (`OpeningHasRequest`), that what is in
  the slot was given, so that a handler throws at it only if something unreadable was
  (`SlotWasGiven`), and that a close under way, unless the application called
  `close()`, means that the stream is no longer open (`ClosesOnlyOpen`).
  For `Subscriptions` one fact more is needed: a frame that is being sent has its
  write under way (`FrameHasWrite`), so the handler of a read, which needs the one
  step for itself, sends only when nothing is being sent. Then each action is a
  step of `Subscriptions` or leaves its variables alone, and the count of
  `SentAsOftenAsAsked` goes through those abstract steps.
* **Client.** A thread that was not joined is still in the handle
  (`HandleHoldsThread`). That is why `run` joins it although the flag is down, and
  why the second clearing of the flag does not lead to a spawn over a thread.
* **Limiter.** The deque is the end of `granted`, and whatever was dropped from it
  lies more than a window before `now`. So at a push either the deque is short and
  the grant one limit ago was dropped, or a sleep has made it old enough: the
  clock at the end of the sleep is past the oldest time and the window. The
  implementation follows with the same invariant, one step at a time: every step
  but `Tick` and `Push` leaves `clock` and `granted` alone.
* **Pager.** What was received is descending and lies at or above `to`; a page not
  yet taken lies below it; a due bar at or above `to` was received *as confirmed*,
  so dropping a last entry that is not confirmed loses none of them. A due bar
  below `to` is still on offer, since closed bars stay closed, and is in the next
  page or older than all of it. A page goes down at least one bar for each of its
  entries (`DescendingFits`), which is why the requests shrink. What is not
  confirmed was the newest bar of the exchange when its page came, and nothing
  received is newer than the open bar: so it came first and with nothing before
  it. What a writer was given is, candle by candle, what was received without the
  candles that were not confirmed, and this holds between any two pages, so also
  when a page or the writer throws; every due bar at or above `to` is among it.
* **Manager.** The handle again: the destructor of the client leaves only with no
  thread or a thread that has ended, and no step revives it. For freshness: the
  last candle of a stream is in the table, which needs that the channel of each
  bar size leads back to it (`ChannelLeadsBack`), and a read began in the past. A
  step of the manager is a step of its client or leaves the client alone, so the
  client's theorems are used as they stand.
* **Connector.** A request younger than the least time belongs to a task that
  still has its permit, and each such task has one request of that age. If the last
  *Slots* requests are all that young, all permits are taken and no further request
  begins; so of *Slots* + 1 requests in a row the first is old. Three of the code's permits and 344 ms between a request and the third after
  it make 2064 ms for eighteen. After a failure,
  whose task gives its permit back at once, this is no longer so, and the history
  stops. That the rates are whole counts tasks instead: the results are the taken
  tasks, each once, so as many results as tasks means that all were taken.
* **Bulk market data.** The invariant ties the three variables of the parser to
  the lines read so far: the flag says that all of them are empty, the set has the
  times of the wanted lines, the entries are the first line of each time. The
  lines before a new one keep their roles, so one step is one line. Entries and
  first lines are in bijection, which makes the counts of `DownloadsAreWhole` agree.
* **Requests.** A request is followed from the call that wrote it: a call writes
  one, numbers tell calls apart, and an order is taken by handling its request,
  which then is gone. For the reload: the list of the answer is as new as the call,
  and it is what the cache holds until someone else stores a list, which marks the
  call as overtaken. A price in flight is a rounding of the one asked for, at most
  half a unit away, and a unit above 1 is at most a hundredth of the price. Rounding keeps
  the order (`RoundedKeepsOrder`): with the same unit it is monotone, and with a larger one
  the power of ten lies between the two.

Only model-checked: the liveness properties (`PendingIsServed`,
`CancelledIsReleased`, `FlagDownStartsContext`, `StopIsHonoured`, `EveryReadEnds`,
`EveryCallIsGranted`, `DownloadEnds`, `EveryBatchEnds`), which TLAPS cannot do under
fairness; of `DownloadEnds` the measure that goes down is proved
(`DownloadsShrink`). Every invariant and action property that a passing run checks is proved.

## 6. Disagreements between the code and what is said of it

* `session_overwrite`: the slot holds one request, and a second `subscribe()`
  before the next message replaces it. While a connection opens this is the
  normal case for an application that subscribes two streams in a row.
* `session_zombie`: `onWrite()` returns on an error without cancelling the timer,
  and an expired wait cannot be cancelled. The timer then arms itself for ever and
  keeps the session alive; the client goes on giving it requests.
* `client_lost_wakeup`: between the return of `ioContext.run()` and
  `isRunning = false`, `run()` for a new session returns at once, and nobody runs
  the context.
* `pager_unconfirmed`: pages are appended newest first, so `retVal.back()` at line
  202 is the oldest candle. The open one is returned.
* `marketdata_malformed`: the parser of candles skips a line of fewer than ten
  fields, or whose numbers do not convert, and returns the rest;
  `okx_market_data_utils.h:30` says that it throws if parsing fails, and line 27
  describes lines of nine fields.

## 7. Observations that no run states

Behaviours of the models that no document of the repository speaks of, or that
repeat one above:

* A subscription written while a ping or close holds the stream is read from a
  local string after `onRead` has returned (`okx_ws_session.cpp:202`).
* A request repeated before its answer is subscribed twice (line 44). So is one that
  was answered and is repeated in other words than `dump()`'s: texts are compared.
* `subscribe("")`, which `run("")` would refuse (line 284), empties the slot. Before
  the handshake an empty frame is then the first that is sent.
* A request that is no JSON, or no subscription, throws out of `onHandshake()` (lines
  62 and 151): the stream is open, neither read nor written, and the timer, which was
  armed before, keeps it and the session alive.
* `close()` before the handshake has ended fails at once; the connection opens
  and stays (line 297).
* Without a log callback the first log call ends the reading of a stream that
  stays open (line 79 and others), although `okx_ws_client.h:39` says that errors
  then go to stderr. The properties about open streams are therefore conditional
  on `app.logs`.
* A session can be destroyed while the handler of a ping or of a close, which hold
  only `this`, is still to run (lines 225, 236 and 214). What it then does is
  undefined; the model lets it end without effect on what is checked.
* A peer that no longer answers pings is logged and kept (line 219).
* `isRunning` is cleared twice (`okx_ws_client.cpp:71, 80`): the second one can
  wipe the mark of a `run()` that waits for the old thread, after which another
  `run()` blocks in `join` for as long as the context runs.
* The `stop()` of the client's destructor can be undone by `restart()` (line 68)
  of a thread that starts or whose handler threw; the join then has no end.
* `wait()` stamps a request before it is sent: the grants keep the rate, the
  requests themselves can be closer (`okx_rest_client.cpp:359`).
* With *from* = -1 the request carries no `after` (lines 155 and 226): every page
  is the newest one and the loop never ends, unless the first page is empty. No
  document says what *from* = -1 means, so the properties are about downloads with a
  *from*. `MaxResult` cuts the others off.
* Only the newest candle of a result can be one that was not closed
  (`OnlyNewestIsOpen`): testing `retVal.front()` at line 202 would be enough.
* `limit` limits a page and not the result, as the comment in `okx_rest_client.h`
  has it.
* A writer can be given an empty vector, and is given the open candle like the
  result.
* A ticker is stored only if there is none for the instrument
  (`okx_ws_stream_manager.cpp:44`): every later read returns the first one. So only
  candles are checked for freshness.
* A reader that is inside when the manager is destroyed is not waited for.
* A read gives up after 3 ms times 100 tries per second of the timeout, which is
  less than a third of the timeout.
* The callback dereferences the result of `enum_cast` without a test
  (`okx_ws_stream_manager.cpp:66-68`): a channel that the enum does not have is
  undefined behaviour. Only channels of the enum are ever subscribed.

Connector (`okx_futures_exchange_connector.cpp`):

* A request that fails gives its permit back without the sleep (line 50), so the
  rate is promised only while none has failed. Then the exception reaches the worker
  through `future.get()` (line 79), and the process is terminated with
  `isRunning` still up. So is it by a failing request for the instruments.
* Two threads that call `getFundingRates()` at once can both find the flag down
  (lines 141 to 151), and the copies at lines 142 and 156 race with the store of
  the worker at line 152. The model has one owner, whose copies it leaves out.
* `login()` replaces the `RESTClient` that a worker may be using (lines 113 to 118).
* `exchangeId()` gives the name of another exchange, `MEXCFutures` (line 102).
* `requestsDone++` is not synchronised; it is only logged.

Requests (`okx_rest_client.cpp`, `okx_http_session.cpp`, `okx_models.cpp`):

* The cache does not know its type: `getInstruments(SWAP)` after
  `getInstruments(SPOT)` returns the SPOT list (line 132). Two callers can both find
  it empty, and a forced reload can return what another thread stored after it.
* After an exception that comes later than the write the caller cannot know
  whether its order stands; nothing is retried, and `clOrdId` is the caller's.
* An error code of the exchange throws before the order's own `sCode` and `sMsg`
  are read.
* A limit price keeps three significant digits (`okx_models.cpp:340`) while the
  size keeps all: 12345 is sent as 1.23e+04. `PricesKeepOrder` says how near that is;
  no document says that it should be equal.
* A `post()` with `isPublic` sends no body. No caller uses it.
* Blocking requests have no timeout.

Bulk market data (`okx_market_data_utils.cpp`):

* The exception of the allocation (line 67), whose size comes from the archive,
  passes the three releases by; sizes are cast to `int32_t`, one read is assumed to
  be all, and the result of `entry_close`, which has the checksum, is not looked at.
* A first line that does not begin with a digit is dropped as a header whether it
  is one or not. A time that cannot be read is kept as 0.
* Duplicates are dropped in a file and not between files.

Bar sizes: a month is found for 28 days and a quarter for 84
(`isValidBarSize`), and they last 30 and 90 (`numberOfMsForBarSize`).

## 8. What is not modelled

* Of `HTTPSession`: signing, headers, TLS. Its steps, and their failures, are in
  `RESTClient`, `MarketData` (`RequestFails`) and `HistoryPager` (`GetPageThrows`).
* JSON and enums: the modules use their outcome (a message of a kind, a list, an
  entry, an exception). Of the models only the price of an order is a number.
* Decompression and the format of an archive, which are minizip's.
* `isSubscribed` changes no state; the manager's use of it is the choice in
  `SubscribeStream`.
* Data races as such: a step is atomic. `timeout` of the manager is an `int` that
  several threads use without synchronisation; its model gives old or new values.
  The vector that the connector copies while its worker stores it is in section 7.
* Jumps of `system_clock`: the limiter's clock only goes forward. After a jump
  back during a sleep line 61 pops nothing, the deque holds one time more than
  `limit`, and every later request under load waits for the first of them only: one
  request too many per window, until the limiter has been idle for a window. After
  a jump forward times are dropped early, once.
* `login` while a worker runs, and two threads that own one connector: undefined in
  the code, which guards neither.
* Operations that throw "Unimplemented", getters of the connector that forward one
  request, and `setLoggerCallback` after the first call.

## 9. Plan

Done: `WebSocketSession` with `Subscriptions`, `WebSocketClient`,
`WSStreamManager` with `BarSizes`, `RateLimiter` and `FundingRateBatch` with
`SlidingWindow`, `FuturesConnector`, `HistoryPager`, `RESTClient`, `MarketData`;
and the proof of every invariant and action property.

Left:

1. Composition of session and client: release of the one is `IoSessionEnds` of the
   other, and a new session is opened by the next `subscribe`.
2. The limiter inside the requests of several threads: one clock for grants and
   sends, with the delay of a request bounded, would give a rate of requests.
