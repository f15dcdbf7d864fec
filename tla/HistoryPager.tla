---------------------------- MODULE HistoryPager ----------------------------
(***************************************************************************)
(* The paged downloads of src/src/okx_rest_client.cpp: getHistoricalPrices *)
(* with and without a writer, and getFundingRates.  The exchange answers   *)
(* with the newest entries older than "after" and newer than "before";     *)
(* the next page is asked for with the time of the oldest entry received.  *)
(*                                                                         *)
(* A time is a number of bars.  Bars close while the pages are fetched:    *)
(* the bar that is open is not confirmed.                                  *)
(***************************************************************************)
EXTENDS Integers, Sequences, SequencesExt

CONSTANTS
  Times,      \* the values of from and to; -1 stands for "not given"
  PageSize,   \* the most entries that come in a page
  Start,      \* the bar that is open at first
  MaxTime,    \* bound: the last bar to open
  MaxResult   \* bound: entries received, for a download that never ends

ASSUME PagerAssumption ==
  /\ Times \subseteq Int
  /\ PageSize \in Nat \ {0}
  /\ Start \in Nat /\ MaxTime \in Nat /\ MaxResult \in Nat

VARIABLES
  closed, open,   \* the exchange: the bars that are closed, the open one
  query,          \* the arguments of the call
  pc,
  to,             \* the end of the next page
  page,           \* candles (rates): the page received last
  retVal,
  written,        \* history: what the writer was given
  due             \* history: the bars closed when the first page was sent

vars == <<closed, open, query, pc, to, page, retVal, written, due>>

Entry == [ts : Nat, confirm : BOOLEAN]
Query == [kind : {"candles", "written", "rates"}, from : Times, to : Times]

\* Newest first.
Descending(s) == \A i, j \in 1..Len(s) : i < j => s[i].ts > s[j].ts

TypeOK ==
  /\ closed \subseteq Nat /\ open \in Nat
  /\ query \in Query
  /\ pc \in {"request", "page", "done", "failed"}
  /\ to \in Int
  /\ page \in Seq(Entry) /\ retVal \in Seq(Entry) /\ written \in Seq(Entry)
  /\ due \subseteq Nat

Init ==
  /\ open = Start /\ closed \in SUBSET (0..Start - 1)
  /\ query \in Query
  /\ pc = IF query.from < query.to THEN "request" ELSE "page"
  /\ to = query.to
  /\ page = <<>> /\ retVal = <<>> /\ written = <<>>
  /\ due = {}

-----------------------------------------------------------------------------
(* The exchange.                                                           *)

BarCloses ==
  /\ open < MaxTime
  /\ closed' = closed \cup {open}
  /\ open' = open + 1
  /\ UNCHANGED <<query, pc, to, page, retVal, written, due>>

\* The code gives "after" when from is given, and "before" when to is.
Within(ts) ==
  /\ query.from # -1 => ts < to
  /\ query.to # -1 => ts > query.from

\* Funding rates are of times that have passed.
Entries ==
  { e \in {[ts |-> t, confirm |-> TRUE] : t \in closed}
          \cup {[ts |-> open, confirm |-> FALSE]} :
    Within(e.ts) /\ (query.kind = "rates" => e.confirm) }

\* A page has the newest of the entries, and is empty only if there are none.
IsPage(p) ==
  /\ Descending(p)
  /\ p = <<>> => Entries = {}
  /\ \A e \in Entries : (\E i \in 1..Len(p) : p[i] = e) \/ e.ts < p[Len(p)].ts

Pages == { p \in UNION {[1..n -> Entries] : n \in 0..PageSize} : IsPage(p) }

-----------------------------------------------------------------------------
(* One page: the request waits for the rate limiter and is sent.           *)

GetPage ==
  /\ pc = "request"
  /\ Len(retVal) <= MaxResult
  /\ page' \in Pages
  /\ due' = IF retVal = <<>> THEN {t \in closed : Within(t)} ELSE due
  /\ pc' = "page"
  /\ UNCHANGED <<closed, open, query, to, retVal, written>>

\* The transport, the status, the code of the answer or its JSON is bad: the
\* exception leaves the call, with everything received.
GetPageThrows ==
  /\ pc = "request"
  /\ pc' = "failed"
  /\ UNCHANGED <<closed, open, query, to, page, retVal, written, due>>

\* Mutant: the writer is given all that was received so far.
MutToWriteAll(p) == retVal \o p

\* The writer is not given the last entry of a page when it is not confirmed.
ToWrite(p) == IF Last(p).confirm THEN p ELSE Front(p)

\* Mutant: the next page ends where the first one did.
MutNextToFixed(p) == query.to

\* Mutant: the next page ends at the newest entry of this one.
MutNextToFront(p) == Head(p).ts

NextTo(p) == Last(p).ts

\* Mutant: the page replaces what was received before.
MutReceivedAssign(p) == p

\* Mutant: the page goes before what was received.
MutReceivedFirst(p) == p \o retVal

Received(p) == retVal \o p

TakePage ==
  /\ pc = "page"
  /\ page # <<>>
  /\ retVal' = Received(page)
  /\ written' = IF query.kind = "written" THEN written \o ToWrite(page) ELSE written
  /\ to' = NextTo(page)
  /\ page' = <<>>
  /\ pc' = IF query.from < NextTo(page) THEN "request" ELSE "page"
  /\ UNCHANGED <<closed, open, query, due>>

\* The writer throws.
WriterThrows ==
  /\ pc = "page"
  /\ page # <<>>
  /\ query.kind = "written"
  /\ pc' = "failed"
  /\ UNCHANGED <<closed, open, query, to, page, retVal, written, due>>

\* What is left of the candles: the last one received is dropped when it is
\* not confirmed.
Kept ==
  IF query.kind # "rates" /\ retVal # <<>> /\ ~Last(retVal).confirm
  THEN Front(retVal)
  ELSE retVal

\* An empty page ends the loop; the result is returned oldest first.
Return ==
  /\ pc = "page"
  /\ page = <<>>
  /\ retVal' = Reverse(Kept)
  /\ pc' = "done"
  /\ UNCHANGED <<closed, open, query, to, page, written, due>>

-----------------------------------------------------------------------------
Download == GetPage \/ GetPageThrows \/ TakePage \/ WriterThrows \/ Return

Next == BarCloses \/ Download

Spec == Init /\ [][Next]_vars

\* The call is not left hanging by the exchange, and the thread goes on.  That
\* something throws is possible and never relied on.
FairSpec == Spec /\ WF_vars(GetPage \/ TakePage \/ Return)

-----------------------------------------------------------------------------
(* Safety.  Without "from" every page is the newest one, and a download    *)
(* that receives something has no end: the properties are about downloads  *)
(* with a from.                                                            *)

FromGiven == query.from # -1

\* The result goes from the oldest to the newest entry, and has none twice:
\* pages do not overlap, although bars close while they are fetched.
ResultAscends ==
  pc = "done" /\ FromGiven =>
    \A i, j \in 1..Len(retVal) : i < j => retVal[i].ts < retVal[j].ts

\* No bar of the interval is left out between two pages, and none outside is
\* returned: whatever the size of the pages.
ResultIsComplete ==
  pc = "done" /\ FromGiven =>
    /\ \A t \in due : \E i \in 1..Len(retVal) : retVal[i].ts = t
    /\ \A i \in 1..Len(retVal) : query.from < retVal[i].ts /\ retVal[i].ts < query.to

\* A writer is given every confirmed candle that was received once, newest
\* first, and no candle twice, whether the call returns or leaves with the
\* exception of a request or of the writer.  None is missing: of the interval
\* when it returns, and of what is above to when it fails, so that a failed
\* download can be taken up where it stopped.
WriterGetsResult ==
  pc \in {"done", "failed"} /\ FromGiven /\ query.kind = "written" =>
    /\ Descending(written)
    /\ \A i \in 1..Len(retVal) :
         retVal[i].confirm => \E j \in 1..Len(written) : written[j] = retVal[i]
    /\ \A j \in 1..Len(written) : \E i \in 1..Len(retVal) : written[j] = retVal[i]
    /\ \A t \in due :
         pc = "done" \/ to <= t => \E j \in 1..Len(written) : written[j].ts = t

\* Every request asks for less of the interval: by a bar, at the least, for
\* each entry received so far, and never for nothing.  A download therefore
\* sends at most as many requests as its interval has bars.
RequestsShrink ==
  pc = "request" /\ FromGiven =>
    query.from < to /\ to + Len(retVal) <= query.to

\* A candle that was open when its page came is the newest of the result: it
\* comes first in the first page, no later page has one, and no candle is
\* received again when it has closed.
OnlyNewestIsOpen ==
  pc = "done" /\ FromGiven =>
    \A i \in 1..Len(retVal) : ~retVal[i].confirm => i = Len(retVal)

(* Liveness.                                                               *)

\* The download ends: every page is older than the one before, and no bar that
\* closes meanwhile is added to it.
DownloadEnds == FromGiven ~> pc \in {"done", "failed"}

(* What a comment says, and the code does not do.                          *)

\* "Remove last candle if it is not valid" (okx_rest_client.cpp): the candles
\* that are returned are confirmed.
ResultIsConfirmed ==
  pc = "done" => \A i \in 1..Len(retVal) : retVal[i].confirm
=============================================================================
