----------------------------- MODULE MarketData -----------------------------
(***************************************************************************)
(* Bulk market data: RESTClient::downloadAndParseHistoricalCandles()       *)
(* (src/src/okx_rest_client.cpp) asks for a list of files, downloads them  *)
(* one after the other, takes the first entry out of each archive and      *)
(* parses it line by line (src/src/okx_market_data_utils.cpp).  For        *)
(* funding rates the application makes the same calls itself, with         *)
(* parseFundingRateCsv() in the place of parseCandlesCsv().                *)
(*                                                                         *)
(* A line is what the parsers look at in it: how many fields it has,       *)
(* whether it begins with a digit, whether its numbers can be converted,   *)
(* the time in each field that may hold it (0 if it is no number) and the  *)
(* confirm flag.  An archive's handles are released by hand.               *)
(***************************************************************************)
EXTENDS Naturals, Sequences, FiniteSets
LOCAL INSTANCE TLC

CONSTANTS
  Lines,      \* the lines of a file
  MaxLines,   \* bound: lines of a file
  MaxFiles    \* bound: files of a history

TimeFields == {2, 3, 8}

Line == [fields : Nat, digit : BOOLEAN, numbers : BOOLEAN, confirm : BOOLEAN,
         time : [TimeFields -> Nat]]

ASSUME MarketDataAssumption ==
  Lines \subseteq Line /\ MaxLines \in Nat /\ MaxFiles \in Nat

VARIABLES
  kind,       \* which of the two parsers
  stage,      \* how far the download is
  files,      \* the files still to download, with the current one
  handles,    \* what extractZip() holds open
  lines,      \* history: the lines read of the current file
  firstLine,  \* isFirstLine
  seen,       \* seenTimestamps
  entries,    \* what was parsed of the current file; line is a history
  result,     \* allCandles
  expected    \* history: how many entries the files parsed so far have

vars == <<kind, stage, files, handles, lines, firstLine, seen, entries, result, expected>>

ExtractSteps == <<"createStream", "createReader", "openArchive", "firstEntry", "entryInfo",
                  "allocate", "openEntry", "readEntry">>

Extracting == {ExtractSteps[i] : i \in 1..8}

Entry == [line : Nat, time : Nat]

TypeOK ==
  /\ kind \in {"candles", "rates"}
  /\ stage \in {"ask", "download", "parse", "sort", "done", "failed"} \cup Extracting
  /\ files \in Nat
  /\ handles \subseteq {"stream", "reader", "archive", "entry"}
  /\ lines \in Seq(Lines)
  /\ firstLine \in BOOLEAN
  /\ seen \subseteq Nat
  /\ entries \in Seq(Entry) /\ result \in Seq(Entry)
  /\ expected \in Nat

Init ==
  /\ kind \in {"candles", "rates"}
  /\ stage = "ask" /\ files = 0 /\ handles = {}
  /\ lines = <<>> /\ firstLine = TRUE /\ seen = {} /\ entries = <<>>
  /\ result = <<>> /\ expected = 0

-----------------------------------------------------------------------------
(* The download.                                                           *)

fileVars == <<lines, firstLine, seen, entries>>

\* The files of all the groups of the history, in order.
GetHistory(n) ==
  /\ stage = "ask"
  /\ files' = n
  /\ stage' = IF n = 0 THEN "sort" ELSE "download"
  /\ UNCHANGED <<kind, handles, fileVars, result, expected>>

DownloadFile ==
  /\ stage = "download"
  /\ stage' = "createStream"
  /\ UNCHANGED <<kind, files, handles, fileVars, result, expected>>

\* The exception leaves the call, with all that was parsed before.
RequestFails ==
  /\ stage \in {"ask", "download"}
  /\ stage' = "failed"
  /\ result' = <<>>
  /\ UNCHANGED <<kind, files, handles, fileVars, expected>>

-----------------------------------------------------------------------------
(* extractZip().                                                           *)

Opened(step) ==
  CASE step = "createStream" -> {"stream"}
    [] step = "createReader" -> {"reader"}
    [] step = "openArchive"  -> {"archive"}
    [] step = "openEntry"    -> {"entry"}
    [] OTHER                 -> {}

\* Mutant: the entry is left open when it cannot be read.
MutReleased(step) ==
  CASE step \in {"createStream", "allocate"} -> {}
    [] step = "createReader" -> {"stream"}
    [] step = "openArchive"  -> {"reader", "stream"}
    [] OTHER                 -> {"archive", "reader", "stream"}

\* What is released before the exception: nothing when the buffer cannot be
\* allocated, which is the one exception that is not thrown here.
Released(step) ==
  CASE step \in {"createStream", "allocate"} -> {}
    [] step = "createReader" -> {"stream"}
    [] step = "openArchive"  -> {"reader", "stream"}
    [] step = "readEntry"    -> {"entry", "archive", "reader", "stream"}
    [] OTHER                 -> {"archive", "reader", "stream"}

ExtractStep(i) ==
  /\ stage = ExtractSteps[i]
  /\ handles' = IF i = 8 THEN {} ELSE handles \cup Opened(stage)
  /\ stage' = IF i = 8 THEN "parse" ELSE ExtractSteps[i + 1]
  /\ lines' = <<>> /\ firstLine' = TRUE /\ seen' = {} /\ entries' = <<>>
  /\ UNCHANGED <<kind, files, result, expected>>

ExtractFails ==
  /\ stage \in Extracting
  /\ handles' = handles \ Released(stage)
  /\ stage' = "failed"
  /\ result' = <<>>
  /\ UNCHANGED <<kind, files, fileVars, expected>>

-----------------------------------------------------------------------------
(* parseCandlesCsv() and parseFundingRateCsv().                            *)

\* A candle has its time in its ninth field, a rate in its fourth or, if it has
\* only three, in the third.
TimeOf(line) ==
  line.time[IF kind = "candles" THEN 8 ELSE IF line.fields >= 4 THEN 3 ELSE 2]

\* A line that makes an entry, unless there is one of the same time.
Usable(line) ==
  /\ line.fields >= IF kind = "candles" THEN 10 ELSE 3
  /\ line.numbers
  /\ kind = "candles" => line.confirm

IsHeader(line) == firstLine /\ ~line.digit

\* Mutant: the times of the lines are not remembered.
MutReadLine(line) ==
  /\ stage = "parse"
  /\ Len(lines) < MaxLines
  /\ lines' = Append(lines, line)
  /\ firstLine' = (firstLine /\ line.fields = 0)
  /\ IF line.fields > 0 /\ ~IsHeader(line) /\ Usable(line)
     THEN entries' = Append(entries, [line |-> Len(lines) + 1, time |-> TimeOf(line)])
     ELSE UNCHANGED entries
  /\ UNCHANGED <<kind, stage, files, handles, seen, result, expected>>

\* An empty line is skipped before anything else.
ReadLine(line) ==
  /\ stage = "parse"
  /\ Len(lines) < MaxLines
  /\ lines' = Append(lines, line)
  /\ firstLine' = (firstLine /\ line.fields = 0)
  /\ IF line.fields > 0 /\ ~IsHeader(line) /\ Usable(line) /\ TimeOf(line) \notin seen
     THEN /\ seen' = seen \cup {TimeOf(line)}
          /\ entries' = Append(entries, [line |-> Len(lines) + 1, time |-> TimeOf(line)])
     ELSE UNCHANGED <<seen, entries>>
  /\ UNCHANGED <<kind, stage, files, handles, result, expected>>

\* The lines that the result must have an entry for: those that are usable, and
\* not the first of the file that is not empty if it may be a header, and for
\* each time the first of them.
MayBeHeader(k) == ~lines[k].digit /\ \A j \in 1..k - 1 : lines[j].fields = 0

Wanted == {k \in 1..Len(lines) : lines[k].fields > 0 /\ Usable(lines[k]) /\ ~MayBeHeader(k)}

FirstOfTheirTime ==
  {k \in Wanted : \A j \in Wanted : j < k => TimeOf(lines[j]) # TimeOf(lines[k])}

\* Mutant: the entries of the last file only.
MutEndOfFile ==
  /\ stage = "parse"
  /\ result' = entries
  /\ expected' = expected + Cardinality(FirstOfTheirTime)
  /\ files' = files - 1
  /\ stage' = IF files = 1 THEN "sort" ELSE "download"
  /\ UNCHANGED <<kind, handles, fileVars>>

EndOfFile ==
  /\ stage = "parse"
  /\ result' = result \o entries
  /\ expected' = expected + Cardinality(FirstOfTheirTime)
  /\ files' = files - 1
  /\ stage' = IF files = 1 THEN "sort" ELSE "download"
  /\ UNCHANGED <<kind, handles, fileVars>>

Ascending(s) == \A j, k \in 1..Len(s) : j <= k => s[j].time <= s[k].time

\* Candles of the same time, which come from different files, are left in any
\* order; rates are not sorted.
Sort ==
  /\ stage = "sort"
  /\ IF kind = "candles"
     THEN \E p \in Permutations(1..Len(result)) :
            LET sorted == [k \in 1..Len(result) |-> result[p[k]]]
            IN  Ascending(sorted) /\ result' = sorted
     ELSE UNCHANGED result
  /\ stage' = "done"
  /\ UNCHANGED <<kind, files, handles, fileVars, expected>>

Next ==
  \/ \E n \in 0..MaxFiles : GetHistory(n)
  \/ DownloadFile \/ RequestFails
  \/ (\E i \in 1..8 : ExtractStep(i)) \/ ExtractFails
  \/ \E line \in Lines : ReadLine(line)
  \/ EndOfFile \/ Sort

Spec == Init /\ [][Next]_vars

-----------------------------------------------------------------------------
\* extractZip() leaves no handle open, whichever of its steps fails: but for the
\* allocation of the buffer, whose exception passes the releases by.
HandlesAreReleased ==
  [][(stage \in Extracting) /\ stage' \notin Extracting
       => handles' = {} \/ stage = "allocate"]_vars

\* At every line the parser has exactly one entry for each time of the lines that
\* can be read, made of the first line with that time, in the order of the file:
\* an entry is neither lost to a line that was skipped before it nor doubled.
\* That a line which cannot be read is skipped is not what this asks for (see
\* MalformedIsReported).
EveryTimeOnce ==
  /\ {entries[k].line : k \in 1..Len(entries)} = FirstOfTheirTime
  /\ \A j, k \in 1..Len(entries) : j < k => entries[j].line < entries[k].line
  /\ \A k \in 1..Len(entries) : entries[k].time = TimeOf(lines[entries[k].line])

\* The call returns the entries of every file of the history, candles in
\* ascending order, or nothing at all.
ResultIsWhole ==
  /\ stage = "done" => Len(result) = expected /\ files = 0
  /\ stage = "done" /\ kind = "candles" => Ascending(result)
  /\ stage = "failed" => result = <<>>

(* What the documentation says, and the code does not do.                  *)

\* "@throws std::runtime_error if CSV parsing fails" (okx_market_data_utils.h):
\* a file is left for the next step only if every line of it but a header could
\* be parsed.
MalformedIsReported ==
  [][stage = "parse" /\ stage' \in {"download", "sort"} /\ kind = "candles" =>
       \A k \in 1..Len(lines) : lines[k].fields > 0 /\ ~MayBeHeader(k) =>
         lines[k].fields >= 10 /\ lines[k].numbers]_vars
=============================================================================
