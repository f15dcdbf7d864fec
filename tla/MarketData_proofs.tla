------------------------- MODULE MarketData_proofs -------------------------
(***************************************************************************)
(* Proofs about MarketData, for all lines, files of any length and any     *)
(* number of files.                                                        *)
(*                                                                         *)
(* What the parser has made of the lines so far is a fact about every      *)
(* prefix of the file, so the invariant ties its three variables to the    *)
(* lines read: the flag says that all of them are empty, the set has the   *)
(* times of the lines that are wanted, and the entries are the first line  *)
(* of each of those times.  The lines before a new one keep their roles.   *)
(***************************************************************************)
EXTENDS MarketData, FiniteSetTheorems, TLAPS

ParserTypes ==
  /\ kind \in {"candles", "rates"}
  /\ lines \in Seq(Line)
  /\ firstLine \in BOOLEAN
  /\ entries \in Seq(Entry)

FirstLineInv == firstLine <=> \A j \in 1..Len(lines) : lines[j].fields = 0

SeenInv == seen = {TimeOf(lines[k]) : k \in Wanted}

ParserInv == ParserTypes /\ FirstLineInv /\ SeenInv /\ EveryTimeOnce

LEMMA LinesAreTyped ==
  ASSUME NEW s \in Seq(Line), NEW k \in 1..Len(s)
  PROVE  /\ s[k] \in Line /\ s[k].fields \in Nat /\ s[k].digit \in BOOLEAN
         /\ s[k].numbers \in BOOLEAN /\ s[k].confirm \in BOOLEAN
         /\ \A i \in TimeFields : s[k].time[i] \in Nat
<1>1. s[k] \in Line
  OBVIOUS
<1> QED
  BY <1>1 DEF Line

LEMMA TimeIsNat == ASSUME NEW l \in Line PROVE TimeOf(l) \in Nat
BY DEF TimeOf, Line, TimeFields

LEMMA EmptyParser ==
  ASSUME lines = <<>>, firstLine = TRUE, seen = {}, entries = <<>>, kind \in {"candles", "rates"}
  PROVE  ParserInv
<1>1. Len(lines) = 0 /\ Len(entries) = 0 /\ lines \in Seq(Line) /\ entries \in Seq(Entry)
  OBVIOUS
<1>2. Wanted = {} /\ FirstOfTheirTime = {}
  BY <1>1 DEF Wanted, FirstOfTheirTime
<1> QED
  BY <1>1, <1>2 DEF ParserInv, ParserTypes, FirstLineInv, SeenInv, EveryTimeOnce

LEMMA EmptyParserNext ==
  ASSUME lines' = <<>>, firstLine' = TRUE, seen' = {}, entries' = <<>>,
         kind' \in {"candles", "rates"}
  PROVE  ParserInv'
<1>1. Len(lines') = 0 /\ Len(entries') = 0 /\ lines' \in Seq(Line) /\ entries' \in Seq(Entry)
  OBVIOUS
<1>2. Wanted' = {}
  BY <1>1 DEF Wanted
<1>3. FirstOfTheirTime' = {}
  BY <1>2 DEF FirstOfTheirTime
<1> QED
  BY <1>1, <1>2, <1>3 DEF ParserInv, ParserTypes, FirstLineInv, SeenInv, EveryTimeOnce

LEMMA ParserStutters ==
  ASSUME ParserInv, UNCHANGED <<kind, fileVars>> PROVE ParserInv'
<1>1. UNCHANGED kind /\ UNCHANGED lines /\ UNCHANGED firstLine /\ UNCHANGED seen
      /\ UNCHANGED entries
  BY DEF fileVars
<1>2. \A l : TimeOf(l)' = TimeOf(l) /\ (Usable(l)' <=> Usable(l))
  BY <1>1 DEF TimeOf, Usable
<1>3. Wanted' = Wanted
  BY <1>1, <1>2 DEF Wanted, MayBeHeader
<1>4. FirstOfTheirTime' = FirstOfTheirTime
  BY <1>1, <1>2, <1>3 DEF FirstOfTheirTime
<1> QED
  BY <1>1, <1>2, <1>3, <1>4
  DEF ParserInv, ParserTypes, FirstLineInv, SeenInv, EveryTimeOnce

LEMMA AddTop ==
  ASSUME NEW n \in Nat, NEW A \in SUBSET (1..n), NEW B \in SUBSET (1..n + 1),
         NEW c \in BOOLEAN, \A k \in 1..n : k \in B <=> k \in A, n + 1 \in B <=> c
  PROVE  B = IF c THEN A \cup {n + 1} ELSE A
<1>1. \A k : k \in 1..n + 1 <=> k \in 1..n \/ k = n + 1
  OBVIOUS
<1> QED
  BY <1>1

\* A line is wanted if ReadLine() lets it through, and first of its time if that
\* time was not seen; what the earlier lines are does not change.
LEMMA NewLine ==
  ASSUME ParserInv, NEW line \in Line, ReadLine(line), NEW n \in Nat, n = Len(lines),
         NEW wanted \in BOOLEAN, wanted <=> (line.fields > 0 /\ ~IsHeader(line) /\ Usable(line))
  PROVE  /\ lines' \in Seq(Line) /\ Len(lines') = n + 1
         /\ lines'[n + 1] = line /\ \A k \in 1..n : lines'[k] = lines[k]
         /\ Wanted' = IF wanted THEN Wanted \cup {n + 1} ELSE Wanted
         /\ FirstOfTheirTime' = IF wanted /\ TimeOf(line) \notin seen
                                THEN FirstOfTheirTime \cup {n + 1} ELSE FirstOfTheirTime
<1> USE DEF ParserInv, ParserTypes
<1>1. /\ lines' \in Seq(Line) /\ Len(lines') = n + 1
      /\ lines'[n + 1] = line /\ \A k \in 1..n : lines'[k] = lines[k]
      /\ kind' = kind
  BY DEF ReadLine
<1>2. /\ \A l : TimeOf(l)' = TimeOf(l) /\ (Usable(l)' <=> Usable(l))
      /\ \A k : k \in 1..n + 1 <=> k \in 1..n \/ k = n + 1
  BY <1>1 DEF TimeOf, Usable
<1>3. \A k \in 1..n : MayBeHeader(k)' <=> MayBeHeader(k)
  BY <1>1 DEF MayBeHeader
<1>4. MayBeHeader(n + 1)' <=> IsHeader(line)
  <2>1. 1..(n + 1) - 1 = 1..n
    OBVIOUS
  <2>2. MayBeHeader(n + 1)' <=> ~line.digit /\ \A j \in 1..n : lines[j].fields = 0
    BY <1>1, <2>1 DEF MayBeHeader
  <2> QED
    BY <2>2 DEF IsHeader, FirstLineInv
<1>5. Wanted' = IF wanted THEN Wanted \cup {n + 1} ELSE Wanted
  <2>1. \A k \in 1..n : k \in Wanted' <=> k \in Wanted
    BY <1>1, <1>2, <1>3 DEF Wanted
  <2>2. n + 1 \in Wanted' <=> wanted
    BY <1>1, <1>2, <1>4 DEF Wanted
  <2>3. Wanted \subseteq 1..n /\ Wanted' \subseteq 1..n + 1
    BY <1>1 DEF Wanted
  <2> QED
    BY <2>1, <2>2, <2>3, AddTop
<1>6. Wanted \subseteq 1..n
  BY DEF Wanted
<1>7. \A k \in 1..n : k \in FirstOfTheirTime' <=> k \in FirstOfTheirTime
  BY <1>1, <1>2, <1>5, <1>6 DEF FirstOfTheirTime
<1>8. n + 1 \in FirstOfTheirTime' <=> wanted /\ TimeOf(line) \notin seen
  BY <1>1, <1>2, <1>5, <1>6 DEF FirstOfTheirTime, SeenInv
<1>9. FirstOfTheirTime \subseteq 1..n /\ FirstOfTheirTime' \subseteq 1..n + 1
  BY <1>1, <1>2, <1>5, <1>6 DEF FirstOfTheirTime
<1>10. FirstOfTheirTime' = IF wanted /\ TimeOf(line) \notin seen
                           THEN FirstOfTheirTime \cup {n + 1} ELSE FirstOfTheirTime
  <2>1. (wanted /\ TimeOf(line) \notin seen) \in BOOLEAN
    OBVIOUS
  <2> QED
    BY <1>7, <1>8, <1>9, <2>1, AddTop
<1> QED
  BY <1>1, <1>5, <1>10

LEMMA ReadLineInv ==
  ASSUME ParserInv, NEW line \in Line, ReadLine(line) PROVE ParserInv'
<1>0. PICK n \in Nat : n = Len(lines)
  BY DEF ParserInv, ParserTypes
<1> DEFINE wanted == line.fields > 0 /\ ~IsHeader(line) /\ Usable(line)
           taken == wanted /\ TimeOf(line) \notin seen
           new == [line |-> n + 1, time |-> TimeOf(line)]
<1> USE DEF ParserInv
<1>1. /\ n \in Nat /\ lines' \in Seq(Line) /\ Len(lines') = n + 1
      /\ lines'[n + 1] = line /\ \A k \in 1..n : lines'[k] = lines[k]
      /\ Wanted' = IF wanted THEN Wanted \cup {n + 1} ELSE Wanted
      /\ FirstOfTheirTime' = IF taken THEN FirstOfTheirTime \cup {n + 1} ELSE FirstOfTheirTime
  <2>1. wanted \in BOOLEAN
    OBVIOUS
  <2> QED
    BY <1>0, <2>1, NewLine
<1>2. /\ kind' = kind
      /\ firstLine' = (firstLine /\ line.fields = 0)
      /\ taken => seen' = seen \cup {TimeOf(line)} /\ entries' = Append(entries, new)
      /\ ~taken => UNCHANGED seen /\ UNCHANGED entries
  BY <1>0 DEF ReadLine
<1>3. \A l : TimeOf(l)' = TimeOf(l)
  BY <1>2 DEF TimeOf
<1>4. entries \in Seq(Entry) /\ new \in Entry /\ new.line = n + 1 /\ new.time = TimeOf(line)
  BY <1>1, TimeIsNat DEF Entry, ParserTypes
<1>5. Wanted \subseteq 1..n /\ FirstOfTheirTime \subseteq 1..n
  BY <1>0 DEF Wanted, FirstOfTheirTime
<1> HIDE DEF wanted, new
<1>6. ParserTypes' /\ FirstLineInv'
  <2>1. entries' \in Seq(Entry)
    BY <1>2, <1>4
  <2>2. FirstLineInv'
    <3>1. \A k : k \in 1..n + 1 <=> k \in 1..n \/ k = n + 1
      BY <1>1
    <3>2. (\A j \in 1..n + 1 : lines'[j].fields = 0) <=>
            line.fields = 0 /\ \A j \in 1..n : lines[j].fields = 0
      BY <1>1, <3>1
    <3> QED
      BY <1>0, <1>1, <1>2, <3>2 DEF FirstLineInv
  <2> QED
    BY <1>1, <1>2, <2>1, <2>2 DEF ParserTypes
<1>7. SeenInv'
  <2>1. {TimeOf(lines'[k]) : k \in Wanted} = seen
    BY <1>1, <1>5 DEF SeenInv
  <2>2. SeenInv' <=> seen' = {TimeOf(lines'[k]) : k \in Wanted'}
    BY <1>3 DEF SeenInv
  <2> QED
    BY <1>1, <1>2, <2>1, <2>2
<1>8. CASE taken
  <2> DEFINE m == Len(entries)
  <2>1. /\ m \in Nat /\ Len(entries') = m + 1 /\ entries'[m + 1] = new
        /\ \A k \in 1..m : entries'[k] = entries[k]
    BY <1>2, <1>4, <1>8
  <2>2. \A k \in 1..m : entries[k].line \in 1..n
    BY <1>5 DEF EveryTimeOnce
  <2>3. {entries'[k].line : k \in 1..m + 1} = FirstOfTheirTime'
    <3>1. \A k : k \in 1..m + 1 <=> k \in 1..m \/ k = m + 1
      BY <2>1
    <3>2. {entries'[k].line : k \in 1..m + 1} = {entries[k].line : k \in 1..m} \cup {n + 1}
      BY <1>4, <2>1, <3>1
    <3> QED
      BY <1>1, <1>8, <3>2 DEF EveryTimeOnce
  <2>4. ASSUME NEW j \in 1..m + 1, NEW k \in 1..m + 1, j < k
        PROVE  entries'[j].line < entries'[k].line
    <3>1. j \in 1..m /\ entries'[j] = entries[j] /\ entries[j].line \in 1..n
      BY <2>1, <2>2, <2>4
    <3>2. CASE k \in 1..m
      BY <2>1, <2>4, <3>1, <3>2 DEF EveryTimeOnce
    <3>3. CASE k = m + 1
      BY <1>4, <2>1, <3>1, <3>3
    <3> QED
      BY <2>1, <3>2, <3>3
  <2>5. \A k \in 1..m + 1 : entries'[k].time = TimeOf(lines'[entries'[k].line])
    BY <1>1, <1>4, <2>1, <2>2 DEF EveryTimeOnce
  <2>6. EveryTimeOnce'
    BY <1>3, <2>1, <2>3, <2>4, <2>5 DEF EveryTimeOnce
  <2> QED
    BY <1>6, <1>7, <2>6
<1>9. CASE ~taken
  <2>1. \A k \in 1..Len(entries) : entries[k].line \in 1..n
    BY <1>5 DEF EveryTimeOnce
  <2>2. EveryTimeOnce'
    BY <1>1, <1>2, <1>3, <1>9, <2>1 DEF EveryTimeOnce
  <2> QED
    BY <1>6, <1>7, <2>2
<1> QED
  BY <1>8, <1>9

-----------------------------------------------------------------------------
(* The download around the parser.                                         *)

\* What extractZip() holds at each of its steps.
HandlesInv ==
  /\ stage = "createStream" => handles = {}
  /\ stage = "createReader" => handles = {"stream"}
  /\ stage = "openArchive" => handles = {"stream", "reader"}
  /\ stage \in {"firstEntry", "entryInfo", "allocate", "openEntry"} =>
       handles = {"stream", "reader", "archive"}
  /\ stage = "readEntry" => handles = {"stream", "reader", "archive", "entry"}
  /\ stage \in {"ask", "download", "parse", "sort", "done"} => handles = {}

DownloadInv ==
  /\ stage \in {"ask", "download", "parse", "sort", "done", "failed"} \cup Extracting
  /\ HandlesInv
  /\ ParserInv

LEMMA Steps ==
  /\ Extracting = {"createStream", "createReader", "openArchive", "firstEntry", "entryInfo",
                   "allocate", "openEntry", "readEntry"}
  /\ ExtractSteps[1] = "createStream" /\ ExtractSteps[2] = "createReader"
  /\ ExtractSteps[3] = "openArchive" /\ ExtractSteps[4] = "firstEntry"
  /\ ExtractSteps[5] = "entryInfo" /\ ExtractSteps[6] = "allocate"
  /\ ExtractSteps[7] = "openEntry" /\ ExtractSteps[8] = "readEntry"
<1>1. /\ ExtractSteps[1] = "createStream" /\ ExtractSteps[2] = "createReader"
      /\ ExtractSteps[3] = "openArchive" /\ ExtractSteps[4] = "firstEntry"
      /\ ExtractSteps[5] = "entryInfo" /\ ExtractSteps[6] = "allocate"
      /\ ExtractSteps[7] = "openEntry" /\ ExtractSteps[8] = "readEntry"
  BY DEF ExtractSteps
<1>2. 1..8 = {1, 2, 3, 4, 5, 6, 7, 8}
  OBVIOUS
<1> QED
  BY <1>1, <1>2 DEF Extracting

LEMMA InitInv == Init => DownloadInv
BY EmptyParser DEF Init, DownloadInv, HandlesInv, Extracting

LEMMA ExtractStepInv ==
  ASSUME DownloadInv, NEW i \in 1..8, ExtractStep(i) PROVE DownloadInv'
<1>1. ParserInv'
  <2>1. kind \in {"candles", "rates"}
    BY DEF DownloadInv, ParserInv, ParserTypes
  <2>2. /\ lines' = <<>> /\ firstLine' = TRUE /\ seen' = {} /\ entries' = <<>>
        /\ kind' \in {"candles", "rates"}
    BY <2>1 DEF ExtractStep
  <2> QED
    BY <2>2, EmptyParserNext
<1>2. i \in {1, 2, 3, 4, 5, 6, 7, 8}
  OBVIOUS
<1>3. /\ stage = ExtractSteps[i]
      /\ handles' = IF i = 8 THEN {} ELSE handles \cup Opened(stage)
      /\ stage' = IF i = 8 THEN "parse" ELSE ExtractSteps[i + 1]
  BY DEF ExtractStep
<1>4. HandlesInv'
  BY <1>2, <1>3, Steps DEF DownloadInv, HandlesInv, Opened
<1>5. stage' \in {"parse"} \cup Extracting
  BY <1>2, <1>3, Steps
<1> QED
  BY <1>1, <1>4, <1>5 DEF DownloadInv

LEMMA NextInv == DownloadInv /\ [Next]_vars => DownloadInv'
<1> SUFFICES ASSUME DownloadInv, [Next]_vars PROVE DownloadInv'
  OBVIOUS
<1>1. CASE \E i \in 1..8 : ExtractStep(i)
  BY <1>1, ExtractStepInv
<1>2. CASE \E line \in Lines : ReadLine(line)
  <2>1. PICK line \in Line : ReadLine(line)
    BY <1>2, MarketDataAssumption
  <2> QED
    BY <2>1, ReadLineInv DEF DownloadInv, HandlesInv, ReadLine
<1>3. CASE \/ \E n \in 0..MaxFiles : GetHistory(n)
           \/ DownloadFile \/ RequestFails \/ ExtractFails \/ EndOfFile \/ Sort
           \/ UNCHANGED vars
  <2>1. UNCHANGED <<kind, fileVars>>
    BY <1>3 DEF GetHistory, DownloadFile, RequestFails, ExtractFails, EndOfFile, Sort, vars,
       fileVars
  <2>2. ParserInv'
    BY <2>1, ParserStutters DEF DownloadInv
  <2>3. HandlesInv' /\ stage' \in {"ask", "download", "parse", "sort", "done", "failed"} \cup Extracting
    BY <1>3, Steps DEF DownloadInv, HandlesInv, GetHistory, DownloadFile, RequestFails,
       ExtractFails, EndOfFile, Sort, vars
  <2> QED
    BY <2>2, <2>3 DEF DownloadInv
<1> QED
  BY <1>1, <1>2, <1>3 DEF Next

LEMMA DownloadInvariant == Spec => []DownloadInv
BY InitInv, NextInv, PTL DEF Spec

\* The parsers keep each time of the lines they want once, in the order of the
\* file, whatever lines a file has.
THEOREM ParserKeepsEveryTimeOnce == Spec => []EveryTimeOnce
<1>1. DownloadInv => EveryTimeOnce
  BY DEF DownloadInv, ParserInv
<1> QED
  BY <1>1, DownloadInvariant, PTL

\* extractZip() releases what it opened, but when the buffer is not allocated.
THEOREM ExtractReleasesHandles == Spec => HandlesAreReleased
<1>1. DownloadInv /\ [Next]_vars =>
        [(stage \in Extracting) /\ stage' \notin Extracting
           => handles' = {} \/ stage = "allocate"]_vars
  <2> SUFFICES ASSUME DownloadInv, Next, stage \in Extracting, stage' \notin Extracting
               PROVE  handles' = {} \/ stage = "allocate"
    OBVIOUS
  <2>1. CASE ExtractFails
    BY <2>1, Steps DEF ExtractFails, DownloadInv, HandlesInv, Released
  <2>2. CASE \E i \in 1..8 : ExtractStep(i)
    <3>1. PICK i \in {1, 2, 3, 4, 5, 6, 7, 8} : ExtractStep(i)
      BY <2>2
    <3> QED
      BY <3>1, Steps DEF ExtractStep
  <2>3. ExtractFails \/ \E i \in 1..8 : ExtractStep(i)
    BY Steps DEF Next, GetHistory, DownloadFile, RequestFails, ReadLine, EndOfFile, Sort
  <2> QED
    BY <2>1, <2>2, <2>3
<1> QED
  BY <1>1, DownloadInvariant, PTL DEF Spec, HandlesAreReleased

-----------------------------------------------------------------------------
(* What the call returns.                                                  *)

\* What was parsed is counted until it is sorted, and sorted when it is returned.
CountInv ==
  /\ stage \in {"ask", "download", "parse", "sort"} \cup Extracting => result \in Seq(Entry)
  /\ stage \in {"ask", "download", "parse", "sort", "done"} \cup Extracting =>
       expected \in Nat /\ Len(result) = expected
  /\ stage \in {"download", "parse"} \cup Extracting => files \in Nat \ {0}
  /\ stage \in {"sort", "done"} => files = 0
  /\ stage = "done" /\ kind = "candles" => Ascending(result)
  /\ stage = "failed" => result = <<>>

\* The entries are as many as the times they stand for.
LEMMA EntriesAreCounted ==
  ASSUME ParserInv PROVE Cardinality(FirstOfTheirTime) = Len(entries)
<1> DEFINE m == Len(entries)
           f == [k \in 1..m |-> entries[k].line]
<1>1. m \in Nat /\ entries \in Seq(Entry)
  BY DEF ParserInv, ParserTypes
<1>2. \A k \in 1..m : f[k] \in Nat
  <2> TAKE k \in 1..m
  <2>1. entries[k] \in Entry
    BY <1>1
  <2> QED
    BY <2>1 DEF Entry
<1>3. \A j, k \in 1..m : j < k => f[j] < f[k]
  BY DEF ParserInv, EveryTimeOnce
<1>4. \A j, k \in 1..m : f[j] = f[k] => j = k
  BY <1>1, <1>2, <1>3
<1>5. {entries[k].line : k \in 1..m} = FirstOfTheirTime
  BY DEF ParserInv, EveryTimeOnce
<1>6. f \in [1..m -> FirstOfTheirTime] /\ \A t \in FirstOfTheirTime : \E k \in 1..m : f[k] = t
  BY <1>5
<1>7. ExistsBijection(1..m, FirstOfTheirTime)
  <2>1. f \in Injection(1..m, FirstOfTheirTime)
    BY <1>4, <1>6 DEF Injection, IsInjective
  <2>2. f \in Surjection(1..m, FirstOfTheirTime)
    BY <1>6 DEF Surjection
  <2> QED
    BY <2>1, <2>2 DEF ExistsBijection, Bijection
<1>8. IsFiniteSet(1..m) /\ Cardinality(1..m) = m
  BY <1>1, FS_Interval
<1> QED
  BY <1>7, <1>8, FS_Bijection

LEMMA JoinedEntries ==
  ASSUME NEW s \in Seq(Entry), NEW t \in Seq(Entry)
  PROVE  s \o t \in Seq(Entry) /\ Len(s \o t) = Len(s) + Len(t)
OBVIOUS

LEMMA CountNext == DownloadInv /\ CountInv /\ [Next]_vars => CountInv'
<1> SUFFICES ASSUME DownloadInv, CountInv, [Next]_vars PROVE CountInv'
  OBVIOUS
<1>1. CASE \E n \in 0..MaxFiles : GetHistory(n)
  <2>1. PICK n \in Nat : GetHistory(n)
    BY <1>1, MarketDataAssumption
  <2> QED
    BY <2>1, Steps DEF GetHistory, CountInv
<1>2. CASE DownloadFile
  BY <1>2, Steps DEF DownloadFile, CountInv
<1>3. CASE RequestFails \/ ExtractFails
  BY <1>3, Steps DEF RequestFails, ExtractFails, CountInv
<1>4. CASE \E i \in 1..8 : ExtractStep(i)
  <2>1. PICK i \in {1, 2, 3, 4, 5, 6, 7, 8} : ExtractStep(i)
    BY <1>4
  <2> QED
    BY <2>1, Steps DEF ExtractStep, CountInv
<1>5. CASE \E line \in Lines : ReadLine(line)
  BY <1>5, Steps DEF ReadLine, CountInv
<1>6. CASE EndOfFile
  <2>1. Cardinality(FirstOfTheirTime) = Len(entries) /\ entries \in Seq(Entry)
    BY EntriesAreCounted DEF DownloadInv, ParserInv, ParserTypes
  <2>2. result \in Seq(Entry) /\ expected \in Nat /\ Len(result) = expected
    BY <1>6 DEF EndOfFile, CountInv
  <2>3. result' \in Seq(Entry) /\ Len(result') = expected' /\ expected' \in Nat
    <3>1. result' = result \o entries /\ expected' = expected + Len(entries)
      BY <1>6, <2>1 DEF EndOfFile
    <3>2. result' \in Seq(Entry) /\ Len(result') = Len(result) + Len(entries)
      BY <2>1, <2>2, <3>1, JoinedEntries
    <3>3. Len(entries) \in Nat
      BY <2>1
    <3> QED
      BY <2>2, <3>1, <3>2, <3>3
  <2>4. stage' \in {"sort", "download"} /\ (stage' = "sort" => files' = 0)
    BY <1>6 DEF EndOfFile, CountInv
  <2>5. stage' = "download" => files' \in Nat \ {0}
    BY <1>6 DEF EndOfFile, CountInv
  <2> QED
    BY <2>3, <2>4, <2>5, Steps DEF CountInv
<1>7. CASE Sort
  <2>1. result \in Seq(Entry) /\ expected \in Nat /\ Len(result) = expected /\ files = 0
    BY <1>7 DEF Sort, CountInv
  <2>2. stage' = "done" /\ files' = 0 /\ expected' = expected /\ kind' = kind
    BY <1>7, <2>1 DEF Sort
  <2>3. Len(result') = Len(result) /\ (kind = "candles" => Ascending(result'))
    <3>1. CASE kind = "candles"
      <4>1. PICK p : result' = [k \in 1..Len(result) |-> result[p[k]]] /\ Ascending(result')
        BY <1>7, <3>1 DEF Sort
      <4>2. Len(result') = Len(result)
        BY <2>1, <4>1
      <4> QED
        BY <4>1, <4>2
    <3>2. CASE kind # "candles"
      BY <1>7, <3>2 DEF Sort
    <3> QED
      BY <3>1, <3>2
  <2>4. Ascending(result') => Ascending(result)'
    BY DEF Ascending
  <2> QED
    BY <2>1, <2>2, <2>3, <2>4, Steps DEF CountInv
<1>8. CASE UNCHANGED vars
  BY <1>8 DEF vars, CountInv, Ascending
<1> QED
  BY <1>1, <1>2, <1>3, <1>4, <1>5, <1>6, <1>7, <1>8 DEF Next

\* The call returns the entries of every file, candles in ascending order, or
\* nothing, whichever files the exchange lists and whatever is in them.
THEOREM DownloadsAreWhole == Spec => []ResultIsWhole
<1>1. Init => CountInv
  BY Steps DEF Init, CountInv
<1>2. CountInv => ResultIsWhole
  BY DEF CountInv, ResultIsWhole
<1> QED
  BY <1>1, <1>2, CountNext, DownloadInvariant, PTL DEF Spec
=============================================================================
