------------------------ MODULE HistoryPager_proofs ------------------------
(***************************************************************************)
(* What is proved of HistoryPager for every size of a page and every       *)
(* interval: a download that gives "from" returns the entries of its       *)
(* interval in ascending order, none twice and none left out.              *)
(*                                                                         *)
(* The invariant: what was received is descending and lies between to and  *)
(* the end of the interval, a page that was received but not yet taken     *)
(* lies below to, and a due bar that lies above to was received.           *)
(***************************************************************************)
EXTENDS HistoryPager, FiniteSets, FiniteSetTheorems, SequenceTheorems, TLAPS

Confirmed(t) == [ts |-> t, confirm |-> TRUE]
Has(s, t) == \E i \in 1..Len(s) : s[i] = Confirmed(t)
Ascending(s) == \A i, j \in 1..Len(s) : i < j => s[i].ts < s[j].ts
Between(s, low, high) == \A i \in 1..Len(s) : low <= s[i].ts /\ s[i].ts < high

ExchangeInv == \A t \in closed : t < open

IntervalInv ==
  /\ pc = "request" \/ page # <<>> => query.from < query.to
  /\ pc \in {"request", "page"} => to <= query.to
  /\ \A t \in due : t \in closed /\ query.from < t

ReceivedInv ==
  pc \in {"request", "page"} =>
    /\ Descending(retVal)
    /\ Between(retVal, to, query.to)
    /\ \A i \in 1..Len(retVal) : query.from < retVal[i].ts

PageInv ==
  pc = "page" =>
    /\ Descending(page)
    /\ \A i \in 1..Len(page) : query.from < page[i].ts /\ page[i].ts < to

DueInv ==
  /\ pc = "request" => \A t \in due : to <= t => Has(retVal, t)
  /\ pc = "page" =>
       \A t \in due : \/ Has(retVal, t)
                      \/ Has(page, t)
                      \/ page # <<>> /\ t < page[Len(page)].ts

ResultInv ==
  pc = "done" =>
    /\ Ascending(retVal)
    /\ \A t \in due : Has(retVal, t)
    /\ \A i \in 1..Len(retVal) : query.from < retVal[i].ts /\ retVal[i].ts < query.to

FromInv == IntervalInv /\ ReceivedInv /\ PageInv /\ DueInv /\ ResultInv

PagerInv == TypeOK /\ ExchangeInv /\ (FromGiven => FromInv)

-----------------------------------------------------------------------------
(* Sequences of entries.                                                   *)

\* A later page goes after what was received.
LEMMA ConcatOfDescending ==
  ASSUME NEW s \in Seq(Entry), NEW u \in Seq(Entry),
         Descending(s), Descending(u),
         \A i \in 1..Len(s) : \A j \in 1..Len(u) : u[j].ts < s[i].ts
  PROVE  Descending(s \o u)
<1>1. /\ Len(s) \in Nat /\ Len(u) \in Nat
      /\ Len(s \o u) = Len(s) + Len(u)
      /\ \A i \in 1..Len(s) + Len(u) :
           (s \o u)[i] = IF i <= Len(s) THEN s[i] ELSE u[i - Len(s)]
  BY ConcatProperties, LenProperties
<1>2. SUFFICES ASSUME NEW i \in 1..Len(s \o u), NEW j \in 1..Len(s \o u), i < j
               PROVE  (s \o u)[i].ts > (s \o u)[j].ts
  BY DEF Descending
<1>3. /\ \A k \in 1..Len(s) : s[k].ts \in Nat
      /\ \A k \in 1..Len(u) : u[k].ts \in Nat
  <2>1. (\A k \in 1..Len(s) : s[k] \in Entry) /\ (\A k \in 1..Len(u) : u[k] \in Entry)
    BY ElementOfSeq
  <2>. QED  BY <2>1 DEF Entry
<1>4. CASE j <= Len(s)
  BY <1>1, <1>2, <1>3, <1>4 DEF Descending
<1>5. CASE i <= Len(s) /\ j > Len(s)
  BY <1>1, <1>2, <1>3, <1>5
<1>6. CASE i > Len(s)
  <2>1. i - Len(s) \in 1..Len(u) /\ j - Len(s) \in 1..Len(u)
    BY <1>1, <1>2, <1>6
  <2>. QED  BY <1>1, <1>2, <1>6, <2>1 DEF Descending
<1>. QED  BY <1>1, <1>2, <1>4, <1>5, <1>6

\* Appending loses no entry and adds no other.
LEMMA EntriesOfConcat ==
  ASSUME NEW s \in Seq(Entry), NEW u \in Seq(Entry)
  PROVE  /\ s \o u \in Seq(Entry)
         /\ \A t : Has(s, t) \/ Has(u, t) => Has(s \o u, t)
         /\ \A k \in 1..Len(s \o u) :
              \/ \E i \in 1..Len(s) : (s \o u)[k] = s[i]
              \/ \E i \in 1..Len(u) : (s \o u)[k] = u[i]
<1>1. /\ s \o u \in Seq(Entry)
      /\ Len(s) \in Nat /\ Len(u) \in Nat
      /\ Len(s \o u) = Len(s) + Len(u)
      /\ \A i \in 1..Len(s) + Len(u) :
           (s \o u)[i] = IF i <= Len(s) THEN s[i] ELSE u[i - Len(s)]
  BY ConcatProperties, LenProperties
<1>2. ASSUME NEW t, Has(s, t)
      PROVE  Has(s \o u, t)
  <2>1. PICK i \in 1..Len(s) : s[i] = Confirmed(t)
    BY <1>2 DEF Has
  <2>2. i \in 1..Len(s \o u) /\ (s \o u)[i] = Confirmed(t)
    BY <1>1, <2>1
  <2>. QED  BY <2>2 DEF Has
<1>3. ASSUME NEW t, Has(u, t)
      PROVE  Has(s \o u, t)
  <2>1. PICK i \in 1..Len(u) : u[i] = Confirmed(t)
    BY <1>3 DEF Has
  <2>2. Len(s) + i \in 1..Len(s \o u) /\ (s \o u)[Len(s) + i] = Confirmed(t)
    BY <1>1, <2>1
  <2>. QED  BY <2>2 DEF Has
<1>4. ASSUME NEW k \in 1..Len(s \o u)
      PROVE  \/ \E i \in 1..Len(s) : (s \o u)[k] = s[i]
             \/ \E i \in 1..Len(u) : (s \o u)[k] = u[i]
  <2>1. CASE k <= Len(s)
    BY <1>1, <2>1
  <2>2. CASE k > Len(s)
    <3>1. k - Len(s) \in 1..Len(u) /\ (s \o u)[k] = u[k - Len(s)]
      BY <1>1, <2>2
    <3>. QED  BY <3>1
  <2>. QED  BY <1>1, <2>1, <2>2
<1>. QED  BY <1>1, <1>2, <1>3, <1>4

\* Dropping a last entry that is not confirmed.
LEMMA KeptIsPrefix ==
  ASSUME retVal \in Seq(Entry)
  PROVE  /\ Kept \in Seq(Entry)
         /\ Len(Kept) <= Len(retVal)
         /\ \A i \in 1..Len(Kept) : Kept[i] = retVal[i]
         /\ \A t : Has(retVal, t) => Has(Kept, t)
<1>1. Len(retVal) \in Nat /\ \A i \in 1..Len(retVal) : retVal[i] \in Entry
  BY LenProperties, ElementOfSeq
<1>2. CASE Kept = retVal
  BY <1>1, <1>2
<1>3. CASE /\ retVal # <<>>
           /\ ~retVal[Len(retVal)].confirm
           /\ Kept = SubSeq(retVal, 1, Len(retVal) - 1)
  <2>1. Len(retVal) >= 1
    BY <1>1, <1>3, EmptySeq
  <2>2. /\ Kept \in Seq(Entry)
        /\ Len(Kept) = Len(retVal) - 1
        /\ \A i \in 1..Len(retVal) - 1 : Kept[i] = retVal[i]
    <3>1. \A i \in 1..Len(retVal) - 1 : retVal[i] \in Entry
      BY <1>1
    <3>2. 1 \in Int /\ Len(retVal) - 1 \in Int
      BY <1>1
    <3>3. /\ SubSeq(retVal, 1, Len(retVal) - 1) \in Seq(Entry)
          /\ Len(SubSeq(retVal, 1, Len(retVal) - 1)) =
               IF 1 <= Len(retVal) - 1 THEN Len(retVal) - 1 - 1 + 1 ELSE 0
          /\ \A i \in 1..Len(retVal) - 1 - 1 + 1 :
               SubSeq(retVal, 1, Len(retVal) - 1)[i] = retVal[1 + i - 1]
      BY <3>1, <3>2, SubSeqProperties
    <3>4. Len(Kept) = Len(retVal) - 1
      <4>1. (IF 1 <= Len(retVal) - 1 THEN Len(retVal) - 1 - 1 + 1 ELSE 0) = Len(retVal) - 1
        <5>1. CASE 1 <= Len(retVal) - 1
          BY <1>1, <5>1
        <5>2. CASE ~(1 <= Len(retVal) - 1)
          BY <1>1, <2>1, <5>2
        <5>. QED  BY <5>1, <5>2
      <4>. QED  BY <1>3, <3>3, <4>1, Zenon
    <3>5. ASSUME NEW i \in 1..Len(retVal) - 1
          PROVE  Kept[i] = retVal[i]
      <4>1. i \in 1..Len(retVal) - 1 - 1 + 1 /\ 1 + i - 1 = i
        BY <1>1
      <4>2. Kept[i] = retVal[1 + i - 1]
        BY <1>3, <3>3, <4>1
      <4>. QED  BY <4>1, <4>2
    <3>. QED  BY <1>3, <3>3, <3>4, <3>5
  <2>3. ASSUME NEW t, Has(retVal, t)
        PROVE  Has(Kept, t)
    <3>1. PICK i \in 1..Len(retVal) : retVal[i] = Confirmed(t)
      BY <2>3 DEF Has
    <3>2. i # Len(retVal)
      BY <1>3, <3>1 DEF Confirmed
    <3>3. i \in 1..Len(Kept) /\ Kept[i] = Confirmed(t)
      BY <1>1, <2>2, <3>1, <3>2
    <3>. QED  BY <3>3 DEF Has
  <2>. QED  BY <1>1, <2>1, <2>2, <2>3
<1>. QED  BY <1>2, <1>3 DEF Kept, Front, Last

\* The oldest first.
LEMMA ReverseOfDescending ==
  ASSUME NEW s \in Seq(Entry), Descending(s)
  PROVE  /\ Reverse(s) \in Seq(Entry)
         /\ Ascending(Reverse(s))
         /\ \A t : Has(s, t) => Has(Reverse(s), t)
         /\ \A k \in 1..Len(Reverse(s)) : \E i \in 1..Len(s) : Reverse(s)[k] = s[i]
<1>1. Len(s) \in Nat /\ \A i \in 1..Len(s) : s[i] \in Entry
  BY LenProperties, ElementOfSeq
<1>2. \A i \in 1..Len(s) : Len(s) - i + 1 \in 1..Len(s)
  BY <1>1
<1>3. /\ Reverse(s) \in Seq(Entry)
      /\ Len(Reverse(s)) = Len(s)
      /\ \A i \in 1..Len(s) : Reverse(s)[i] = s[Len(s) - i + 1]
  BY <1>1, <1>2 DEF Reverse
<1>4. Ascending(Reverse(s))
  <2>1. SUFFICES ASSUME NEW i \in 1..Len(s), NEW j \in 1..Len(s), i < j
                 PROVE  s[Len(s) - i + 1].ts < s[Len(s) - j + 1].ts
    BY <1>3 DEF Ascending
  <2>2. Len(s) - j + 1 < Len(s) - i + 1
    BY <1>1, <2>1
  <2>3. s[Len(s) - j + 1].ts > s[Len(s) - i + 1].ts
    BY <1>2, <2>2 DEF Descending
  <2>4. s[Len(s) - i + 1].ts \in Nat /\ s[Len(s) - j + 1].ts \in Nat
    BY <1>1, <1>2 DEF Entry
  <2>. QED  BY <2>3, <2>4
<1>5. ASSUME NEW t, Has(s, t)
      PROVE  Has(Reverse(s), t)
  <2>1. PICK i \in 1..Len(s) : s[i] = Confirmed(t)
    BY <1>5 DEF Has
  <2>2. Len(s) - i + 1 \in 1..Len(s) /\ Len(s) - (Len(s) - i + 1) + 1 = i
    BY <1>1
  <2>3. Reverse(s)[Len(s) - i + 1] = Confirmed(t)
    BY <1>3, <2>1, <2>2
  <2>. QED  BY <1>3, <2>2, <2>3 DEF Has
<1>6. \A k \in 1..Len(Reverse(s)) : \E i \in 1..Len(s) : Reverse(s)[k] = s[i]
  BY <1>2, <1>3
<1>. QED  BY <1>3, <1>4, <1>5, <1>6

-----------------------------------------------------------------------------
(* The exchange.                                                           *)

\* A page holds entries of the interval, below to.
LEMMA PageIsWithin ==
  ASSUME TypeOK, NEW p \in Pages
  PROVE  /\ p \in Seq(Entry)
         /\ Descending(p)
         /\ \A i \in 1..Len(p) : Within(p[i].ts)
<1>1. Entries \subseteq Entry
  <2>1. \A t \in closed : [ts |-> t, confirm |-> TRUE] \in Entry
    BY DEF Entry, TypeOK
  <2>2. [ts |-> open, confirm |-> FALSE] \in Entry
    BY DEF Entry, TypeOK
  <2>. QED  BY <2>1, <2>2 DEF Entries
<1>2. PICK n \in 0..PageSize : p \in [1..n -> Entries]
  BY DEF Pages
<1>3. p \in Seq(Entries)
  BY <1>2, PagerAssumption
<1>4. \A i \in 1..Len(p) : p[i] \in Entries
  BY <1>3, ElementOfSeq
<1>. QED  BY <1>1, <1>3, <1>4, SeqMonotonic DEF Pages, IsPage, Entries

\* A closed bar of the interval is in the page or older than all of it.
LEMMA PageHasNewest ==
  ASSUME TypeOK, NEW p \in Pages, NEW t \in closed, Within(t)
  PROVE  Has(p, t) \/ (p # <<>> /\ t < p[Len(p)].ts)
<1>1. Confirmed(t) \in Entries
  BY DEF Entries, Confirmed
<1>2. (\E i \in 1..Len(p) : p[i] = Confirmed(t)) \/ Confirmed(t).ts < p[Len(p)].ts
  BY <1>1 DEF Pages, IsPage
<1>3. p # <<>>
  BY <1>1 DEF Pages, IsPage
<1>. QED  BY <1>2, <1>3 DEF Has, Confirmed

-----------------------------------------------------------------------------
(* The invariant.                                                          *)

LEMMA InitInv == Init => PagerInv
<1>1. SUFFICES ASSUME Init
               PROVE  PagerInv
  OBVIOUS
<1>2. TypeOK
  <2>1. <<>> \in Seq(Entry)
    BY EmptySeq
  <2>2. query \in Query /\ query.to \in Int
    BY <1>1, PagerAssumption DEF Init, Query
  <2>3. closed \subseteq Nat /\ open \in Nat
    BY <1>1, PagerAssumption DEF Init
  <2>. QED  BY <1>1, <2>1, <2>2, <2>3 DEF Init, TypeOK
<1>3. ExchangeInv
  BY <1>1, PagerAssumption DEF Init, ExchangeInv
<1>4. FromInv
  BY <1>1, <1>2 DEF Init, FromInv, IntervalInv, ReceivedInv, PageInv, DueInv, ResultInv,
                    Descending, Between, TypeOK
<1>. QED  BY <1>2, <1>3, <1>4 DEF PagerInv

LEMMA BarClosesInv == PagerInv /\ BarCloses => PagerInv'
<1>1. SUFFICES ASSUME PagerInv, BarCloses
               PROVE  PagerInv'
  OBVIOUS
<1>2. TypeOK'
  BY <1>1 DEF PagerInv, TypeOK, BarCloses
<1>3. ExchangeInv'
  BY <1>1 DEF PagerInv, TypeOK, ExchangeInv, BarCloses
<1>4. ASSUME FromGiven'
      PROVE  FromInv'
  <2>1. FromInv
    BY <1>1, <1>4 DEF PagerInv, FromGiven, BarCloses
  <2>2. IntervalInv'
    BY <1>1, <2>1 DEF FromInv, IntervalInv, BarCloses
  <2>. QED  BY <1>1, <2>1, <2>2 DEF FromInv, ReceivedInv, PageInv, DueInv, ResultInv,
                 Descending, Ascending, Between, Has, Confirmed, BarCloses
<1>. QED  BY <1>2, <1>3, <1>4 DEF PagerInv

LEMMA GetPageInv == PagerInv /\ GetPage => PagerInv'
<1>1. SUFFICES ASSUME PagerInv, GetPage
               PROVE  PagerInv'
  OBVIOUS
<1>2. page' \in Pages /\ TypeOK
  BY <1>1 DEF GetPage, PagerInv
<1>3. /\ page' \in Seq(Entry)
      /\ Descending(page')
      /\ \A i \in 1..Len(page') : Within(page'[i].ts)
  BY <1>2, PageIsWithin
<1>4. TypeOK'
  BY <1>1, <1>3 DEF PagerInv, TypeOK, GetPage
<1>5. ExchangeInv'
  BY <1>1 DEF PagerInv, ExchangeInv, GetPage
<1>6. ASSUME FromGiven'
      PROVE  FromInv'
  <2>1. FromInv /\ query.from # -1 /\ query.from < query.to
    BY <1>1, <1>6 DEF PagerInv, FromInv, IntervalInv, FromGiven, GetPage
  <2>2. query.from \in Int /\ query.to \in Int /\ to \in Int
    BY <1>2, PagerAssumption DEF TypeOK, Query
  <2>3. \A t \in Nat : Within(t) => query.from < t /\ t < to
    BY <2>1, <2>2 DEF Within
  <2>4. IntervalInv'
    <3>1. \A t \in due' : t \in closed /\ query.from < t
      BY <1>1, <1>2, <2>1, <2>3 DEF GetPage, FromInv, IntervalInv, TypeOK
    <3>. QED  BY <1>1, <2>1, <3>1 DEF GetPage, FromInv, IntervalInv
  <2>5. ReceivedInv'
    BY <1>1, <2>1 DEF GetPage, FromInv, ReceivedInv, Descending, Between
  <2>6. PageInv'
    <3>1. \A i \in 1..Len(page') : page'[i] \in Entry
      BY <1>3, ElementOfSeq
    <3>2. \A i \in 1..Len(page') : page'[i].ts \in Nat
      BY <3>1 DEF Entry
    <3>3. \A i \in 1..Len(page') : query.from < page'[i].ts /\ page'[i].ts < to
      BY <1>3, <2>3, <3>2
    <3>. QED  BY <1>1, <1>3, <3>3 DEF GetPage, PageInv, Descending
  <2>7. DueInv'
    <3>1. SUFFICES ASSUME NEW t \in due'
                   PROVE  \/ Has(retVal, t)
                          \/ Has(page', t)
                          \/ page' # <<>> /\ t < page'[Len(page')].ts
      BY <1>1 DEF GetPage, DueInv, Has, Confirmed
    <3>2. t \in closed /\ t \in Nat /\ query.from < t
      BY <1>1, <1>2, <2>4, <3>1 DEF IntervalInv, GetPage, TypeOK
    <3>3. CASE t < to
      <4>1. Within(t)
        BY <3>2, <3>3 DEF Within
      <4>. QED  BY <1>2, <3>2, <4>1, PageHasNewest
    <3>4. CASE ~(t < to)
      <4>1. t \in due
        BY <1>1, <2>1, <3>1, <3>2, <3>4 DEF GetPage, Within
      <4>2. to <= t
        BY <2>2, <3>2, <3>4
      <4>. QED  BY <1>1, <2>1, <4>1, <4>2 DEF FromInv, DueInv, GetPage
    <3>. QED  BY <3>3, <3>4
  <2>8. ResultInv'
    BY <1>1 DEF GetPage, ResultInv
  <2>. QED  BY <2>4, <2>5, <2>6, <2>7, <2>8 DEF FromInv
<1>. QED  BY <1>4, <1>5, <1>6 DEF PagerInv

LEMMA TakePageInv == PagerInv /\ TakePage => PagerInv'
<1>1. SUFFICES ASSUME PagerInv, TakePage
               PROVE  PagerInv'
  OBVIOUS
<1> DEFINE last == page[Len(page)]
<1>2. /\ TypeOK
      /\ pc = "page" /\ page # <<>>
      /\ retVal' = retVal \o page
      /\ to' = last.ts
      /\ page' = <<>>
      /\ pc' = IF query.from < last.ts THEN "request" ELSE "page"
      /\ UNCHANGED <<closed, open, query, due>>
  BY <1>1 DEF PagerInv, TakePage, Received, NextTo, Last
<1>3. /\ page \in Seq(Entry) /\ retVal \in Seq(Entry) /\ written \in Seq(Entry)
      /\ Len(page) \in Nat /\ Len(page) > 0
  BY <1>2, EmptySeq, LenProperties DEF TypeOK
<1>4. /\ \A i \in 1..Len(page) : page[i] \in Entry /\ page[i].ts \in Nat
      /\ \A i \in 1..Len(retVal) : retVal[i] \in Entry /\ retVal[i].ts \in Nat
  <2>1. /\ \A i \in 1..Len(page) : page[i] \in Entry
        /\ \A i \in 1..Len(retVal) : retVal[i] \in Entry
    BY <1>3, ElementOfSeq
  <2>. QED  BY <2>1 DEF Entry
<1>5. Len(page) \in 1..Len(page) /\ last.ts \in Nat
  BY <1>3, <1>4
<1>6. TypeOK'
  <2>1. ToWrite(page) \in Seq(Entry)
    <3>1. \A i \in 1..Len(page) - 1 : page[i] \in Entry
      BY <1>3, <1>4
    <3>2. 1 \in Int /\ Len(page) - 1 \in Int
      BY <1>3
    <3>3. SubSeq(page, 1, Len(page) - 1) \in Seq(Entry)
      BY <3>1, <3>2, SubSeqProperties
    <3>. QED  BY <1>3, <3>3 DEF ToWrite, Front, Last
  <2>2. written' \in Seq(Entry)
    BY <1>1, <1>3, <2>1, ConcatProperties DEF TakePage
  <2>3. retVal' \in Seq(Entry)
    BY <1>2, <1>3, ConcatProperties
  <2>4. page' \in Seq(Entry)
    BY <1>2, EmptySeq
  <2>. QED  BY <1>2, <1>5, <2>2, <2>3, <2>4 DEF TypeOK
<1>7. ExchangeInv'
  BY <1>1, <1>2 DEF PagerInv, ExchangeInv
<1>8. ASSUME FromGiven'
      PROVE  FromInv'
  <2>1. FromInv
    BY <1>1, <1>2, <1>8 DEF PagerInv, FromGiven
  <2>2. /\ query.from \in Int /\ query.to \in Int /\ to \in Int
        /\ query.from < query.to /\ to <= query.to
    BY <1>2, <2>1, PagerAssumption DEF TypeOK, Query, FromInv, IntervalInv
  <2>3. /\ Descending(page)
        /\ \A i \in 1..Len(page) : query.from < page[i].ts /\ page[i].ts < to
        /\ Descending(retVal)
        /\ \A i \in 1..Len(retVal) :
             to <= retVal[i].ts /\ retVal[i].ts < query.to /\ query.from < retVal[i].ts
    BY <1>2, <2>1 DEF FromInv, PageInv, ReceivedInv, Between
  <2>4. pc' = "request" /\ to' < to /\ query.from < to'
    BY <1>2, <1>5, <2>3
  <2>5. IntervalInv'
    BY <1>2, <1>5, <2>1, <2>2, <2>4 DEF FromInv, IntervalInv
  <2>6. ReceivedInv'
    <3>1. \A i \in 1..Len(page) : last.ts <= page[i].ts
      <4>1. SUFFICES ASSUME NEW i \in 1..Len(page), i # Len(page)
                     PROVE  last.ts <= page[i].ts
        BY <1>5
      <4>2. i < Len(page)
        BY <1>3, <4>1
      <4>. QED  BY <1>4, <1>5, <2>3, <4>2 DEF Descending
    <3>2. Descending(retVal \o page)
      <4>1. \A i \in 1..Len(retVal) : \A j \in 1..Len(page) : page[j].ts < retVal[i].ts
        BY <1>4, <2>2, <2>3
      <4>. QED  BY <1>3, <2>3, <4>1, ConcatOfDescending
    <3>3. ASSUME NEW k \in 1..Len(retVal \o page)
          PROVE  LET e == (retVal \o page)[k]
                 IN  to' <= e.ts /\ e.ts < query.to /\ query.from < e.ts
      <4>1. CASE \E i \in 1..Len(retVal) : (retVal \o page)[k] = retVal[i]
        <5>1. PICK i \in 1..Len(retVal) : (retVal \o page)[k] = retVal[i]
          BY <4>1
        <5>2. retVal[i].ts \in Nat /\ to <= retVal[i].ts
              /\ retVal[i].ts < query.to /\ query.from < retVal[i].ts
          BY <1>4, <2>3
        <5>3. to' \in Int /\ to' <= retVal[i].ts
          BY <1>2, <1>5, <2>2, <2>4, <5>2
        <5>. QED  BY <5>1, <5>2, <5>3
      <4>2. CASE \E i \in 1..Len(page) : (retVal \o page)[k] = page[i]
        <5>1. PICK i \in 1..Len(page) : (retVal \o page)[k] = page[i]
          BY <4>2
        <5>2. /\ page[i].ts \in Nat /\ query.from < page[i].ts
              /\ page[i].ts < to /\ last.ts <= page[i].ts
          BY <1>4, <2>3, <3>1
        <5>3. to' <= page[i].ts /\ page[i].ts < query.to
          BY <1>2, <2>2, <5>2
        <5>. QED  BY <5>1, <5>2, <5>3
      <4>. QED  BY <1>3, <4>1, <4>2, EntriesOfConcat
    <3>. QED  BY <1>2, <3>2, <3>3 DEF ReceivedInv, Descending, Between
  <2>7. PageInv' /\ ResultInv'
    BY <2>4 DEF PageInv, ResultInv
  <2>8. DueInv'
    <3>1. SUFFICES ASSUME NEW t \in due, to' <= t
                   PROVE  Has(retVal \o page, t)
      BY <1>2, <2>4 DEF DueInv, Has, Confirmed
    <3>2. t \in Nat
      BY <1>2, <3>1 DEF TypeOK
    <3>3. Has(retVal, t) \/ Has(page, t)
      BY <1>2, <1>5, <2>1, <3>1, <3>2 DEF FromInv, DueInv
    <3>. QED  BY <1>3, <3>3, EntriesOfConcat
  <2>. QED  BY <2>5, <2>6, <2>7, <2>8 DEF FromInv
<1>. QED  BY <1>6, <1>7, <1>8 DEF PagerInv

LEMMA ReturnInv == PagerInv /\ Return => PagerInv'
<1>1. SUFFICES ASSUME PagerInv, Return
               PROVE  PagerInv'
  OBVIOUS
<1>2. /\ TypeOK
      /\ pc = "page" /\ page = <<>>
      /\ retVal' = Reverse(Kept)
      /\ pc' = "done"
      /\ UNCHANGED <<closed, open, query, to, page, written, due>>
  BY <1>1 DEF PagerInv, Return
<1>3. /\ Kept \in Seq(Entry)
      /\ Len(Kept) <= Len(retVal)
      /\ \A i \in 1..Len(Kept) : Kept[i] = retVal[i]
      /\ \A t : Has(retVal, t) => Has(Kept, t)
  BY <1>2, KeptIsPrefix DEF TypeOK
<1>4. Len(retVal) \in Nat /\ Len(Kept) \in Nat
  BY <1>2, <1>3, LenProperties DEF TypeOK
<1>5. TypeOK'
  <2>1. Len(Kept) - 0 \in Nat /\ \A i \in 1..Len(Kept) : Kept[Len(Kept) - i + 1] \in Entry
    <3>1. ASSUME NEW i \in 1..Len(Kept)
          PROVE  Len(Kept) - i + 1 \in 1..Len(Kept)
      BY <1>4
    <3>. QED  BY <1>3, <1>4, <3>1, ElementOfSeq
  <2>2. Reverse(Kept) \in Seq(Entry)
    BY <1>4, <2>1 DEF Reverse
  <2>. QED  BY <1>2, <2>2 DEF TypeOK
<1>6. ExchangeInv'
  BY <1>1, <1>2 DEF PagerInv, ExchangeInv
<1>7. ASSUME FromGiven'
      PROVE  FromInv'
  <2>1. FromInv
    BY <1>1, <1>2, <1>7 DEF PagerInv, FromGiven
  <2>2. Descending(Kept)
    BY <1>2, <1>3, <1>4, <2>1 DEF FromInv, ReceivedInv, Descending
  <2>3. /\ Ascending(Reverse(Kept))
        /\ \A t : Has(Kept, t) => Has(Reverse(Kept), t)
        /\ \A k \in 1..Len(Reverse(Kept)) :
             \E i \in 1..Len(Kept) : Reverse(Kept)[k] = Kept[i]
    BY <1>3, <2>2, ReverseOfDescending
  <2>4. \A t \in due : Has(retVal, t)
    <3>1. SUFFICES ASSUME NEW t \in due, Has(page, t)
                   PROVE  FALSE
      BY <1>2, <2>1 DEF FromInv, DueInv
    <3>. QED  BY <1>2, <3>1, EmptySeq DEF Has
  <2>5. ASSUME NEW k \in 1..Len(Reverse(Kept))
        PROVE  query.from < Reverse(Kept)[k].ts /\ Reverse(Kept)[k].ts < query.to
    <3>1. PICK i \in 1..Len(Kept) : Reverse(Kept)[k] = Kept[i]
      BY <2>3
    <3>2. i \in 1..Len(retVal) /\ Kept[i] = retVal[i]
      BY <1>3, <1>4
    <3>. QED  BY <1>2, <2>1, <3>1, <3>2 DEF FromInv, ReceivedInv, Between
  <2>6. ResultInv'
    BY <1>2, <1>3, <2>3, <2>4, <2>5 DEF ResultInv, Ascending, Has, Confirmed
  <2>. QED  BY <1>2, <2>1, <2>6 DEF FromInv, IntervalInv, ReceivedInv, PageInv, DueInv
<1>. QED  BY <1>5, <1>6, <1>7 DEF PagerInv

\* An exception changes nothing but where the call is.
LEMMA ThrowInv == PagerInv /\ (GetPageThrows \/ WriterThrows) => PagerInv'
<1>1. SUFFICES ASSUME PagerInv, GetPageThrows \/ WriterThrows
               PROVE  PagerInv'
  OBVIOUS
<1>2. pc' = "failed" /\ UNCHANGED <<closed, open, query, to, page, retVal, written, due>>
  BY <1>1 DEF GetPageThrows, WriterThrows
<1>3. TypeOK' /\ ExchangeInv'
  BY <1>1, <1>2 DEF PagerInv, TypeOK, ExchangeInv
<1>4. ASSUME FromGiven'
      PROVE  FromInv'
  <2>1. IntervalInv
    BY <1>1, <1>2, <1>4 DEF PagerInv, FromGiven, FromInv
  <2>2. (pc = "request" \/ page # <<>>)' => pc = "request" \/ page # <<>>
    BY <1>2
  <2>. QED  BY <1>2, <2>1, <2>2 DEF FromInv, IntervalInv, ReceivedInv, PageInv, DueInv, ResultInv
<1>. QED  BY <1>3, <1>4 DEF PagerInv

\* The invariant holds in every reachable state of a download, whatever the
\* interval, the size of the pages and the bars that close meanwhile.
THEOREM PagerInvariant == Spec => []PagerInv
<1>1. ASSUME PagerInv, UNCHANGED vars
      PROVE  PagerInv'
  BY <1>1 DEF vars, PagerInv, TypeOK, ExchangeInv, FromGiven, FromInv, IntervalInv,
       ReceivedInv, PageInv, DueInv, ResultInv, Descending, Ascending, Between, Has, Confirmed
<1>2. PagerInv /\ [Next]_vars => PagerInv'
  BY <1>1, BarClosesInv, GetPageInv, TakePageInv, ReturnInv, ThrowInv DEF Next, Download
<1>. QED  BY InitInv, <1>2, PTL DEF Spec

\* getHistoricalPrices() and getFundingRates() return their entries oldest
\* first and none twice.
THEOREM DownloadsAscend == Spec => []ResultAscends
<1>1. PagerInv => ResultAscends
  BY DEF PagerInv, FromInv, ResultInv, ResultAscends, Ascending
<1>. QED  BY <1>1, PagerInvariant, PTL

\* They return every bar of the interval that was closed when the first page
\* was sent, and nothing outside of it.
THEOREM DownloadsAreComplete == Spec => []ResultIsComplete
<1>1. PagerInv => ResultIsComplete
  <2>1. ASSUME PagerInv, pc = "done", FromGiven, NEW t \in due
        PROVE  \E i \in 1..Len(retVal) : retVal[i].ts = t
    <3>1. PICK i \in 1..Len(retVal) : retVal[i] = Confirmed(t)
      BY <2>1 DEF PagerInv, FromInv, ResultInv, Has
    <3>. QED  BY <3>1 DEF Confirmed
  <2>. QED  BY <2>1 DEF PagerInv, FromInv, ResultInv, ResultIsComplete
<1>. QED  BY <1>1, PagerInvariant, PTL

-----------------------------------------------------------------------------
(* The writer.                                                             *)

\* What the writer was given lies above to like what was received; it has every
\* confirmed entry, and no entry that the end of the download may still drop:
\* only the last entry received, when it is not confirmed.
WrittenInv ==
  /\ Descending(written)
  /\ \A j \in 1..Len(written) : to <= written[j].ts
  /\ \A i \in 1..Len(retVal) :
       retVal[i].confirm => \E j \in 1..Len(written) : written[j] = retVal[i]
  /\ \A j \in 1..Len(written) : \E i \in 1..Len(retVal) :
       written[j] = retVal[i] /\ (retVal[i].confirm \/ i < Len(retVal))

WriterInv ==
  query.kind = "written" /\ FromGiven =>
    /\ pc \in {"request", "page"} => WrittenInv
    /\ pc \in {"done", "failed"} => WriterGetsResult

LEMMA LengthOfFront ==
  ASSUME NEW n \in Nat, n >= 1
  PROVE  (IF 1 <= n - 1 THEN n - 1 - 1 + 1 ELSE 0) = n - 1
<1>1. CASE n = 1
  BY <1>1
<1>2. CASE n > 1
  BY <1>2
<1>. QED  BY <1>1, <1>2

LEMMA ToWriteIsPrefix ==
  ASSUME NEW p \in Seq(Entry), p # <<>>
  PROVE  /\ ToWrite(p) \in Seq(Entry)
         /\ Len(ToWrite(p)) = IF p[Len(p)].confirm THEN Len(p) ELSE Len(p) - 1
         /\ \A i \in 1..Len(ToWrite(p)) : ToWrite(p)[i] = p[i]
<1>1. Len(p) \in Nat /\ Len(p) >= 1 /\ \A i \in 1..Len(p) : p[i] \in Entry
  BY EmptySeq, LenProperties, ElementOfSeq
<1>2. CASE p[Len(p)].confirm
  BY <1>2 DEF ToWrite, Last
<1>3. CASE ~p[Len(p)].confirm
  <2>1. ToWrite(p) = SubSeq(p, 1, Len(p) - 1)
    BY <1>3 DEF ToWrite, Last, Front
  <2>2. /\ \A i \in 1..Len(p) - 1 : p[i] \in Entry
        /\ 1 \in Int /\ Len(p) - 1 \in Int
    BY <1>1
  <2>3. /\ SubSeq(p, 1, Len(p) - 1) \in Seq(Entry)
        /\ Len(SubSeq(p, 1, Len(p) - 1)) = IF 1 <= Len(p) - 1 THEN Len(p) - 1 - 1 + 1 ELSE 0
        /\ \A i \in 1..Len(p) - 1 - 1 + 1 : SubSeq(p, 1, Len(p) - 1)[i] = p[1 + i - 1]
    BY <2>2, SubSeqProperties
  <2>4. (IF 1 <= Len(p) - 1 THEN Len(p) - 1 - 1 + 1 ELSE 0) = Len(p) - 1
    BY <1>1, LengthOfFront
  <2>5. Len(ToWrite(p)) = Len(p) - 1
    BY <2>1, <2>3, <2>4, Zenon
  <2>6. ASSUME NEW i \in 1..Len(p) - 1
        PROVE  ToWrite(p)[i] = p[i]
    <3>1. i \in 1..Len(p) - 1 - 1 + 1 /\ 1 + i - 1 = i
      BY <1>1
    <3>. QED  BY <2>1, <2>3, <3>1
  <2>. QED  BY <1>3, <2>1, <2>3, <2>5, <2>6
<1>. QED  BY <1>2, <1>3

\* Appending to both sides keeps what one has of the other.
LEMMA IndexOfConcat ==
  ASSUME NEW s \in Seq(Entry), NEW u \in Seq(Entry)
  PROVE  /\ Len(s) \in Nat /\ Len(u) \in Nat
         /\ Len(s \o u) = Len(s) + Len(u)
         /\ \A i \in 1..Len(s) : i \in 1..Len(s \o u) /\ (s \o u)[i] = s[i]
         /\ \A i \in 1..Len(u) :
              Len(s) + i \in 1..Len(s \o u) /\ (s \o u)[Len(s) + i] = u[i]
         /\ \A k \in 1..Len(s \o u) :
              \/ k \in 1..Len(s)
              \/ \E i \in 1..Len(u) : k = Len(s) + i
<1>1. /\ Len(s) \in Nat /\ Len(u) \in Nat
      /\ Len(s \o u) = Len(s) + Len(u)
      /\ \A i \in 1..Len(s) + Len(u) :
           (s \o u)[i] = IF i <= Len(s) THEN s[i] ELSE u[i - Len(s)]
  BY ConcatProperties, LenProperties
<1>2. ASSUME NEW i \in 1..Len(u)
      PROVE  Len(s) + i \in 1..Len(s \o u) /\ (s \o u)[Len(s) + i] = u[i]
  BY <1>1
<1>3. ASSUME NEW k \in 1..Len(s \o u), k \notin 1..Len(s)
      PROVE  \E i \in 1..Len(u) : k = Len(s) + i
  <2>1. k - Len(s) \in 1..Len(u) /\ k = Len(s) + (k - Len(s))
    BY <1>1, <1>3
  <2>. QED  BY <2>1
<1>. QED  BY <1>1, <1>2, <1>3

LEMMA TakePageWriter ==
  ASSUME PagerInv, TakePage, FromGiven, query.kind = "written", WrittenInv
  PROVE  WrittenInv'
<1> DEFINE u == ToWrite(page)
           last == page[Len(page)]
<1>1. /\ TypeOK /\ FromInv
      /\ pc = "page" /\ page # <<>>
      /\ retVal' = retVal \o page
      /\ written' = written \o u
      /\ to' = last.ts
  BY DEF PagerInv, TakePage, Received, NextTo, Last
<1>2. /\ page \in Seq(Entry) /\ retVal \in Seq(Entry) /\ written \in Seq(Entry)
      /\ Len(page) \in Nat /\ Len(page) > 0 /\ Len(page) \in 1..Len(page)
      /\ to \in Int
  BY <1>1, EmptySeq, LenProperties DEF TypeOK
<1>3. /\ \A i \in 1..Len(page) : page[i] \in Entry /\ page[i].ts \in Nat
      /\ \A i \in 1..Len(written) : written[i] \in Entry /\ written[i].ts \in Nat
  <2>1. /\ \A i \in 1..Len(page) : page[i] \in Entry
        /\ \A i \in 1..Len(written) : written[i] \in Entry
    BY <1>2, ElementOfSeq
  <2>. QED  BY <2>1 DEF Entry
<1>4. /\ u \in Seq(Entry)
      /\ Len(u) = IF last.confirm THEN Len(page) ELSE Len(page) - 1
      /\ \A i \in 1..Len(u) : i \in 1..Len(page) /\ u[i] = page[i]
                              /\ (page[i].confirm \/ i < Len(page))
      /\ \A i \in 1..Len(page) : page[i].confirm => i \in 1..Len(u)
  <2>1. /\ u \in Seq(Entry)
        /\ Len(u) = IF last.confirm THEN Len(page) ELSE Len(page) - 1
        /\ \A i \in 1..Len(u) : u[i] = page[i]
    BY <1>1, <1>2, ToWriteIsPrefix
  <2> HIDE DEF u
  <2>. QED  BY <1>2, <2>1
<1> HIDE DEF u
<1>5. /\ Descending(page)
      /\ \A i \in 1..Len(page) : page[i].ts < to /\ last.ts <= page[i].ts
  <2>1. Descending(page) /\ \A i \in 1..Len(page) : page[i].ts < to
    BY <1>1 DEF FromInv, PageInv
  <2>2. ASSUME NEW i \in 1..Len(page), i # Len(page)
        PROVE  last.ts <= page[i].ts
    <3>1. i < Len(page)
      BY <1>2, <2>2
    <3>. QED  BY <1>2, <1>3, <2>1, <3>1 DEF Descending
  <2>3. last.ts <= last.ts
    BY <1>2, <1>3
  <2>. QED  BY <2>1, <2>2, <2>3
<1>6. /\ Len(written) \in Nat /\ Len(u) \in Nat
      /\ \A i \in 1..Len(written) : i \in 1..Len(written') /\ written'[i] = written[i]
      /\ \A i \in 1..Len(u) :
           Len(written) + i \in 1..Len(written') /\ written'[Len(written) + i] = u[i]
      /\ \A k \in 1..Len(written') :
           k \in 1..Len(written) \/ \E i \in 1..Len(u) : k = Len(written) + i
  BY <1>1, <1>2, <1>4, IndexOfConcat
<1>7. /\ Len(retVal) \in Nat /\ Len(retVal') = Len(retVal) + Len(page)
      /\ \A i \in 1..Len(retVal) : i \in 1..Len(retVal') /\ retVal'[i] = retVal[i]
      /\ \A i \in 1..Len(page) :
           Len(retVal) + i \in 1..Len(retVal') /\ retVal'[Len(retVal) + i] = page[i]
      /\ \A k \in 1..Len(retVal') :
           k \in 1..Len(retVal) \/ \E i \in 1..Len(page) : k = Len(retVal) + i
  BY <1>1, <1>2, IndexOfConcat
<1>8. Descending(written')
  <2>1. Descending(u)
    BY <1>4, <1>5 DEF Descending
  <2>2. ASSUME NEW i \in 1..Len(written), NEW j \in 1..Len(u)
        PROVE  u[j].ts < written[i].ts
    BY <1>2, <1>3, <1>4, <1>5 DEF WrittenInv
  <2>. QED  BY <1>1, <1>2, <1>4, <2>1, <2>2, ConcatOfDescending DEF WrittenInv
<1>9. ASSUME NEW k \in 1..Len(written')
      PROVE  to' <= written'[k].ts
  <2>1. CASE k \in 1..Len(written)
    <3>1. to' \in Nat /\ to' < to
      BY <1>1, <1>2, <1>3, <1>5
    <3>2. written'[k] = written[k] /\ written[k].ts \in Nat /\ to <= written[k].ts
      BY <1>3, <1>6, <2>1 DEF WrittenInv
    <3>. QED  BY <1>2, <3>1, <3>2
  <2>2. ASSUME NEW i \in 1..Len(u), k = Len(written) + i
        PROVE  to' <= written'[k].ts
    <3>1. written'[k] = page[i] /\ last.ts <= page[i].ts
      BY <1>4, <1>5, <1>6, <2>2
    <3>. QED  BY <1>1, <3>1
  <2>. QED  BY <1>6, <2>1, <2>2
<1>10. ASSUME NEW k \in 1..Len(retVal'), retVal'[k].confirm
       PROVE  \E j \in 1..Len(written') : written'[j] = retVal'[k]
  <2>1. CASE k \in 1..Len(retVal)
    <3>1. PICK j \in 1..Len(written) : written[j] = retVal[k]
      BY <1>7, <1>10, <2>1 DEF WrittenInv
    <3>. QED  BY <1>6, <1>7, <2>1, <3>1
  <2>2. ASSUME NEW i \in 1..Len(page), k = Len(retVal) + i
        PROVE  \E j \in 1..Len(written') : written'[j] = retVal'[k]
    <3>1. retVal'[k] = page[i] /\ i \in 1..Len(u) /\ u[i] = page[i]
      BY <1>4, <1>7, <1>10, <2>2
    <3>. QED  BY <1>6, <3>1
  <2>. QED  BY <1>7, <2>1, <2>2
<1>11. ASSUME NEW k \in 1..Len(written')
       PROVE  \E i \in 1..Len(retVal') :
                written'[k] = retVal'[i] /\ (retVal'[i].confirm \/ i < Len(retVal'))
  <2>1. CASE k \in 1..Len(written)
    <3>1. PICK i \in 1..Len(retVal) : written[k] = retVal[i]
      BY <2>1 DEF WrittenInv
    <3>2. i < Len(retVal')
      BY <1>2, <1>7, <3>1
    <3>. QED  BY <1>6, <1>7, <2>1, <3>1, <3>2
  <2>2. ASSUME NEW j \in 1..Len(u), k = Len(written) + j
        PROVE  \E i \in 1..Len(retVal') :
                 written'[k] = retVal'[i] /\ (retVal'[i].confirm \/ i < Len(retVal'))
    <3>1. /\ written'[k] = page[j] /\ j \in 1..Len(page)
          /\ page[j].confirm \/ j < Len(page)
      BY <1>4, <1>6, <2>2
    <3>2. /\ Len(retVal) + j \in 1..Len(retVal') /\ retVal'[Len(retVal) + j] = page[j]
          /\ j < Len(page) => Len(retVal) + j < Len(retVal')
      BY <1>2, <1>7, <3>1
    <3>. QED  BY <3>1, <3>2
  <2>. QED  BY <1>6, <2>1, <2>2
<1>. QED  BY <1>8, <1>9, <1>10, <1>11 DEF WrittenInv, Descending

\* The entry that is dropped at the end was not written.
LEMMA ReturnWriter ==
  ASSUME PagerInv, Return, FromGiven, query.kind = "written", WrittenInv
  PROVE  WriterGetsResult'
<1>1. /\ TypeOK /\ FromInv /\ pc = "page"
      /\ retVal' = Reverse(Kept) /\ UNCHANGED <<written, query>>
      /\ retVal \in Seq(Entry)
  BY DEF PagerInv, Return, TypeOK
<1>2. /\ Kept \in Seq(Entry)
      /\ \A i \in 1..Len(Kept) : i \in 1..Len(retVal) /\ Kept[i] = retVal[i]
      /\ Len(retVal) \in Nat /\ Len(Kept) \in Nat
  BY <1>1, KeptIsPrefix, LenProperties
<1>3. \A i \in 1..Len(retVal) : retVal[i].confirm \/ i < Len(retVal) => i \in 1..Len(Kept)
  <2>1. CASE Kept = retVal
    BY <2>1
  <2>2. CASE retVal # <<>> /\ ~retVal[Len(retVal)].confirm /\ Kept = ToWrite(retVal)
    <3>1. Len(Kept) = Len(retVal) - 1
      BY <1>1, <2>2, ToWriteIsPrefix
    <3>. QED  BY <1>2, <2>2, <3>1
  <2>. QED  BY <2>1, <2>2 DEF Kept, ToWrite, Last
<1>4. Len(Reverse(Kept)) = Len(Kept) /\ \A i \in 1..Len(Kept) : Reverse(Kept)[i] = Kept[Len(Kept) - i + 1]
  BY <1>2 DEF Reverse
<1>5. ASSUME NEW k \in 1..Len(retVal'), retVal'[k].confirm
      PROVE  \E j \in 1..Len(written') : written'[j] = retVal'[k]
  <2>1. Len(Kept) - k + 1 \in 1..Len(Kept)
    BY <1>1, <1>2, <1>4, <1>5
  <2>2. PICK i \in 1..Len(retVal) : retVal'[k] = retVal[i]
    BY <1>1, <1>2, <1>4, <1>5, <2>1
  <2>. QED  BY <1>1, <1>5, <2>2 DEF WrittenInv
<1>6. ASSUME NEW j \in 1..Len(written')
      PROVE  \E k \in 1..Len(retVal') : written'[j] = retVal'[k]
  <2>1. PICK i \in 1..Len(retVal) :
          written[j] = retVal[i] /\ (retVal[i].confirm \/ i < Len(retVal))
    BY <1>1, <1>6 DEF WrittenInv
  <2>2. i \in 1..Len(Kept)
    BY <1>3, <2>1
  <2>3. Len(Kept) - i + 1 \in 1..Len(Kept) /\ Len(Kept) - (Len(Kept) - i + 1) + 1 = i
    BY <1>2, <2>2
  <2>4. Reverse(Kept)[Len(Kept) - i + 1] = written[j]
    BY <1>2, <1>4, <2>1, <2>2, <2>3
  <2>. QED  BY <1>1, <1>4, <2>3, <2>4
<1>7. ASSUME NEW t \in due'
      PROVE  \E j \in 1..Len(written') : written'[j].ts = t
  <2>1. PagerInv' /\ pc' = "done" /\ FromGiven'
    BY ReturnInv DEF Return, FromGiven
  <2>2. PICK k \in 1..Len(retVal') : retVal'[k] = Confirmed(t)
    BY <1>7, <2>1 DEF PagerInv, FromInv, ResultInv, Has
  <2>. QED  BY <1>5, <2>2 DEF Confirmed
<1>. QED  BY <1>1, <1>5, <1>6, <1>7 DEF WriterGetsResult, WrittenInv, Descending

\* At an exception the writer has what was received, and that is every due bar
\* at or above to.
LEMMA FailWriter ==
  ASSUME PagerInv, GetPageThrows \/ WriterThrows, FromGiven, query.kind = "written", WrittenInv
  PROVE  WriterGetsResult'
<1>1. /\ TypeOK /\ FromInv /\ pc \in {"request", "page"} /\ pc' = "failed"
      /\ UNCHANGED <<query, to, retVal, written, due>>
  BY DEF PagerInv, GetPageThrows, WriterThrows
<1>2. ASSUME NEW t \in due, to <= t
      PROVE  \E j \in 1..Len(written) : written[j].ts = t
  <2>1. /\ t \in Nat /\ to \in Int
        /\ \A i \in 1..Len(page) : page[i] \in Entry
        /\ page # <<>> => Len(page) \in 1..Len(page)
    <3>1. /\ page \in Seq(Entry) /\ Len(page) \in Nat
          /\ page # <<>> => Len(page) # 0
      BY <1>1, EmptySeq, LenProperties DEF TypeOK
    <3>2. \A i \in 1..Len(page) : page[i] \in Entry
      BY <3>1, ElementOfSeq
    <3>. QED  BY <1>1, <1>2, <3>1, <3>2 DEF TypeOK
  <2>2. Has(retVal, t)
    <3>1. CASE pc = "request"
      BY <1>1, <1>2, <3>1 DEF FromInv, DueInv
    <3>2. CASE pc = "page"
      <4>1. \A i \in 1..Len(page) : page[i].ts \in Nat /\ page[i].ts < to
        BY <1>1, <2>1, <3>2 DEF FromInv, PageInv, Entry
      <4>2. ~Has(page, t)
        BY <1>2, <2>1, <4>1 DEF Has, Confirmed
      <4>3. ~(page # <<>> /\ t < page[Len(page)].ts)
        BY <1>2, <2>1, <4>1
      <4>. QED  BY <1>1, <3>2, <4>2, <4>3 DEF FromInv, DueInv
    <3>. QED  BY <1>1, <3>1, <3>2
  <2>3. PICK i \in 1..Len(retVal) : retVal[i] = Confirmed(t)
    BY <2>2 DEF Has
  <2>4. retVal[i].confirm /\ retVal[i].ts = t
    BY <2>3 DEF Confirmed
  <2>. QED  BY <2>4 DEF WrittenInv
<1>3. \A j \in 1..Len(written) : \E i \in 1..Len(retVal) : written[j] = retVal[i]
  BY DEF WrittenInv
<1>. QED  BY <1>1, <1>2, <1>3 DEF WriterGetsResult, WrittenInv, Descending

LEMMA WriterStep == PagerInv /\ WriterInv /\ [Next]_vars => WriterInv'
<1> SUFFICES ASSUME PagerInv, WriterInv, [Next]_vars, (query.kind = "written" /\ FromGiven)'
             PROVE  /\ pc' \in {"request", "page"} => WrittenInv'
                    /\ pc' \in {"done", "failed"} => WriterGetsResult'
  BY DEF WriterInv
<1>1. UNCHANGED query /\ query.kind = "written" /\ FromGiven
  BY DEF Next, Download, BarCloses, GetPage, GetPageThrows, TakePage, WriterThrows, Return, vars,
     FromGiven
<1>2. CASE TakePage
  <2>1. WrittenInv /\ pc' \notin {"done", "failed"}
    BY <1>1, <1>2 DEF TakePage, WriterInv
  <2>. QED  BY <1>1, <1>2, <2>1, TakePageWriter
<1>3. CASE Return
  <2>1. WrittenInv /\ pc' = "done"
    BY <1>1, <1>3 DEF Return, WriterInv
  <2>. QED  BY <1>1, <1>3, <2>1, ReturnWriter
<1>4. CASE GetPageThrows \/ WriterThrows
  <2>1. WrittenInv /\ pc' = "failed"
    BY <1>1, <1>4 DEF GetPageThrows, WriterThrows, WriterInv
  <2>. QED  BY <1>1, <1>4, <2>1, FailWriter
<1>5. CASE BarCloses
  BY <1>1, <1>5 DEF BarCloses, WriterInv, WrittenInv, WriterGetsResult, Descending, FromGiven
<1>6. CASE GetPage
  BY <1>1, <1>6 DEF GetPage, WriterInv, WrittenInv, Descending
<1>7. CASE UNCHANGED vars
  BY <1>1, <1>7 DEF vars, WriterInv, WrittenInv, WriterGetsResult, Descending, FromGiven
<1>. QED  BY <1>2, <1>3, <1>4, <1>5, <1>6, <1>7 DEF Next, Download

\* The writer of getHistoricalPrices() is given every confirmed candle that was
\* received once, newest first, and nothing else, also when a page or the writer
\* itself throws: then it has every due bar down to where the next page ends.
THEOREM WritersGetResults == Spec => []WriterGetsResult
<1>1. Init => WriterInv
  <2>1. SUFFICES ASSUME Init PROVE WriterInv
    OBVIOUS
  <2>2. Len(written) = 0 /\ Len(retVal) = 0 /\ pc \notin {"done", "failed"}
    BY <2>1 DEF Init
  <2>. QED  BY <2>2 DEF WriterInv, WrittenInv, Descending
<1>2. WriterInv => WriterGetsResult
  BY DEF WriterInv, WriterGetsResult
<1>. QED  BY <1>1, <1>2, WriterStep, PagerInvariant, PTL DEF Spec

-----------------------------------------------------------------------------
(* How many pages a download asks for.                                     *)

\* Descending times between two bounds are no more than there are between them.
LEMMA DescendingFits ==
  ASSUME NEW s \in Seq(Entry), Descending(s),
         NEW low \in Int, NEW high \in Int, low <= high, Between(s, low, high)
  PROVE  low + Len(s) <= high
<1> DEFINE n == Len(s)
           times == [i \in 1..n |-> s[i].ts]
<1>1. n \in Nat /\ \A i \in 1..n : s[i].ts \in Nat
  <2>1. n \in Nat /\ \A i \in 1..n : s[i] \in Entry
    BY LenProperties, ElementOfSeq
  <2>. QED  BY <2>1 DEF Entry
<1>2. times \in [1..n -> low..(high - 1)]
  BY <1>1 DEF Between
<1>3. \A i, j \in 1..n : i # j => times[i] # times[j]
  BY <1>1 DEF Descending
<1>4. IsFiniteSet(1..n) /\ Cardinality(1..n) = n
  <2> HIDE DEF n
  <2>1. 1 \in Int /\ n \in Int
    BY <1>1
  <2>2. IsFiniteSet(1..n) /\ Cardinality(1..n) = IF 1 > n THEN 0 ELSE n - 1 + 1
    BY <2>1, FS_Interval
  <2>. QED  BY <1>1, <2>2
<1>5. IsFiniteSet(low..(high - 1)) /\ Cardinality(low..(high - 1)) = high - low
  <2>1. high - 1 \in Int
    OBVIOUS
  <2>2. /\ IsFiniteSet(low..(high - 1))
        /\ Cardinality(low..(high - 1))
             = IF low > high - 1 THEN 0 ELSE (high - 1) - low + 1
    BY <2>1, FS_Interval
  <2>. QED  BY <2>2
<1> HIDE DEF times
<1>6. ~(Cardinality(low..(high - 1)) < Cardinality(1..n))
  BY <1>2, <1>3, <1>4, <1>5, FS_PigeonHole
<1> HIDE DEF n
<1>7. ~(high - low < n)
  BY <1>4, <1>5, <1>6
<1>8. low + n <= high
  BY <1>1, <1>7
<1>. QED  BY <1>8 DEF n

\* A download with from asks for a page only while something of its interval
\* is left, and what is left has shrunk by what was received: it sends no more
\* requests than the interval has bars.
THEOREM DownloadsShrink == Spec => []RequestsShrink
<1> DEFINE More == pc = "request" => query.from < to
<1>1. Init => More
  BY DEF Init
<1>2. More /\ [Next]_vars => More'
  BY DEF Next, Download, BarCloses, GetPage, GetPageThrows, TakePage, WriterThrows, Return, vars
<1>3. PagerInv /\ More => RequestsShrink
  <2>1. SUFFICES ASSUME PagerInv, More, pc = "request", FromGiven
                 PROVE  query.from < to /\ to + Len(retVal) <= query.to
    BY DEF RequestsShrink
  <2>2. /\ retVal \in Seq(Entry) /\ to \in Int /\ query.to \in Int /\ to <= query.to
        /\ Descending(retVal) /\ Between(retVal, to, query.to)
    BY <2>1, PagerAssumption
    DEF PagerInv, TypeOK, Query, FromInv, IntervalInv, ReceivedInv
  <2>. QED  BY <2>1, <2>2, DescendingFits
<1> HIDE DEF More
<1>. QED  BY <1>1, <1>2, <1>3, PagerInvariant, PTL DEF Spec

-----------------------------------------------------------------------------
(* The candle that is open.                                                *)

\* Nothing is newer than the open bar.  What is not confirmed was the open bar
\* when its page came, so it stands first, and with nothing before its page.
OpenInv ==
  FromGiven =>
    /\ pc \in {"request", "page"} =>
         \A i \in 1..Len(retVal) :
           retVal[i].ts <= open /\ (~retVal[i].confirm => i = 1)
    /\ pc = "page" =>
         \A i \in 1..Len(page) :
           page[i].ts <= open /\ (~page[i].confirm => retVal = <<>> /\ i = 1)
    /\ pc = "done" => \A i \in 1..Len(retVal) : ~retVal[i].confirm => i = Len(retVal)

LEMMA GetPageOpen ==
  ASSUME PagerInv, OpenInv, GetPage PROVE OpenInv'
<1>1. SUFFICES ASSUME FromGiven, NEW i \in 1..Len(page')
               PROVE  page'[i].ts <= open /\ (~page'[i].confirm => retVal = <<>> /\ i = 1)
  BY DEF OpenInv, GetPage, FromGiven
<1>2. /\ TypeOK /\ FromInv /\ ExchangeInv /\ page' \in Pages
      /\ query.from # -1 /\ pc = "request"
  BY <1>1 DEF PagerInv, GetPage, FromGiven
<1>3. page' \in Seq(Entry) /\ Descending(page') /\ Len(page') \in Nat
  BY <1>2, PageIsWithin, LenProperties
<1>4. \A j \in 1..Len(page') :
        /\ page'[j] \in Entries /\ page'[j].ts \in Nat /\ page'[j].ts <= open
        /\ page'[j].ts < to
        /\ ~page'[j].confirm => page'[j].ts = open
  <2>1. PICK n \in 0..PageSize : page' \in [1..n -> Entries]
    BY <1>2 DEF Pages
  <2>2. page' \in Seq(Entries)
    BY <2>1, PagerAssumption
  <2>3. \A e \in Entries : /\ e.ts \in Nat /\ e.ts <= open /\ e.ts < to
                           /\ ~e.confirm => e.ts = open
    BY <1>2 DEF Entries, Within, ExchangeInv, TypeOK
  <2>4. ASSUME NEW j \in 1..Len(page')
        PROVE  /\ page'[j] \in Entries /\ page'[j].ts \in Nat /\ page'[j].ts <= open
               /\ page'[j].ts < to
               /\ ~page'[j].confirm => page'[j].ts = open
    <3>1. page'[j] \in Entries
      BY <2>2, <2>4, ElementOfSeq
    <3>. QED  BY <2>3, <3>1
  <2>. QED  BY <2>4
<1>5. ASSUME ~page'[i].confirm PROVE retVal = <<>>
  <2>1. SUFFICES ASSUME retVal # <<>> PROVE FALSE
    OBVIOUS
  <2>2. retVal \in Seq(Entry) /\ 1 \in 1..Len(retVal)
    <3>1. retVal \in Seq(Entry) /\ Len(retVal) \in Nat /\ Len(retVal) # 0
      BY <1>2, <2>1, EmptySeq, LenProperties DEF TypeOK
    <3>. QED  BY <3>1
  <2>3. retVal[1].ts \in Nat
    <3>1. retVal[1] \in Entry
      BY <2>2, ElementOfSeq
    <3>. QED  BY <3>1 DEF Entry
  <2>4. to <= retVal[1].ts /\ retVal[1].ts <= open
    BY <1>1, <1>2, <2>2 DEF FromInv, ReceivedInv, Between, OpenInv
  <2>5. open = page'[i].ts /\ page'[i].ts < to /\ to \in Int /\ open \in Nat
    BY <1>2, <1>4, <1>5 DEF TypeOK
  <2>. QED  BY <2>3, <2>4, <2>5
<1>6. ASSUME ~page'[i].confirm PROVE i = 1
  <2>1. SUFFICES ASSUME 1 < i PROVE FALSE
    BY <1>3
  <2>2. 1 \in 1..Len(page')
    BY <1>3
  <2>3. page'[1].ts > page'[i].ts
    BY <1>3, <2>1, <2>2 DEF Descending
  <2>. QED  BY <1>2, <1>4, <1>6, <2>2, <2>3 DEF TypeOK
<1>. QED  BY <1>4, <1>5, <1>6

LEMMA TakePageOpen ==
  ASSUME PagerInv, OpenInv, TakePage PROVE OpenInv'
<1>1. SUFFICES ASSUME FromGiven
               PROVE  /\ \A k \in 1..Len(retVal') :
                           retVal'[k].ts <= open /\ (~retVal'[k].confirm => k = 1)
                      /\ Len(page') = 0
  BY EmptySeq DEF OpenInv, TakePage, FromGiven
<1>2. /\ retVal \in Seq(Entry) /\ page \in Seq(Entry)
      /\ retVal' = retVal \o page /\ page' = <<>> /\ pc = "page"
  BY DEF PagerInv, TypeOK, TakePage, Received
<1>3. /\ Len(retVal) \in Nat /\ Len(page) \in Nat
      /\ Len(retVal') = Len(retVal) + Len(page)
      /\ \A k \in 1..Len(retVal) + Len(page) :
           retVal'[k] = IF k <= Len(retVal) THEN retVal[k] ELSE page[k - Len(retVal)]
  BY <1>2, ConcatProperties, LenProperties
<1>4. ASSUME NEW k \in 1..Len(retVal')
      PROVE  retVal'[k].ts <= open /\ (~retVal'[k].confirm => k = 1)
  <2>1. CASE k <= Len(retVal)
    <3>1. k \in 1..Len(retVal) /\ retVal'[k] = retVal[k]
      BY <1>3, <1>4, <2>1
    <3>. QED  BY <1>1, <1>2, <3>1 DEF OpenInv
  <2>2. CASE k > Len(retVal)
    <3>1. k - Len(retVal) \in 1..Len(page) /\ retVal'[k] = page[k - Len(retVal)]
      BY <1>3, <1>4, <2>2
    <3>2. /\ retVal'[k].ts <= open
          /\ ~retVal'[k].confirm => retVal = <<>> /\ k - Len(retVal) = 1
      BY <1>1, <1>2, <3>1 DEF OpenInv
    <3>3. retVal = <<>> => Len(retVal) = 0
      BY EmptySeq
    <3>. QED  BY <1>3, <1>4, <3>2, <3>3
  <2>. QED  BY <1>3, <1>4, <2>1, <2>2
<1>. QED  BY <1>2, <1>4, EmptySeq

LEMMA ReturnOpen ==
  ASSUME PagerInv, OpenInv, Return PROVE OpenInv'
<1>1. SUFFICES ASSUME FromGiven, NEW k \in 1..Len(Reverse(Kept)),
                      ~Reverse(Kept)[k].confirm
               PROVE  k = Len(Reverse(Kept))
  BY DEF OpenInv, Return, FromGiven
<1>2. /\ Kept \in Seq(Entry)
      /\ Len(Kept) <= Len(retVal)
      /\ \A i \in 1..Len(Kept) : Kept[i] = retVal[i]
  BY KeptIsPrefix DEF PagerInv, TypeOK
<1>3. Len(Kept) \in Nat /\ Len(retVal) \in Nat
  BY <1>2, LenProperties DEF PagerInv, TypeOK
<1>4. /\ Len(Reverse(Kept)) = Len(Kept)
      /\ Reverse(Kept)[k] = Kept[Len(Kept) - k + 1]
      /\ k \in 1..Len(Kept)
  <2>1. Len(Reverse(Kept)) = Len(Kept)
    BY <1>3 DEF Reverse
  <2>. QED  BY <1>1, <1>3, <2>1 DEF Reverse
<1>5. Len(Kept) - k + 1 \in 1..Len(Kept) /\ Len(Kept) - k + 1 \in 1..Len(retVal)
  BY <1>2, <1>3, <1>4
<1>6. Len(Kept) - k + 1 = 1
  BY <1>1, <1>2, <1>4, <1>5 DEF OpenInv, Return
<1>. QED  BY <1>3, <1>4, <1>6

\* Of the candles that a download with a from returns, all but the newest are
\* confirmed: dropping that one, as the comment has it, would be enough.
THEOREM DownloadsConfirmAllButNewest == Spec => []OnlyNewestIsOpen
<1>1. Init => OpenInv
  <2>1. Len(<<>>) = 0
    BY EmptySeq
  <2>. QED  BY <2>1 DEF Init, OpenInv
<1>2. PagerInv /\ OpenInv /\ [Next]_vars => OpenInv'
  <2>1. SUFFICES ASSUME PagerInv, OpenInv, [Next]_vars
                 PROVE  OpenInv'
    OBVIOUS
  <2>2. CASE BarCloses
    <3>1. /\ open \in Nat /\ open' = open + 1
          /\ \A i \in 1..Len(retVal) : retVal[i].ts \in Nat
          /\ \A i \in 1..Len(page) : page[i].ts \in Nat
      <4>1. /\ \A i \in 1..Len(retVal) : retVal[i] \in Entry
            /\ \A i \in 1..Len(page) : page[i] \in Entry
        BY <2>1, ElementOfSeq DEF PagerInv, TypeOK
      <4>. QED  BY <2>1, <2>2, <4>1 DEF PagerInv, TypeOK, Entry, BarCloses
    <3>2. UNCHANGED <<query, pc, page, retVal>>
      BY <2>2 DEF BarCloses
    <3>. QED  BY <2>1, <3>1, <3>2 DEF OpenInv, FromGiven
  <2>3. CASE GetPageThrows \/ WriterThrows
    BY <2>1, <2>3 DEF GetPageThrows, WriterThrows, OpenInv, FromGiven
  <2>4. CASE UNCHANGED vars
    BY <2>1, <2>4 DEF vars, OpenInv, FromGiven
  <2>. QED  BY <2>1, <2>2, <2>3, <2>4, GetPageOpen, TakePageOpen, ReturnOpen
            DEF Next, Download
<1>3. OpenInv => OnlyNewestIsOpen
  BY DEF OpenInv, OnlyNewestIsOpen
<1>. QED  BY <1>1, <1>2, <1>3, PagerInvariant, PTL DEF Spec
=============================================================================
