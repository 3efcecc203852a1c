-------------------------- MODULE TushareSyncProofs --------------------------
(***************************************************************************)
(* Proofs about TushareSync, for any tickers, days, announcements, phases  *)
(* and number of failures.  The invariants are about the order of the      *)
(* buffer: what a row needs on the NAS is there, or in a row before it.    *)
(***************************************************************************)
EXTENDS TushareSync, SequenceTheorems, FiniteSetTheorems, TLAPS

Rows == 1..Len(buffer)

(* Row i is of this table, and about this ticker.                          *)
IsRow(i, table, t) == buffer[i].table = table /\ buffer[i].ticker = t

(* Row i is an UPDATE of list_date, or the list itself, and covers t.      *)
Covers(i, table, t) == buffer[i].table = table /\ t \in buffer[i].set

DataOK ==
  /\ TypeOK
  /\ buffer \in Seq(Row)

(* The bars of a ticker go from the first day to some day.                 *)
NoGaps ==
  \A t \in Ticker : \A d, e \in Day :
    d <= e /\ prices[t][e] # NoRow => prices[t][d] # NoRow

(* The bars of every mark that waits come before it, or are on the NAS.    *)
MarksBacked ==
  \A i \in Rows : \A t \in Ticker : IsRow(i, "ok", t) =>
    \/ prices[t][buffer[i].last] # NoRow
    \/ \E j \in 1..i - 1 : IsRow(j, "prices", t) /\ buffer[i].last <= buffer[j].last

(* A stock of a run's own list has its date, or an UPDATE of it waits that *)
(* will find the stock: it is on the NAS, or in a row before the UPDATE.   *)
DatesBacked ==
  \A t \in covered :
    \/ stocks[t] = "dated"
    \/ \E i \in Rows :
         /\ Covers(i, "dates", t)
         /\ stocks[t] # "absent" \/ \E j \in 1..i - 1 : Covers(j, "stocks", t)

(* Several workers deliver rows of one table that depend on nothing.       *)
ParallelRows ==
  phase = "parallel flush" => \A i \in Rows : buffer[i].table = "valuation"

(* The weekly bars on the NAS that are derived ones, those that wait, in   *)
(* their order, and the bars on the NAS: each is derived from what the     *)
(* next one has.                                                           *)
WeeklyRises ==
  \A t \in Ticker :
    /\ t \in derived => weekly[t] \subseteq Stored(prices, t)
    /\ \A i \in Rows : IsRow(i, "weekly", t) =>
         /\ t \in derived => weekly[t] \subseteq buffer[i].from
         /\ buffer[i].from \subseteq Stored(prices, t)
         /\ \A j \in 1..i - 1 : IsRow(j, "weekly", t) => buffer[j].from \subseteq buffer[i].from

(* A day of a series that is stored or waits.                              *)
Present(s, d) == d \in series[s] \/ \E i \in Rows : Covers(i, s, d)

(* It is, or has nothing to store, or was asked for in vain.               *)
Had(s, d) ==
  \/ s = "returns" /\ d \notin Announced
  \/ d \in failed[s]
  \/ Present(s, d)

(* Or a request was given a start after d, and not after e.                *)
Asked(s, d, e) == Had(s, d) \/ \E from \in starts[s] : d < from /\ from <= e

(* So are all the days before one that is stored or waits, and all that    *)
(* the phase has gone past.                                                *)
DaysInOrder ==
  \A s \in Series :
    /\ \A e \in Day : Present(s, e) => \A d \in 1..e : Asked(s, d, e)
    /\ phase = s => \A e \in days : \A d \in 1..e : d \in days \/ Asked(s, d, e)
-----------------------------------------------------------------------------
(***************************************************************************)
(* The buffer as a sequence.                                               *)
(***************************************************************************)

(* Rows that are written come after those that are there.                  *)
LEMMA Appended ==
  ASSUME NEW b \in Seq(Row), NEW q \in Seq(Row)
  PROVE  /\ Len(b) \in Nat /\ Len(q) \in Nat
         /\ b \o q \in Seq(Row) /\ Len(b \o q) = Len(b) + Len(q)
         /\ \A i \in 1..Len(b) : (b \o q)[i] = b[i]
         /\ \A i \in 1..Len(q) : (b \o q)[Len(b) + i] = q[i]
<1> DEFINE c == b \o q
<1>1. /\ c \in Seq(Row) /\ Len(c) = Len(b) + Len(q) /\ Len(b) \in Nat /\ Len(q) \in Nat
      /\ \A i \in 1..Len(b) + Len(q) : c[i] = IF i <= Len(b) THEN b[i] ELSE q[i - Len(b)]
  BY ConcatProperties, LenProperties
<1> HIDE DEF c
<1>2. \A i \in 1..Len(b) : c[i] = b[i]
  BY <1>1
<1>3. ASSUME NEW i \in 1..Len(q) PROVE c[Len(b) + i] = q[i]
  <2>1. Len(b) + i \in 1..Len(b) + Len(q) /\ ~ Len(b) + i <= Len(b) /\ (Len(b) + i) - Len(b) = i
    BY <1>1
  <2> QED BY <1>1, <2>1
<1> QED BY <1>1, <1>2, <1>3 DEF c

(* A row that is deleted leaves the others in their order.                 *)
LEMMA Removed ==
  ASSUME NEW b \in Seq(Row), NEW n \in 1..Len(b)
  PROVE  /\ Len(b) \in Nat
         /\ RemoveAt(b, n) \in Seq(Row) /\ Len(RemoveAt(b, n)) = Len(b) - 1
         /\ \A i \in 1..Len(b) - 1 : RemoveAt(b, n)[i] = IF i < n THEN b[i] ELSE b[i + 1]
<1> DEFINE x == SubSeq(b, 1, n - 1)
           y == SubSeq(b, n + 1, Len(b))
<1>1. Len(b) \in Nat /\ \A i \in 1..Len(b) : b[i] \in Row
  BY LenProperties, ElementOfSeq
<1>2. /\ x \in Seq(Row) /\ Len(x) = n - 1
      /\ \A i \in 1..n - 1 : x[i] = b[i]
  <2>1. 1 \in Int /\ n - 1 \in Int /\ \A i \in 1..n - 1 : b[i] \in Row
    BY <1>1
  <2>2. /\ x \in Seq(Row) /\ Len(x) = IF 1 <= n - 1 THEN (n - 1) - 1 + 1 ELSE 0
        /\ \A i \in 1..(n - 1) - 1 + 1 : x[i] = b[1 + i - 1]
    BY <2>1, SubSeqProperties
  <2> HIDE DEF x
  <2> QED BY <1>1, <2>2
<1>3. /\ y \in Seq(Row) /\ Len(y) = Len(b) - n
      /\ \A i \in 1..Len(b) - n : y[i] = b[n + i]
  <2>1. n + 1 \in Int /\ Len(b) \in Int /\ \A i \in n + 1..Len(b) : b[i] \in Row
    BY <1>1
  <2>2. /\ y \in Seq(Row) /\ Len(y) = IF n + 1 <= Len(b) THEN Len(b) - (n + 1) + 1 ELSE 0
        /\ \A i \in 1..Len(b) - (n + 1) + 1 : y[i] = b[n + 1 + i - 1]
    BY <2>1, SubSeqProperties
  <2> HIDE DEF y
  <2> QED BY <1>1, <2>2
<1> HIDE DEF x, y
<1>4. /\ x \o y \in Seq(Row) /\ Len(x \o y) = Len(b) - 1
      /\ \A i \in 1..Len(b) - 1 : (x \o y)[i] = IF i < n THEN b[i] ELSE b[i + 1]
  <2>1. /\ x \o y \in Seq(Row) /\ Len(x \o y) = Len(x) + Len(y)
        /\ \A i \in 1..Len(x) + Len(y) : (x \o y)[i] = IF i <= Len(x) THEN x[i] ELSE y[i - Len(x)]
    BY <1>2, <1>3, ConcatProperties
  <2>2. ASSUME NEW i \in 1..Len(b) - 1
        PROVE  (x \o y)[i] = IF i < n THEN b[i] ELSE b[i + 1]
    <3>1. CASE i < n
      BY <1>1, <1>2, <1>3, <2>1, <3>1
    <3>2. CASE ~ i < n
      <4>1. i - (n - 1) \in 1..Len(b) - n /\ n + (i - (n - 1)) = i + 1 /\ ~ i <= n - 1
        BY <1>1, <3>2
      <4>2. i \in 1..Len(x) + Len(y) /\ (x \o y)[i] = y[i - (n - 1)]
        BY <1>1, <1>2, <1>3, <2>1, <4>1
      <4>3. y[i - (n - 1)] = b[n + (i - (n - 1))]
        BY <1>3, <4>1
      <4> QED BY <3>2, <4>1, <4>2, <4>3
    <3> QED BY <3>1, <3>2
  <2> QED BY <1>1, <1>2, <1>3, <2>1, <2>2
<1> QED BY <1>1, <1>4 DEF RemoveAt, x, y
-----------------------------------------------------------------------------
(***************************************************************************)
(* The rows that the phases write.                                         *)
(***************************************************************************)

(* These are no days of a series.                                          *)
NoSeries(q) == \A i \in 1..Len(q) : q[i].table \notin Series

(* Bars come before their mark, and weekly bars come alone, as derived     *)
(* from the bars on the NAS.                                               *)
Whole(q) ==
  \A i \in 1..Len(q) :
    /\ q[i].table = "ok" =>
         /\ i = 2 /\ q[1].table = "prices"
         /\ q[1].ticker = q[2].ticker /\ q[1].last = q[2].last
    /\ q[i].table = "weekly" => Len(q) = 1 /\ q[1].from = Stored(prices, q[1].ticker)

LEMMA NoRows == <<>> \in Seq(Row) /\ Whole(<<>>) /\ NoSeries(<<>>)
BY DEF Whole, NoSeries

LEMMA OneRow ==
  ASSUME NEW r \in Row, r.table # "ok",
         r.table = "weekly" => r.from = Stored(prices, r.ticker)
  PROVE  <<r>> \in Seq(Row) /\ Whole(<<r>>) /\ (r.table \notin Series => NoSeries(<<r>>))
BY DEF Whole, NoSeries

LEMMA ListRowsOf ==
  ASSUME NEW S \in SUBSET Ticker
  PROVE  /\ ListRows(S) \in Seq(Row) /\ Whole(ListRows(S)) /\ NoSeries(ListRows(S))
         /\ Len(ListRows(S)) = 2
         /\ ListRows(S)[1] = [table |-> "stocks", set |-> S]
         /\ ListRows(S)[2] = [table |-> "dates", set |-> Ticker]
         /\ <<ListRows(S)[1]>> \in Seq(Row) /\ Whole(<<ListRows(S)[1]>>)
         /\ NoSeries(<<ListRows(S)[1]>>)
<1> DEFINE x == [table |-> "stocks", set |-> S]
           y == [table |-> "dates", set |-> Ticker]
<1>1. x \in Row /\ y \in Row
  BY DEF Row
<1>2. x.table = "stocks" /\ y.table = "dates"
  OBVIOUS
<1>3. ListRows(S) = <<x, y>>
  BY DEF ListRows
<1> HIDE DEF x, y
<1>4. <<x, y>> \in Seq(Row) /\ Whole(<<x, y>>) /\ <<x>> \in Seq(Row) /\ Whole(<<x>>)
      /\ NoSeries(<<x, y>>) /\ NoSeries(<<x>>)
  BY <1>1, <1>2 DEF Whole, NoSeries, Series
<1> QED BY <1>3, <1>4 DEF x, y

LEMMA BarsOf ==
  ASSUME NEW t \in Ticker, NEW last \in Day
  PROVE  LET error == [table |-> "error", ticker |-> t]
             one   == <<Bars(t, last)[1]>>
         IN  /\ Bars(t, last) \in Seq(Row) /\ Whole(Bars(t, last)) /\ NoSeries(Bars(t, last))
             /\ one \in Seq(Row) /\ Whole(one) /\ NoSeries(one)
             /\ \A rows \in {<<>>, one} : /\ Append(rows, error) \in Seq(Row)
                                         /\ Whole(Append(rows, error))
                                         /\ NoSeries(Append(rows, error))
<1> DEFINE x == [table |-> "prices", ticker |-> t, last |-> last]
           y == [table |-> "ok", ticker |-> t, last |-> last]
           z == [table |-> "error", ticker |-> t]
<1>1. x \in Row /\ y \in Row /\ z \in Row
  BY DEF Row
<1>2. /\ x.table = "prices" /\ y.table = "ok" /\ x.ticker = y.ticker /\ x.last = y.last
      /\ z.table = "error"
  OBVIOUS
<1>3. Bars(t, last) = <<x, y>>
  BY DEF Bars
<1> HIDE DEF x, y, z
<1>4. <<x, y>> \in Seq(Row) /\ Whole(<<x, y>>) /\ <<x>> \in Seq(Row) /\ Whole(<<x>>)
      /\ NoSeries(<<x, y>>) /\ NoSeries(<<x>>)
  BY <1>1, <1>2 DEF Whole, NoSeries, Series
<1> DEFINE alone == Append(<<>>, z)
           after == Append(<<x>>, z)
<1>5. /\ alone \in Seq(Row) /\ Len(alone) = 1 /\ alone[1] = z
      /\ after \in Seq(Row) /\ Len(after) = 2 /\ after[1] = x /\ after[2] = z
  <2>1. <<>> \in Seq(Row) /\ Len(<<>>) = 0 /\ <<x>> \in Seq(Row) /\ Len(<<x>>) = 1 /\ <<x>>[1] = x
    BY <1>1
  <2> QED BY <1>1, <2>1, AppendProperties
<1> HIDE DEF alone, after
<1>6. Whole(alone) /\ Whole(after) /\ NoSeries(alone) /\ NoSeries(after)
  BY <1>2, <1>5 DEF Whole, NoSeries, Series
<1> QED BY <1>3, <1>4, <1>5, <1>6 DEF z, alone, after

(* Weekly bars are derived from days of the calendar.                      *)
LEMMA DerivedOf ==
  ASSUME NEW t \in Ticker
  PROVE  Derived(t) \in Seq(Row) /\ Whole(Derived(t)) /\ NoSeries(Derived(t))
<1> DEFINE x == [table |-> "weekly", ticker |-> t, from |-> Stored(prices, t)]
<1>1. x \in Row
  BY DEF Row, Stored
<1>2. x.table = "weekly" /\ x.table \notin Series /\ x.from = Stored(prices, x.ticker)
  BY DEF Series
<1>3. Derived(t) = <<x>>
  BY DEF Derived
<1> HIDE DEF x
<1> QED BY <1>1, <1>2, <1>3, OneRow
-----------------------------------------------------------------------------
(***************************************************************************)
(* The effect of a row, and of the daily run, on the tables.               *)
(***************************************************************************)

(* A row of a table that names a ticker, days or tickers.                  *)
LEMMA RowFields ==
  ASSUME NEW r \in Row
  PROVE  /\ r.table \in {"prices", "ok"} => r.ticker \in Ticker /\ r.last \in Day
         /\ r.table = "error" => r.ticker \in Ticker
         /\ r.table = "weekly" => r.ticker \in Ticker /\ r.from \in SUBSET Day
         /\ r.table \in {"stocks", "dates"} => r.set \in SUBSET Ticker
         /\ r.table \in Series => r.set \in SUBSET Day
BY DEF Row, Series

(* An upsert of the bars up to a day leaves no gap, and loses no bar.      *)
LEMMA Upserted ==
  ASSUME NEW P \in Prices, NEW t \in Ticker, NEW last \in Day,
         \A d, e \in Day : d <= e /\ P[t][e] # NoRow => P[t][d] # NoRow,
         NEW Q, Q = Upsert(P, t, 1..last, 1)
  PROVE  /\ Q \in Prices
         /\ \A u \in Ticker \ {t} : Q[u] = P[u]
         /\ \A d \in Day : Q[t][d] = IF d \in 1..last THEN 1 ELSE P[t][d]
         /\ \A d, e \in Day : d <= e /\ Q[t][e] # NoRow => Q[t][d] # NoRow
<1> DEFINE row == [d \in Day |-> IF d \in 1..last THEN 1 ELSE P[t][d]]
<1>1. P \in [Ticker -> [Day -> Nat]] /\ row \in [Day -> Nat]
  BY DEF Prices
<1>2. Q = [P EXCEPT ![t] = row]
  BY DEF Upsert
<1>3. Q[t] = row /\ (\A u \in Ticker \ {t} : Q[u] = P[u]) /\ Q \in [Ticker -> [Day -> Nat]]
  BY <1>1, <1>2
<1>4. \A d \in Day : Q[t][d] = IF d \in 1..last THEN 1 ELSE P[t][d]
  BY <1>3
<1> HIDE DEF row
<1>5. ASSUME NEW d \in Day, NEW e \in Day, d <= e, Q[t][e] # NoRow PROVE Q[t][d] # NoRow
  <2>1. d \in Nat /\ e \in Nat /\ last \in Nat /\ d >= 1
    BY LastDayAssumption DEF Day
  <2> QED BY <1>4, <1>5, <2>1 DEF NoRow
<1> QED BY <1>3, <1>4, <1>5 DEF Prices

StockStatus == {"absent", "listed", "dated"}

(* The stocks: none is lost, none loses its date.                          *)
StocksKept ==
  \A t \in Ticker : /\ stocks[t] # "absent" => stocks'[t] # "absent"
                    /\ stocks[t] = "dated" => stocks'[t] = "dated"

PricesKept ==
  \A t \in Ticker, d \in Day : prices[t][d] # NoRow => prices'[t][d] # NoRow

LEMMA ExecutedStocks ==
  ASSUME DataOK, NEW r \in Row, Execute(r)
  PROVE  /\ stocks' \in [Ticker -> StockStatus] /\ StocksKept
         /\ r.table = "stocks" => \A t \in r.set : stocks'[t] # "absent"
         /\ r.table = "dates" => \A t \in r.set : stocks[t] # "absent" => stocks'[t] = "dated"
<1>1. stocks' = [t \in Ticker |->
         IF r.table = "stocks" /\ t \in r.set /\ stocks[t] = "absent" THEN "listed"
         ELSE IF r.table = "dates" /\ t \in r.set /\ stocks[t] = "listed" THEN "dated"
         ELSE stocks[t]]
  BY DEF Execute
<1>2. stocks \in [Ticker -> StockStatus]
  BY DEF DataOK, TypeOK, StockStatus
<1>3. r.table \in {"stocks", "dates"} => r.set \in SUBSET Ticker
  BY RowFields
<1> QED BY <1>1, <1>2, <1>3 DEF StocksKept, StockStatus

LEMMA ExecutedPrices ==
  ASSUME DataOK, NoGaps, NEW r \in Row, Execute(r)
  PROVE  /\ prices' \in Prices /\ PricesKept /\ NoGaps'
         /\ r.table = "prices" => \A d \in 1..r.last : prices'[r.ticker][d] # NoRow
<1>0. prices \in Prices
  BY DEF DataOK, TypeOK
<1>1. CASE r.table = "prices"
  <2>1. r.ticker \in Ticker /\ r.last \in Day /\ prices' = Upsert(prices, r.ticker, 1..r.last, 1)
    BY <1>1, RowFields DEF Execute
  <2> DEFINE t == r.ticker
             last == r.last
  <2>2. \A d, e \in Day : d <= e /\ prices[t][e] # NoRow => prices[t][d] # NoRow
    BY <2>1 DEF NoGaps
  <2>3. /\ prices' \in Prices
        /\ \A u \in Ticker \ {t} : prices'[u] = prices[u]
        /\ \A d \in Day : prices'[t][d] = IF d \in 1..last THEN 1 ELSE prices[t][d]
        /\ \A d, e \in Day : d <= e /\ prices'[t][e] # NoRow => prices'[t][d] # NoRow
    BY <1>0, <2>1, <2>2, Upserted
  <2>4. 1..last \subseteq Day
    BY <2>1, LastDayAssumption DEF Day
  <2> HIDE DEF t, last
  <2>5. PricesKept
    BY <2>3 DEF PricesKept, NoRow
  <2>6. NoGaps'
    BY <2>3 DEF NoGaps
  <2>7. \A d \in 1..last : prices'[t][d] # NoRow
    BY <2>3, <2>4 DEF NoRow
  <2> QED BY <2>3, <2>5, <2>6, <2>7 DEF t, last
<1>2. CASE r.table # "prices"
  <2>1. prices' = prices
    BY <1>2 DEF Execute
  <2> QED BY <1>0, <1>2, <2>1 DEF NoGaps, PricesKept
<1> QED BY <1>1, <1>2

(* A mark of success is of an ok row, or was there.                        *)
LEMMA ExecutedLog ==
  ASSUME DataOK, NEW r \in Row, Execute(r)
  PROVE  /\ log' \in [Ticker -> SyncRow]
         /\ \A t \in Ticker : log'[t].status = "ok" =>
              \/ log'[t] = log[t]
              \/ r.table = "ok" /\ r.ticker = t /\ log'[t].last = r.last
<1>0. log \in [Ticker -> SyncRow] /\ today \in 0..LastDay
  BY LastDayAssumption DEF DataOK, TypeOK, Day
<1>1. CASE r.table = "ok"
  <2>1. r.ticker \in Ticker /\ r.last \in 0..LastDay
    BY <1>1, RowFields, LastDayAssumption DEF Day
  <2>2. log' = [log EXCEPT ![r.ticker] = [status |-> "ok", last |-> r.last]]
    BY <1>1 DEF Execute, SyncOk
  <2>3. [status |-> "ok", last |-> r.last] \in SyncRow
    BY <2>1 DEF SyncRow
  <2> QED BY <1>0, <1>1, <2>1, <2>2, <2>3
<1>2. CASE r.table = "error"
  <2> DEFINE t == r.ticker
             mark == [status |-> "error", last |-> IF log[t].status = "none" THEN today ELSE log[t].last]
  <2>1. t \in Ticker /\ log' = [log EXCEPT ![t] = mark]
    BY <1>2, RowFields DEF Execute, SyncError
  <2>2. mark \in SyncRow /\ mark.status = "error"
    BY <1>0, <2>1 DEF SyncRow
  <2> HIDE DEF mark, t
  <2> QED BY <1>0, <2>1, <2>2
<1>3. CASE r.table \notin {"ok", "error"}
  <2>1. log' = log
    BY <1>3 DEF Execute
  <2> QED BY <1>0, <2>1
<1> QED BY <1>1, <1>2, <1>3

LEMMA ExecutedWeekly ==
  ASSUME DataOK, NEW r \in Row, Execute(r)
  PROVE  /\ weekly' \in [Ticker -> SUBSET Day] /\ derived' \subseteq Ticker
         /\ \A t \in Ticker : t \in derived' <=> t \in derived \/ (r.table = "weekly" /\ r.ticker = t)
         /\ \A t \in Ticker : weekly'[t] = IF r.table = "weekly" /\ r.ticker = t THEN r.from
                                           ELSE weekly[t]
<1>1. weekly \in [Ticker -> SUBSET Day] /\ derived \subseteq Ticker
  BY DEF DataOK, TypeOK
<1>2. r.table = "weekly" => r.ticker \in Ticker /\ r.from \in SUBSET Day
  BY RowFields
<1>3. weekly' = IF r.table = "weekly" THEN [weekly EXCEPT ![r.ticker] = r.from] ELSE weekly
  BY DEF Execute, Weekly
<1>4. derived' = IF r.table = "weekly" THEN derived \cup {r.ticker} ELSE derived
  BY DEF Execute
<1> QED BY <1>1, <1>2, <1>3, <1>4

LEMMA ExecutedSeries ==
  ASSUME DataOK, NEW r \in Row, Execute(r)
  PROVE  /\ series' \in [Series -> SUBSET Day]
         /\ \A s \in Series : series'[s] = IF r.table = s THEN series[s] \cup r.set ELSE series[s]
<1>1. series \in [Series -> SUBSET Day]
  BY DEF DataOK, TypeOK
<1>2. r.table \in Series => r.set \in SUBSET Day
  BY RowFields
<1>3. series' = IF r.table \in Series THEN [series EXCEPT ![r.table] = @ \cup r.set] ELSE series
  BY DEF Execute
<1> QED BY <1>1, <1>2, <1>3

(* The daily run brings the bars and marks of active tickers up to date.   *)
LEMMA DailyTables ==
  ASSUME DataOK, NoGaps, DailyRun
  PROVE  /\ stocks' \in [Ticker -> StockStatus] /\ StocksKept
         /\ prices' \in Prices /\ PricesKept /\ NoGaps'
         /\ log' \in [Ticker -> SyncRow]
         /\ \A t \in Ticker : \/ log'[t] = log[t]
                              \/ log'[t].last = today /\ prices'[t][today] # NoRow
<1>1. today \in Day /\ today \in 0..LastDay /\ today \in 1..today
  BY LastDayAssumption DEF DataOK, TypeOK, Day
<1>2. PICK active \in SUBSET Ticker :
        /\ stocks' = [t \in Ticker |->
             IF t \in active /\ stocks[t] = "absent" THEN "listed" ELSE stocks[t]]
        /\ prices' = [t \in Ticker |->
             IF t \in active THEN Upsert(prices, t, 1..today, 1)[t] ELSE prices[t]]
        /\ log' = [t \in Ticker |-> IF t \in active THEN SyncOk(log, t, today)[t] ELSE log[t]]
  <2>1. PICK S \in SUBSET Ticker :
          LET active == S \cup {t \in Ticker : stocks[t] # "absent"} IN
          /\ stocks' = [t \in Ticker |->
               IF t \in active /\ stocks[t] = "absent" THEN "listed" ELSE stocks[t]]
          /\ prices' = [t \in Ticker |->
               IF t \in active THEN Upsert(prices, t, 1..today, 1)[t] ELSE prices[t]]
          /\ log' = [t \in Ticker |-> IF t \in active THEN SyncOk(log, t, today)[t] ELSE log[t]]
    BY Zenon DEF DailyRun
  <2> DEFINE A == S \cup {t \in Ticker : stocks[t] # "absent"}
  <2>2. A \in SUBSET Ticker
    OBVIOUS
  <2> QED BY <2>1, <2>2, Zenon
<1>3. stocks' \in [Ticker -> StockStatus] /\ StocksKept
  <2>1. stocks \in [Ticker -> StockStatus]
    BY DEF DataOK, TypeOK, StockStatus
  <2> QED BY <1>2, <2>1 DEF StocksKept, StockStatus
<1>4. ASSUME NEW t \in Ticker
      PROVE  /\ prices'[t] \in [Day -> Nat]
             /\ \A d \in Day : prices'[t][d] =
                  IF t \in active /\ d \in 1..today THEN 1 ELSE prices[t][d]
             /\ \A d, e \in Day : d <= e /\ prices'[t][e] # NoRow => prices'[t][d] # NoRow
  <2>0. prices \in Prices
    BY DEF DataOK, TypeOK
  <2>1. \A d, e \in Day : d <= e /\ prices[t][e] # NoRow => prices[t][d] # NoRow
    BY DEF NoGaps
  <2> DEFINE Q == Upsert(prices, t, 1..today, 1)
  <2>2. /\ Q \in Prices
        /\ \A d \in Day : Q[t][d] = IF d \in 1..today THEN 1 ELSE prices[t][d]
        /\ \A d, e \in Day : d <= e /\ Q[t][e] # NoRow => Q[t][d] # NoRow
    <3>1. today \in Day
      BY <1>1
    <3> QED BY <2>0, <2>1, <3>1, Upserted
  <2>3. prices'[t] = IF t \in active THEN Q[t] ELSE prices[t]
    BY <1>2
  <2> HIDE DEF Q
  <2> QED BY <2>0, <2>1, <2>2, <2>3 DEF Prices
<1>5. prices' \in Prices /\ PricesKept /\ NoGaps'
  <2>1. prices' = [t \in Ticker |-> prices'[t]]
    BY <1>2
  <2>2. prices' \in Prices
    BY <1>4, <2>1 DEF Prices
  <2> QED BY <1>4, <2>2 DEF PricesKept, NoGaps, NoRow
<1>6. /\ log' \in [Ticker -> SyncRow]
      /\ \A t \in Ticker : log'[t] = log[t] \/ (t \in active /\ log'[t].last = today)
  <2>1. log \in [Ticker -> SyncRow]
    BY DEF DataOK, TypeOK
  <2>2. log' = [t \in Ticker |-> IF t \in active THEN [status |-> "ok", last |-> today] ELSE log[t]]
    BY <1>2, <2>1 DEF SyncOk
  <2>3. [status |-> "ok", last |-> today] \in SyncRow
    BY <1>1 DEF SyncRow
  <2> QED BY <2>1, <2>2, <2>3
<1>7. \A t \in active : prices'[t][today] # NoRow
  BY <1>1, <1>4 DEF NoRow
<1> QED BY <1>3, <1>5, <1>6, <1>7
-----------------------------------------------------------------------------
(***************************************************************************)
(* What a step does to the buffer and to the tables: it adds rows, or the  *)
(* daily or weekly run writes, or a flush executes a row, and deletes it   *)
(* or not.                                                                 *)
(***************************************************************************)

Adds ==
  /\ UNCHANGED <<nasVars, derived>>
  /\ \E q \in Seq(Row) :
       /\ Whole(q) /\ buffer' = buffer \o q
       /\ NoSeries(q) \/ \E s \in Series : SeriesOf(s)

Removes(i) ==
  /\ phase \in Flush /\ (phase = "flush" => i = 1)
  /\ Execute(buffer[i]) /\ buffer' = RemoveAt(buffer, i)

Repeats(i) ==
  /\ phase \in Flush /\ (phase = "flush" => i = 1)
  /\ Execute(buffer[i]) /\ buffer' = buffer

Weeks == \E t \in Ticker : WeeklyRun(t)

LEMMA Alone ==
  ASSUME buffer \in Seq(Row), UNCHANGED <<nasVars, buffer, derived>> PROVE Adds
<1>1. buffer' = buffer \o <<>> /\ UNCHANGED <<nasVars, derived>>
  BY ConcatEmptySeq
<1> QED BY <1>1, NoRows DEF Adds

(* The row of a request, if it brings any.                                 *)
LEMMA SeriesRow ==
  ASSUME NEW s \in Series, NEW set \in SUBSET Day
  PROVE  LET q == IF set = {} THEN <<>> ELSE <<[table |-> s, set |-> set]>>
         IN  q \in Seq(Row) /\ Whole(q)
<1> DEFINE x == [table |-> s, set |-> set]
<1>1. x \in Row /\ x.table \notin {"ok", "weekly"}
  BY DEF Row, Series
<1> HIDE DEF x
<1>2. <<x>> \in Seq(Row) /\ Whole(<<x>>)
  BY <1>1, OneRow
<1> QED BY <1>2, NoRows DEF x

(* A request is about days that the phase has left.                        *)
LEMMA AnswersAre ==
  ASSUME DataOK, NEW s \in Series, NEW set \in Answers(s)
  PROVE  set \in SUBSET Window(s) /\ Window(s) \in SUBSET days /\ set \in SUBSET Day
<1>1. Window(s) \in SUBSET days
  BY DEF Window
<1>2. days \in SUBSET Day
  BY LastDayAssumption DEF DataOK, TypeOK, Day
<1>3. set \in SUBSET Window(s)
  BY DEF Answers
<1> QED BY <1>1, <1>2, <1>3

LEMMA StepKinds ==
  ASSUME DataOK, [Next]_vars
  PROVE  \/ Adds \/ DailyRun \/ Weeks
         \/ (\E i \in Rows : Removes(i)) \/ (\E i \in Rows : Repeats(i))
<1>0. buffer \in Seq(Row) /\ today \in Day
  BY DEF DataOK, TypeOK
<1>1. CASE \/ NextDay \/ PhaseEnds \/ FetchEnds \/ FlushEnds
           \/ (\E p \in Scopes : Enter(p)) \/ (\E f \in Flush : FlushCommand(f))
           \/ (\E scope \in scopes \cup {"all"}, from \in {NoStart} \cup Starts : Start(scope, from))
           \/ UNCHANGED vars
  <2>1. UNCHANGED <<nasVars, buffer, derived>>
    BY <1>1, Zenon DEF NextDay, PhaseEnds, FetchEnds, FlushEnds, Enter, FlushCommand, Start, vars,
       history
  <2> QED BY <1>0, <2>1, Alone
<1>2. CASE Lists
  <2>1. PICK S \in SUBSET Ticker : buffer' = buffer \o ListRows(S)
    BY <1>2, Zenon DEF Lists, Turn, Write
  <2>2. UNCHANGED <<nasVars, derived>>
    BY <1>2, Zenon DEF Lists, Turn
  <2> QED BY <2>1, <2>2, ListRowsOf DEF Adds
<1>3. ASSUME NEW t \in Ticker, PricesOf(t) PROVE Adds
  <2>1. PICK last \in {today - 1, today} \ {0} :
          \/ Turn("prices", Bars(t, last)) \/ Turn("prices", <<>>)
          \/ \E rows \in {<<>>, <<Bars(t, last)[1]>>} :
               \/ Turn("prices", Append(rows, [table |-> "error", ticker |-> t]))
               \/ Turn("prices", rows)
    BY <1>3, Zenon DEF PricesOf
  <2>2. last \in Day
    BY <1>0, <2>1, LastDayAssumption DEF Day
  <2>3. \E q \in Seq(Row) : Whole(q) /\ NoSeries(q) /\ Turn("prices", q)
    BY <2>1, <2>2, BarsOf, NoRows, Zenon
  <2>4. derived' = derived
    BY <1>3, Zenon DEF PricesOf, Ticked, history
  <2> QED BY <2>3, <2>4, Zenon DEF Adds, Turn, Write
<1>4. ASSUME NEW t \in Ticker, DeriveOf(t) PROVE Adds
  <2>1. Turn("derive", <<>>) \/ Turn("derive", Derived(t))
    BY <1>4 DEF DeriveOf
  <2>2. \E q \in Seq(Row) : Whole(q) /\ NoSeries(q) /\ Turn("derive", q)
    BY <2>1, DerivedOf, NoRows, Zenon
  <2>3. derived' = derived
    BY <1>4, Zenon DEF DeriveOf, Ticked, history
  <2> QED BY <2>2, <2>3, Zenon DEF Adds, Turn, Write
<1>5. ASSUME NEW s \in Series, SeriesOf(s) PROVE Adds
  <2>1. \/ \E set \in Answers(s) :
             Turn(s, IF set = {} THEN <<>> ELSE <<[table |-> s, set |-> set]>>)
        \/ Turn(s, <<>>)
    BY <1>5, Zenon DEF SeriesOf
  <2>2. \E q \in Seq(Row) : Whole(q) /\ Turn(s, q)
    BY <2>1, AnswersAre, SeriesRow, NoRows, Zenon
  <2>3. derived' = derived
    BY <1>5, Zenon DEF SeriesOf
  <2> QED BY <1>5, <2>2, <2>3, Zenon DEF Adds, Turn, Write
<1>6. CASE Raises
  <2>1. \/ UNCHANGED buffer
        \/ \E S \in SUBSET Ticker : Write(<<ListRows(S)[1]>>)
        \/ \E t \in tickers : Write(<<Bars(t, today)[1]>>)
    BY <1>6, Zenon DEF Raises
  <2>2. UNCHANGED <<nasVars, derived>>
    BY <1>6, Zenon DEF Raises, history
  <2>3. tickers \subseteq Ticker
    BY DEF DataOK, TypeOK
  <2>4. UNCHANGED buffer \/ \E q \in Seq(Row) : Whole(q) /\ NoSeries(q) /\ Write(q)
    BY <1>0, <2>1, <2>3, BarsOf, ListRowsOf
  <2> QED BY <1>0, <2>2, <2>4, Alone DEF Adds, Write
<1>7. CASE Deliver
  BY <1>7 DEF Deliver, Removes, Rows
<1>8. CASE FlushFails
  <2>1. /\ UNCHANGED buffer /\ phase \in Flush
        /\ \/ UNCHANGED <<nasVars, derived>>
           \/ \E i \in 1..Len(buffer) : (phase = "flush" => i = 1) /\ Execute(buffer[i])
    BY <1>8, Zenon DEF FlushFails
  <2> QED BY <1>0, <2>1, Alone DEF Repeats, Rows
<1> QED
  BY <1>1, <1>2, <1>3, <1>4, <1>5, <1>6, <1>7, <1>8, Zenon DEF Next, Proceeds, Weeks
-----------------------------------------------------------------------------
(***************************************************************************)
(* Types.                                                                  *)
(***************************************************************************)

TablesOK ==
  /\ stocks \in [Ticker -> StockStatus]
  /\ prices \in Prices /\ log \in [Ticker -> SyncRow]
  /\ weekly \in [Ticker -> SUBSET Day] /\ derived \subseteq Ticker
  /\ series \in [Series -> SUBSET Day]
  /\ buffer \in Seq(Row)

ControlOK ==
  /\ scopes   \in Mixes
  /\ today    \in Day
  /\ phase    \in {"idle", "next"} \cup Scopes \cup Flush
  /\ plan     \subseteq Scopes
  /\ start    \in {NoStart} \cup Day
  /\ tickers  \subseteq Ticker /\ days \subseteq 1..today
  /\ faults   \in 0..Faults
  /\ failed   \in [Series -> SUBSET Day] /\ starts \in [Series -> SUBSET Day]
  /\ covered  \subseteq Ticker

LEMMA Parts == /\ DataOK <=> TablesOK /\ ControlOK
               /\ DataOK' <=> TablesOK' /\ ControlOK'
<1>1. buffer \in Seq(Row) => \A i \in 1..Len(buffer) : buffer[i] \in Row
  BY ElementOfSeq
<1>2. buffer' \in Seq(Row) => \A i \in 1..Len(buffer') : buffer'[i] \in Row
  BY ElementOfSeq
<1> QED BY <1>1, <1>2 DEF DataOK, TypeOK, TablesOK, ControlOK, StockStatus

(* No step loses a stock, a date or a bar.                                 *)
LEMMA TablesStep ==
  ASSUME DataOK, NoGaps, [Next]_vars
  PROVE  TablesOK' /\ NoGaps' /\ StocksKept /\ PricesKept
<1>0. TablesOK
  BY Parts
<1>1. CASE Adds
  <2>1. UNCHANGED <<stocks, prices, log, weekly, series, derived>>
    BY <1>1 DEF Adds, nasVars
  <2>2. buffer' \in Seq(Row)
    <3>1. PICK q \in Seq(Row) : buffer' = buffer \o q
      BY <1>1 DEF Adds
    <3> QED BY <1>0, <3>1, Appended DEF TablesOK
  <2> QED BY <1>0, <2>1, <2>2 DEF TablesOK, NoGaps, StocksKept, PricesKept
<1>2. CASE DailyRun
  <2>1. UNCHANGED <<weekly, series, buffer, derived>>
    BY <1>2, Zenon DEF DailyRun, history
  <2> QED BY <1>0, <1>2, <2>1, DailyTables DEF TablesOK
<1>6. CASE Weeks
  <2>1. PICK t \in Ticker : /\ UNCHANGED <<stocks, prices, log, series, buffer>>
                           /\ weekly' = [weekly EXCEPT ![t] = Day] /\ derived' = derived \ {t}
    BY <1>6, Zenon DEF Weeks, WeeklyRun
  <2>2. weekly' \in [Ticker -> SUBSET Day] /\ derived' \subseteq Ticker
    BY <1>0, <2>1 DEF TablesOK
  <2> QED BY <1>0, <2>1, <2>2 DEF TablesOK, NoGaps, StocksKept, PricesKept
<1>3. ASSUME NEW r \in Row, Execute(r), buffer' \in Seq(Row)
      PROVE  TablesOK' /\ NoGaps' /\ StocksKept /\ PricesKept
  BY <1>3, ExecutedStocks, ExecutedPrices, ExecutedLog, ExecutedWeekly, ExecutedSeries
     DEF TablesOK
<1>4. ASSUME NEW i \in Rows, Removes(i)
      PROVE  TablesOK' /\ NoGaps' /\ StocksKept /\ PricesKept
  <2>1. buffer[i] \in Row /\ buffer' \in Seq(Row)
    BY <1>0, <1>4, ElementOfSeq, Removed DEF TablesOK, Rows, Removes
  <2> QED BY <1>3, <1>4, <2>1 DEF Removes
<1>5. ASSUME NEW i \in Rows, Repeats(i)
      PROVE  TablesOK' /\ NoGaps' /\ StocksKept /\ PricesKept
  <2>1. buffer[i] \in Row /\ buffer' \in Seq(Row)
    BY <1>0, <1>5, ElementOfSeq DEF TablesOK, Rows, Repeats
  <2> QED BY <1>3, <1>5, <2>1 DEF Repeats
<1> QED BY <1>1, <1>2, <1>4, <1>5, <1>6, StepKinds

LEMMA ControlStep ==
  ASSUME DataOK, [Next]_vars PROVE ControlOK'
<1>0. ControlOK
  BY Parts
<1> USE DEF ControlOK
<1>1. CASE NextDay
  <2>1. today' = today + 1 /\ today < LastDay
    BY <1>1 DEF NextDay
  <2>2. today' \in Day /\ 1..today \subseteq 1..today'
    BY <1>0, <2>1, LastDayAssumption DEF Day
  <2> QED BY <1>0, <1>1, <2>2 DEF NextDay, runVars, history
<1>2. CASE DailyRun \/ Weeks
  <2>1. UNCHANGED <<today, runVars, faults, failed, starts, covered>>
    BY <1>2, Zenon DEF DailyRun, Weeks, WeeklyRun, history
  <2> QED BY <1>0, <2>1 DEF runVars
<1>3. ASSUME NEW scope \in scopes \cup {"all"}, NEW from \in {NoStart} \cup Starts,
             Start(scope, from)
      PROVE  ControlOK'
  <2>1. scopes \in SUBSET Scopes /\ from \in {NoStart} \cup Day
    BY <1>0, MixesAssumption, DaysAssumption DEF MixesAssumption
  <2> QED BY <1>0, <1>3, <2>1 DEF Start, history
<1>4. ASSUME NEW p \in Scopes, Enter(p) PROVE ControlOK'
  <2>1. days' \in SUBSET (1..today) /\ tickers' \in SUBSET Ticker
    BY <1>4 DEF Enter, Wanted
  <2>2. starts' \in [Series -> SUBSET Day]
    BY <1>0, <1>4 DEF Enter
  <2> QED BY <1>0, <1>4, <2>1, <2>2 DEF Enter
<1>5. CASE Lists
  <2>1. covered' \subseteq Ticker
    BY <1>0, <1>5 DEF Lists
  <2>2. UNCHANGED <<scopes, today, plan, start, tickers, days, faults, failed, starts>>
        /\ phase' = "next"
    BY <1>5, Zenon DEF Lists, Turn
  <2> QED BY <1>0, <2>1, <2>2
<1>6. ASSUME Fault PROVE faults' \in 0..Faults
  BY <1>0, <1>6, WindowAssumption DEF Fault, WindowAssumption
<1>7. ASSUME NEW t \in Ticker, PricesOf(t) \/ DeriveOf(t) PROVE ControlOK'
  <2>1. UNCHANGED <<scopes, today, plan, start, phase, days, failed, starts, covered>>
    BY <1>7, Zenon DEF PricesOf, DeriveOf, Turn, Ticked, history
  <2>2. tickers' \subseteq tickers
    BY <1>7 DEF PricesOf, DeriveOf, Ticked
  <2>3. UNCHANGED faults \/ Fault
    BY <1>7, Zenon DEF PricesOf, DeriveOf
  <2> QED BY <1>0, <1>6, <2>1, <2>2, <2>3
<1>8. ASSUME NEW s \in Series, SeriesOf(s) PROVE ControlOK'
  <2>1. UNCHANGED <<scopes, today, plan, start, phase, tickers, starts, covered>>
    BY <1>8, Zenon DEF SeriesOf, Turn
  <2>2. days' \subseteq days
    BY <1>8 DEF SeriesOf
  <2>3. UNCHANGED faults \/ Fault
    BY <1>8, Zenon DEF SeriesOf
  <2>4. Window(s) \in SUBSET Day
    <3>1. days \in SUBSET Day
      BY <1>0, LastDayAssumption DEF Day
    <3>2. Window(s) \in SUBSET days
      BY DEF Window
    <3> QED BY <3>1, <3>2
  <2>5. failed' = failed \/ failed' = [failed EXCEPT ![s] = @ \cup Window(s)]
    BY <1>8, Zenon DEF SeriesOf
  <2>6. failed' \in [Series -> SUBSET Day]
    BY <1>0, <2>4, <2>5
  <2> QED BY <1>0, <1>6, <2>1, <2>2, <2>3, <2>6
<1>9. CASE PhaseEnds
  BY <1>0, <1>9 DEF PhaseEnds, history
<1>10. CASE Raises
  BY <1>0, <1>6, <1>10 DEF Raises, Idle, history
<1>11. CASE FetchEnds
  BY <1>0, <1>11 DEF FetchEnds, history, Flush
<1>12. ASSUME NEW f \in Flush, FlushCommand(f) PROVE ControlOK'
  BY <1>0, <1>12 DEF FlushCommand, history
<1>13. CASE Deliver
  <2>1. UNCHANGED <<today, runVars, faults, failed, starts, covered>>
    BY <1>13, Zenon DEF Deliver
  <2> QED BY <1>0, <2>1 DEF runVars
<1>14. CASE FlushEnds
  BY <1>0, <1>14 DEF FlushEnds, Idle, history
<1>15. CASE FlushFails
  <2>1. UNCHANGED <<today, failed, starts, covered>> /\ Idle /\ Fault
    BY <1>15, Zenon DEF FlushFails
  <2> QED BY <1>0, <1>6, <2>1 DEF Idle
<1>16. CASE UNCHANGED vars
  BY <1>0, <1>16 DEF vars, runVars, history
<1> QED
  BY <1>1, <1>2, <1>3, <1>4, <1>5, <1>7, <1>8, <1>9, <1>10, <1>11, <1>12, <1>13, <1>14,
     <1>15, <1>16 DEF Next, Proceeds, Weeks

LEMMA TypeInit == Init => DataOK /\ NoGaps
<1> SUFFICES ASSUME Init PROVE DataOK /\ NoGaps
  OBVIOUS
<1>1. /\ stocks = [t \in Ticker |-> "absent"] /\ prices = NoPrices /\ log = NoLog
      /\ weekly = [t \in Ticker |-> {}] /\ series = [s \in Series |-> {}] /\ buffer = <<>>
      /\ derived = {}
  BY DEF Init
<1>2. prices \in Prices /\ NoGaps
  BY <1>1 DEF NoPrices, NoRow, Prices, NoGaps
<1>3. log \in [Ticker -> SyncRow]
  BY <1>1, LastDayAssumption DEF NoLog, SyncRow
<1>4. TablesOK
  BY <1>1, <1>2, <1>3 DEF TablesOK, StockStatus
<1>5. ControlOK
  <2>1. 1 \in Day /\ 0 \in 0..Faults
    BY LastDayAssumption, WindowAssumption DEF Day, WindowAssumption
  <2>2. failed \in [Series -> SUBSET Day] /\ starts \in [Series -> SUBSET Day]
    BY DEF Init
  <2> QED BY <2>1, <2>2 DEF Init, ControlOK
<1> QED BY <1>2, <1>4, <1>5, Parts

LEMMA TypeStep == DataOK /\ NoGaps /\ [Next]_vars => DataOK' /\ NoGaps'
BY TablesStep, ControlStep, Parts

(* Every variable holds what the tables and the runs can hold, and the     *)
(* buffer is a sequence of rows.                                           *)
THEOREM TushareTypeOK == Spec => []TypeOK
<1>1. DataOK => TypeOK
  BY DEF DataOK
<1> QED BY <1>1, TypeInit, TypeStep, PTL DEF Spec
-----------------------------------------------------------------------------
(***************************************************************************)
(* The order of the buffer.                                                *)
(***************************************************************************)

(* Rows that are added follow the others.                                  *)
LEMMA AddedRows ==
  ASSUME buffer \in Seq(Row), NEW q \in Seq(Row), buffer' = buffer \o q
  PROVE  /\ Len(buffer) \in Nat /\ Len(q) \in Nat
         /\ Len(buffer') = Len(buffer) + Len(q)
         /\ \A i \in 1..Len(buffer) : buffer'[i] = buffer[i]
         /\ \A i \in 1..Len(buffer') : i \notin 1..Len(buffer) =>
              \E k \in 1..Len(q) : i = Len(buffer) + k /\ buffer'[i] = q[k]
         /\ \A k \in 1..Len(q) : buffer'[Len(buffer) + k] = q[k]
<1>1. /\ Len(buffer) \in Nat /\ Len(q) \in Nat
      /\ Len(buffer') = Len(buffer) + Len(q)
      /\ \A i \in 1..Len(buffer) : buffer'[i] = buffer[i]
      /\ \A k \in 1..Len(q) : buffer'[Len(buffer) + k] = q[k]
  BY Appended
<1>2. ASSUME NEW i \in 1..Len(buffer'), i \notin 1..Len(buffer)
      PROVE  \E k \in 1..Len(q) : i = Len(buffer) + k /\ buffer'[i] = q[k]
  <2>1. i - Len(buffer) \in 1..Len(q) /\ i = Len(buffer) + (i - Len(buffer))
    BY <1>1, <1>2
  <2> QED BY <1>1, <2>1
<1> QED BY <1>1, <1>2

(* A row that is deleted is the first one, or all are valuations.          *)
LEMMA RemovedRows ==
  ASSUME DataOK, ParallelRows, NEW n \in Rows, Removes(n)
  PROVE  /\ buffer[n] \in Row /\ Len(buffer) \in Nat
         /\ Len(buffer') = Len(buffer) - 1
         /\ \A k \in 1..Len(buffer') : \E m \in Rows : m # n /\ buffer'[k] = buffer[m]
         /\ \A m \in Rows : m # n => \E k \in 1..Len(buffer') : buffer'[k] = buffer[m]
         /\ \/ /\ n = 1
               /\ \A k \in 1..Len(buffer') : k + 1 \in Rows /\ buffer'[k] = buffer[k + 1]
            \/ \A m \in Rows : buffer[m].table = "valuation"
<1>1. buffer \in Seq(Row) /\ n \in 1..Len(buffer) /\ buffer' = RemoveAt(buffer, n)
  BY DEF DataOK, Rows, Removes
<1>2. /\ Len(buffer) \in Nat /\ Len(buffer') = Len(buffer) - 1
      /\ \A k \in 1..Len(buffer) - 1 : buffer'[k] = IF k < n THEN buffer[k] ELSE buffer[k + 1]
  BY <1>1, Removed
<1>3. buffer[n] \in Row
  BY <1>1, ElementOfSeq
<1>4. ASSUME NEW k \in 1..Len(buffer')
      PROVE  \E m \in Rows : m # n /\ buffer'[k] = buffer[m]
  <2>1. CASE k < n
    <3>1. k \in Rows /\ k # n /\ buffer'[k] = buffer[k]
      BY <1>1, <1>2, <2>1 DEF Rows
    <3> QED BY <3>1
  <2>2. CASE ~ k < n
    <3>1. k + 1 \in Rows /\ k + 1 # n /\ buffer'[k] = buffer[k + 1]
      BY <1>1, <1>2, <2>2 DEF Rows
    <3> QED BY <3>1
  <2> QED BY <2>1, <2>2
<1>5. ASSUME NEW m \in Rows, m # n
      PROVE  \E k \in 1..Len(buffer') : buffer'[k] = buffer[m]
  <2>1. CASE m < n
    <3>1. m \in 1..Len(buffer') /\ buffer'[m] = buffer[m]
      BY <1>1, <1>2, <2>1 DEF Rows
    <3> QED BY <3>1
  <2>2. CASE ~ m < n
    <3>1. m - 1 \in 1..Len(buffer') /\ ~ m - 1 < n /\ (m - 1) + 1 = m
      BY <1>1, <1>2, <1>5, <2>2 DEF Rows
    <3>2. buffer'[m - 1] = buffer[m]
      BY <1>2, <3>1
    <3> QED BY <3>1, <3>2
  <2> QED BY <2>1, <2>2
<1>6. CASE phase = "flush"
  <2>1. n = 1
    BY <1>6 DEF Removes
  <2>2. \A k \in 1..Len(buffer') : k + 1 \in Rows /\ buffer'[k] = buffer[k + 1]
    BY <1>1, <1>2, <2>1 DEF Rows
  <2> QED BY <1>2, <1>3, <1>4, <1>5, <2>1, <2>2
<1>7. CASE phase = "parallel flush"
  BY <1>2, <1>3, <1>4, <1>5, <1>7 DEF ParallelRows
<1> QED BY <1>6, <1>7 DEF Removes, Flush

LEMMA ParallelStep ==
  ASSUME DataOK, ParallelRows, [Next]_vars PROVE ParallelRows'
<1>1. CASE UNCHANGED <<phase, buffer>>
  BY <1>1 DEF ParallelRows, Rows
<1>2. CASE phase' # "parallel flush"
  BY <1>2 DEF ParallelRows
<1>3. CASE NextDay \/ DailyRun \/ Weeks \/ UNCHANGED vars
  <2>1. UNCHANGED <<phase, buffer>>
    BY <1>3, Zenon DEF NextDay, DailyRun, Weeks, WeeklyRun, runVars, vars
  <2> QED BY <1>1, <2>1
<1>4. ASSUME NEW f \in Flush, FlushCommand(f) PROVE ParallelRows'
  BY <1>4 DEF FlushCommand, ParallelRows, Rows
<1>5. CASE Deliver
  <2>1. PICK n \in Rows : Removes(n)
    BY <1>5 DEF Deliver, Removes, Rows
  <2>2. UNCHANGED phase
    BY <1>5 DEF Deliver, runVars
  <2>3. ASSUME phase = "parallel flush", NEW k \in 1..Len(buffer')
        PROVE  buffer'[k].table = "valuation"
    <3>1. PICK m \in Rows : buffer'[k] = buffer[m]
      BY <2>1, <2>3, RemovedRows
    <3> QED BY <2>3, <3>1 DEF ParallelRows
  <2> QED BY <2>2, <2>3 DEF ParallelRows, Rows
<1>6. ASSUME NEW p \in Scopes, phase = p, UNCHANGED phase PROVE phase' # "parallel flush"
  BY <1>6 DEF Scopes
<1>7. CASE (\E t \in Ticker : PricesOf(t) \/ DeriveOf(t)) \/ (\E s \in Series : SeriesOf(s))
  <2>1. \E p \in {"prices", "derive"} \cup Series : phase = p /\ UNCHANGED phase
    BY <1>7, Zenon DEF PricesOf, DeriveOf, SeriesOf, Ticked, Turn
  <2> QED BY <1>2, <1>6, <2>1 DEF Series, Scopes
<1>8. CASE \/ (\E p \in Scopes : Enter(p)) \/ Lists \/ PhaseEnds \/ FetchEnds \/ FlushEnds
           \/ Raises \/ FlushFails
           \/ (\E scope \in scopes \cup {"all"}, from \in {NoStart} \cup Starts : Start(scope, from))
  <2>1. phase' \in {"next", "flush", "idle"} \cup Scopes
    BY <1>8, Zenon DEF Enter, Lists, PhaseEnds, FetchEnds, FlushEnds, Raises, FlushFails, Start, Idle
  <2> QED BY <1>2, <2>1 DEF Scopes
<1> QED
  BY <1>3, <1>4, <1>5, <1>7, <1>8, Zenon DEF Next, Proceeds, Weeks

(* A row that is executed and stays is the first one, or a valuation.      *)
LEMMA RepeatedRow ==
  ASSUME DataOK, ParallelRows, NEW n \in Rows, Repeats(n)
  PROVE  /\ buffer[n] \in Row /\ Execute(buffer[n]) /\ buffer' = buffer
         /\ n = 1 \/ buffer[n].table = "valuation"
BY ElementOfSeq DEF DataOK, Rows, Repeats, ParallelRows, Flush

(* The first row needs nothing from the buffer.                            *)
LEMMA FirstRow ==
  ASSUME DataOK, buffer # <<>>
  PROVE  1 \in Rows /\ buffer[1] \in Row /\ Len(buffer) \in Nat
<1>1. 1 \in 1..Len(buffer) /\ Len(buffer) \in Nat
  BY EmptySeq DEF DataOK
<1> QED BY <1>1, ElementOfSeq DEF DataOK, Rows
-----------------------------------------------------------------------------
(***************************************************************************)
(* Marks of success.                                                       *)
(***************************************************************************)

MarksStored ==
  \A t \in Ticker : log[t].status = "ok" =>
    log[t].last \in Day /\ prices[t][log[t].last] # NoRow

(* The mark of the first row has its bar on the NAS.                       *)
LEMMA ExecutedMark ==
  ASSUME DataOK, NoGaps, MarksBacked, MarksStored, PricesKept,
         buffer # <<>>, Execute(buffer[1])
  PROVE  MarksStored'
<1> DEFINE r == buffer[1]
<1>1. 1 \in Rows /\ r \in Row
  BY FirstRow
<1>2. SUFFICES ASSUME NEW t \in Ticker, log'[t].status = "ok"
               PROVE  log'[t].last \in Day /\ prices'[t][log'[t].last] # NoRow
  BY DEF MarksStored
<1>3. CASE log'[t] = log[t]
  BY <1>2, <1>3 DEF MarksStored, PricesKept
<1>4. CASE r.table = "ok" /\ r.ticker = t /\ log'[t].last = r.last
  <2>1. r.last \in Day
    BY <1>1, <1>4, RowFields
  <2>2. prices[t][r.last] # NoRow
    BY <1>1, <1>4 DEF MarksBacked, IsRow
  <2> QED BY <1>4, <2>1, <2>2 DEF PricesKept
<1> HIDE DEF r
<1> QED BY <1>1, <1>2, <1>3, <1>4, ExecutedLog DEF r

LEMMA MarksStep ==
  ASSUME DataOK, NoGaps, ParallelRows, MarksBacked, MarksStored, [Next]_vars
  PROVE  MarksBacked' /\ MarksStored'
<1>0. buffer \in Seq(Row) /\ PricesKept
  BY TablesStep DEF DataOK
<1>a. ASSUME NEW i \in Rows PROVE buffer[i] \in Row
  BY <1>a, <1>0, ElementOfSeq DEF Rows
<1>1. CASE Adds
  <2>1. PICK q \in Seq(Row) : Whole(q) /\ buffer' = buffer \o q
    BY <1>1 DEF Adds
  <2>2. UNCHANGED <<prices, log>>
    BY <1>1 DEF Adds, nasVars
  <2>3. ASSUME NEW i \in 1..Len(buffer'), NEW t \in Ticker, IsRow(i, "ok", t)'
        PROVE  \/ prices[t][buffer'[i].last] # NoRow
               \/ \E j \in 1..i - 1 : IsRow(j, "prices", t)' /\ buffer'[i].last <= buffer'[j].last
    <3>1. CASE i \in 1..Len(buffer)
      <4>1. /\ Len(buffer) \in Nat /\ i \in Rows /\ buffer'[i] = buffer[i]
            /\ \A j \in 1..i - 1 : buffer'[j] = buffer[j]
        BY <1>0, <2>1, <3>1, AddedRows DEF Rows
      <4> QED BY <2>3, <4>1 DEF MarksBacked, IsRow
    <3>2. CASE i \notin 1..Len(buffer)
      <4>1. PICK k \in 1..Len(q) : i = Len(buffer) + k /\ buffer'[i] = q[k]
        BY <1>0, <2>1, <3>2, AddedRows
      <4>2. /\ k = 2 /\ q[1].table = "prices" /\ q[1].ticker = t /\ q[1].last = buffer'[i].last
            /\ Len(buffer) \in Nat /\ Len(q) \in Nat
        BY <1>0, <2>1, <2>3, <4>1, AddedRows DEF Whole, IsRow
      <4>3. 1 \in 1..Len(q) /\ Len(buffer) + 1 \in 1..i - 1
        BY <4>1, <4>2
      <4>4. buffer'[Len(buffer) + 1] = q[1]
        BY <1>0, <2>1, <4>3, AddedRows
      <4>5. q[1] \in Row /\ q[1].last \in Nat
        <5>1. q[1] \in Row
          BY <4>3, ElementOfSeq
        <5>2. q[1].last \in Day
          BY <4>2, <5>1, RowFields
        <5> QED BY <5>1, <5>2, LastDayAssumption DEF Day
      <4>6. PICK j \in 1..i - 1 : j = Len(buffer) + 1
        BY <4>3
      <4>7. IsRow(j, "prices", t)' /\ buffer'[i].last <= buffer'[j].last
        BY <4>2, <4>4, <4>5, <4>6 DEF IsRow
      <4> QED BY <4>7
    <3> QED BY <3>1, <3>2
  <2> QED BY <2>2, <2>3 DEF MarksBacked, MarksStored, Rows
<1>2. CASE DailyRun
  <2>1. UNCHANGED buffer /\ today \in Day
    BY <1>2 DEF DailyRun, DataOK, TypeOK
  <2>2. MarksStored'
    BY <1>0, <1>2, <2>1, DailyTables DEF MarksStored, PricesKept
  <2>3. ASSUME NEW i \in Rows, NEW t \in Ticker, IsRow(i, "ok", t)
        PROVE  buffer[i].last \in Day
    BY <1>a, <2>3, RowFields DEF IsRow
  <2> QED BY <1>0, <2>1, <2>2, <2>3 DEF MarksBacked, PricesKept, Rows, IsRow
<1>3. ASSUME NEW n \in Rows, Removes(n) PROVE MarksBacked' /\ MarksStored'
  <2>1. CASE \A m \in Rows : buffer[m].table = "valuation"
    <3>1. \A k \in 1..Len(buffer') : buffer'[k].table # "ok"
      BY <1>3, <2>1, RemovedRows
    <3>2. \A t \in Ticker : log'[t].status = "ok" => log'[t] = log[t]
      BY <1>a, <1>3, <2>1, ExecutedLog DEF Removes
    <3> QED BY <1>0, <3>1, <3>2 DEF MarksBacked, MarksStored, PricesKept, IsRow, Rows
  <2>2. CASE /\ n = 1
             /\ \A k \in 1..Len(buffer') : k + 1 \in Rows /\ buffer'[k] = buffer[k + 1]
    <3>0. Execute(buffer[1]) /\ 1 \in Rows /\ Len(buffer) \in Nat /\ Len(buffer') = Len(buffer) - 1
      BY <1>3, <2>2, RemovedRows DEF Removes
    <3>1. MarksStored'
      <4>1. buffer # <<>>
        BY <1>0, <3>0, EmptySeq DEF Rows
      <4> QED BY <1>0, <3>0, <4>1, ExecutedMark
    <3>2. ASSUME NEW k \in 1..Len(buffer'), NEW t \in Ticker, IsRow(k, "ok", t)'
          PROVE  \/ prices'[t][buffer'[k].last] # NoRow
                 \/ \E j \in 1..k - 1 : IsRow(j, "prices", t)' /\ buffer'[k].last <= buffer'[j].last
      <4>1. k + 1 \in Rows /\ buffer'[k] = buffer[k + 1] /\ IsRow(k + 1, "ok", t)
        BY <2>2, <3>2 DEF IsRow
      <4>2. buffer'[k].last \in Day
        BY <1>a, <4>1, RowFields DEF IsRow
      <4>3. CASE prices[t][buffer[k + 1].last] # NoRow
        BY <1>0, <4>1, <4>2, <4>3 DEF PricesKept
      <4>4. CASE \E j \in 1..(k + 1) - 1 :
                   IsRow(j, "prices", t) /\ buffer[k + 1].last <= buffer[j].last
        <5>1. PICK j \in 1..(k + 1) - 1 :
                   IsRow(j, "prices", t) /\ buffer[k + 1].last <= buffer[j].last
          BY <4>4
        <5>2. CASE j = 1
          <6>1. buffer'[k].last \in 1..buffer[1].last
            <7>1. buffer[1].last \in Day
              BY <1>a, <3>0, <5>1, <5>2, RowFields DEF IsRow
            <7> QED BY <4>1, <4>2, <5>1, <5>2, <7>1, LastDayAssumption DEF Day
          <6>2. \A d \in 1..buffer[1].last : prices'[t][d] # NoRow
            BY <1>a, <3>0, <5>1, <5>2, ExecutedPrices DEF IsRow
          <6> QED BY <6>1, <6>2
        <5>3. CASE j # 1
          <6>1. j - 1 \in 1..k - 1 /\ j - 1 \in 1..Len(buffer') /\ (j - 1) + 1 = j
            BY <3>0, <4>1, <5>1, <5>3 DEF Rows
          <6>2. buffer'[j - 1] = buffer[j]
            BY <2>2, <6>1
          <6> QED BY <4>1, <5>1, <6>1, <6>2 DEF IsRow
        <5> QED BY <5>2, <5>3
      <4> QED BY <4>1, <4>3, <4>4 DEF MarksBacked
    <3> QED BY <3>1, <3>2 DEF MarksBacked, Rows
  <2> QED BY <1>3, <2>1, <2>2, RemovedRows
<1>4. ASSUME NEW n \in Rows, Repeats(n) PROVE MarksBacked' /\ MarksStored'
  <2>1. buffer[n] \in Row /\ Execute(buffer[n]) /\ buffer' = buffer
        /\ (n = 1 \/ buffer[n].table = "valuation")
    BY <1>4, RepeatedRow
  <2>2. MarksStored'
    <3>1. CASE n = 1
      <4>1. buffer # <<>>
        BY <1>0, EmptySeq DEF Rows
      <4> QED BY <1>0, <2>1, <3>1, <4>1, ExecutedMark
    <3>2. CASE buffer[n].table = "valuation"
      <4>1. \A t \in Ticker : log'[t].status = "ok" => log'[t] = log[t]
        BY <2>1, <3>2, ExecutedLog
      <4> QED BY <1>0, <4>1 DEF MarksStored, PricesKept
    <3> QED BY <2>1, <3>1, <3>2
  <2>3. ASSUME NEW i \in Rows, NEW t \in Ticker, IsRow(i, "ok", t)
        PROVE  buffer[i].last \in Day
    BY <1>a, <2>3, RowFields DEF IsRow
  <2> QED BY <1>0, <2>1, <2>2, <2>3 DEF MarksBacked, PricesKept, Rows, IsRow
<1>5. CASE Weeks
  <2>1. UNCHANGED <<prices, log, buffer>>
    BY <1>5, Zenon DEF Weeks, WeeklyRun
  <2> QED BY <2>1 DEF MarksBacked, MarksStored, IsRow, Rows
<1> QED BY <1>1, <1>2, <1>3, <1>4, <1>5, StepKinds
-----------------------------------------------------------------------------
(***************************************************************************)
(* Dates of listing.                                                       *)
(***************************************************************************)

(* The lists of a run: the stocks, then the dates of all.                  *)
LEMMA ListedDates ==
  ASSUME DataOK, NEW S \in SUBSET Ticker, buffer' = buffer \o ListRows(S)
  PROVE  \E i \in Rows' : \A t \in S :
           Covers(i, "dates", t)' /\ \E j \in 1..i - 1 : Covers(j, "stocks", t)'
<1> DEFINE q == ListRows(S)
<1>1. /\ q \in Seq(Row) /\ Len(q) = 2 /\ buffer \in Seq(Row) /\ buffer' = buffer \o q
      /\ q[1].table = "stocks" /\ q[1].set = S /\ q[2].table = "dates" /\ q[2].set = Ticker
  <2>1. /\ q \in Seq(Row) /\ Len(q) = 2
        /\ q[1] = [table |-> "stocks", set |-> S] /\ q[2] = [table |-> "dates", set |-> Ticker]
    BY ListRowsOf
  <2> HIDE DEF q
  <2> QED BY <2>1 DEF DataOK, q
<1> HIDE DEF q
<1>2. /\ Len(buffer) \in Nat /\ Len(buffer') = Len(buffer) + 2
      /\ buffer'[Len(buffer) + 1] = q[1] /\ buffer'[Len(buffer) + 2] = q[2]
  <2>1. 1 \in 1..Len(q) /\ 2 \in 1..Len(q)
    BY <1>1
  <2> QED BY <1>1, <2>1, AddedRows
<1>3. PICK i \in Rows' : i = Len(buffer) + 2
  BY <1>2 DEF Rows
<1>4. PICK j \in 1..i - 1 : j = Len(buffer) + 1
  BY <1>2, <1>3
<1>5. \A t \in S : t \in buffer'[i].set /\ t \in buffer'[j].set
  BY <1>1, <1>2, <1>3, <1>4
<1>6. buffer'[i].table = "dates" /\ buffer'[j].table = "stocks"
  BY <1>1, <1>2, <1>3, <1>4
<1> QED BY <1>5, <1>6 DEF Covers

(* An UPDATE that will find its stock waits, or has found it.              *)
Finds(i, t) ==
  /\ Covers(i, "dates", t)
  /\ stocks[t] # "absent" \/ \E j \in 1..i - 1 : Covers(j, "stocks", t)

LEMMA FindsKept ==
  ASSUME DataOK, NoGaps, ParallelRows, [Next]_vars, NEW t \in Ticker, NEW i \in Rows, Finds(i, t)
  PROVE  stocks'[t] = "dated" \/ \E k \in Rows' : Finds(k, t)'
<1>0. buffer \in Seq(Row) /\ StocksKept
  BY TablesStep DEF DataOK
<1>1. CASE Adds
  <2>1. PICK q \in Seq(Row) : buffer' = buffer \o q
    BY <1>1 DEF Adds
  <2>2. UNCHANGED stocks
    BY <1>1 DEF Adds, nasVars
  <2>3. /\ i \in Rows' /\ buffer'[i] = buffer[i]
        /\ \A j \in 1..i - 1 : buffer'[j] = buffer[j]
    BY <1>0, <2>1, AddedRows DEF Rows
  <2> QED BY <2>2, <2>3 DEF Finds, Covers
<1>2. ASSUME buffer' = buffer PROVE Finds(i, t)' /\ i \in Rows'
  BY <1>0, <1>2 DEF Finds, Covers, StocksKept, Rows
<1>3. ASSUME NEW n \in Rows, Removes(n)
      PROVE  stocks'[t] = "dated" \/ \E k \in Rows' : Finds(k, t)'
  <2>1. /\ n = 1 /\ Execute(buffer[1]) /\ buffer[1] \in Row
        /\ Len(buffer) \in Nat /\ Len(buffer') = Len(buffer) - 1
        /\ \A k \in 1..Len(buffer') : k + 1 \in Rows /\ buffer'[k] = buffer[k + 1]
    <3>1. buffer[i].table # "valuation"
      BY DEF Finds, Covers
    <3> QED BY <1>3, <3>1, RemovedRows DEF Removes
  <2>2. CASE i = 1
    <3>1. stocks[t] # "absent" /\ buffer[1].table = "dates" /\ t \in buffer[1].set
      BY <2>2 DEF Finds, Covers
    <3> QED BY <2>1, <3>1, ExecutedStocks
  <2>3. CASE i # 1
    <3>1. PICK k \in Rows' : k = i - 1 /\ k + 1 = i
      BY <2>1, <2>3 DEF Rows
    <3>2. Covers(k, "dates", t)'
      BY <2>1, <3>1 DEF Rows, Finds, Covers
    <3>3. CASE stocks[t] # "absent"
      BY <1>0, <3>2, <3>3 DEF StocksKept, Finds
    <3>4. ASSUME NEW j \in 1..i - 1, Covers(j, "stocks", t)
          PROVE  stocks'[t] # "absent" \/ \E m \in 1..k - 1 : Covers(m, "stocks", t)'
      <4>1. CASE j = 1
        BY <2>1, <3>4, <4>1, ExecutedStocks DEF Covers
      <4>2. CASE j # 1
        <5>0. j - 1 \in 1..k - 1 /\ (j - 1) + 1 = j /\ j - 1 \in 1..Len(buffer')
          BY <2>1, <3>1, <3>4, <4>2 DEF Rows
        <5>1. PICK m \in 1..k - 1 : m + 1 = j /\ m \in 1..Len(buffer')
          BY <5>0
        <5>2. buffer'[m] = buffer[j]
          BY <2>1, <5>1
        <5> QED BY <3>4, <5>1, <5>2 DEF Covers
      <4> QED BY <4>1, <4>2
    <3>5. stocks'[t] # "absent" \/ \E m \in 1..k - 1 : Covers(m, "stocks", t)'
      BY <1>0, <3>3, <3>4 DEF Finds, StocksKept
    <3> QED BY <3>2, <3>5 DEF Finds
  <2> QED BY <2>2, <2>3
<1>4. DailyRun \/ Weeks \/ (\E n \in Rows : Repeats(n)) => buffer' = buffer
  BY Zenon DEF DailyRun, Weeks, WeeklyRun, Repeats
<1> QED BY <1>1, <1>2, <1>3, <1>4, StepKinds

LEMMA DatesStep ==
  ASSUME DataOK, NoGaps, ParallelRows, DatesBacked, [Next]_vars
  PROVE  DatesBacked'
<1>0. covered \subseteq Ticker /\ StocksKept
  BY TablesStep DEF DataOK, TypeOK
<1>1. ASSUME NEW t \in covered
      PROVE  stocks'[t] = "dated" \/ \E k \in Rows' : Finds(k, t)'
  <2>1. stocks[t] = "dated" \/ \E i \in Rows : Finds(i, t)
    BY DEF DatesBacked, Finds
  <2> QED BY <1>0, <2>1, FindsKept DEF StocksKept
<1>2. CASE Lists
  <2>1. PICK S \in SUBSET Ticker : buffer' = buffer \o ListRows(S) /\ covered' = covered \cup S
    BY <1>2, Zenon DEF Lists, Turn, Write
  <2>2. PICK i \in Rows' : \A t \in S : Finds(i, t)'
    BY <2>1, ListedDates DEF Finds
  <2> QED BY <1>1, <2>1, <2>2 DEF DatesBacked, Finds
<1>3. CASE ~ Lists
  <2>1. covered' = covered
    BY <1>3 DEF Next, Proceeds, NextDay, DailyRun, WeeklyRun, Start, Enter, PhaseEnds, FetchEnds,
       FlushEnds, PricesOf, DeriveOf, Ticked, SeriesOf, Raises, FlushCommand, Deliver, FlushFails,
       history, vars
  <2> QED BY <1>1, <2>1 DEF DatesBacked, Finds
<1> QED BY <1>2, <1>3
-----------------------------------------------------------------------------
(***************************************************************************)
(* Weekly bars.                                                            *)
(***************************************************************************)

(* What a flush brings is within what the rows that wait will bring.       *)
LEMMA ExecutedRise ==
  ASSUME DataOK, WeeklyRises, PricesKept, NEW n \in Rows, buffer[n] \in Row, Execute(buffer[n]),
         n = 1 \/ buffer[n].table = "valuation", NEW t \in Ticker
  PROVE  /\ t \in derived => weekly[t] \subseteq weekly'[t]
         /\ t \in derived' => weekly'[t] \subseteq Stored(prices, t)
         /\ \A i \in Rows : IsRow(i, "weekly", t) /\ t \in derived' =>
              weekly'[t] \subseteq buffer[i].from
<1>1. Len(buffer) \in Nat
  BY DEF DataOK
<1>2. /\ weekly'[t] = IF IsRow(n, "weekly", t) THEN buffer[n].from ELSE weekly[t]
      /\ t \in derived' <=> t \in derived \/ IsRow(n, "weekly", t)
  BY ExecutedWeekly DEF IsRow
<1>3. CASE ~ IsRow(n, "weekly", t)
  BY <1>2, <1>3 DEF WeeklyRises
<1>4. CASE IsRow(n, "weekly", t)
  <2>1. n = 1 /\ (t \in derived => weekly[t] \subseteq buffer[n].from)
        /\ buffer[n].from \subseteq Stored(prices, t)
    BY <1>4 DEF WeeklyRises, IsRow
  <2>2. ASSUME NEW i \in Rows, IsRow(i, "weekly", t)
        PROVE  buffer[n].from \subseteq buffer[i].from
    <3>1. i = n \/ n \in 1..i - 1
      BY <1>1, <2>1 DEF Rows
    <3> QED BY <1>4, <2>2, <3>1 DEF WeeklyRises
  <2> QED BY <1>2, <1>4, <2>1, <2>2
<1> QED BY <1>3, <1>4

LEMMA WeeklyStep ==
  ASSUME DataOK, NoGaps, ParallelRows, WeeklyRises, [Next]_vars
  PROVE  WeeklyRises' /\ \A t \in derived : weekly[t] \subseteq weekly'[t]
<1>0. buffer \in Seq(Row) /\ PricesKept /\ derived \subseteq Ticker
  BY TablesStep DEF DataOK, TypeOK
<1>a. ASSUME NEW t \in Ticker PROVE Stored(prices, t) \subseteq Stored(prices, t)'
  BY <1>0 DEF Stored, PricesKept
<1>1. CASE Adds
  <2>1. PICK q \in Seq(Row) : Whole(q) /\ buffer' = buffer \o q
    BY <1>1 DEF Adds
  <2>2. UNCHANGED <<prices, weekly, derived>>
    BY <1>1 DEF Adds, nasVars
  <2>3. ASSUME NEW t \in Ticker, NEW i \in 1..Len(buffer'), IsRow(i, "weekly", t)'
        PROVE  /\ t \in derived => weekly[t] \subseteq buffer'[i].from
               /\ buffer'[i].from \subseteq Stored(prices, t)
               /\ \A j \in 1..i - 1 : IsRow(j, "weekly", t)' => buffer'[j].from \subseteq buffer'[i].from
    <3>1. CASE i \in 1..Len(buffer)
      <4>1. /\ Len(buffer) \in Nat /\ i \in Rows /\ buffer'[i] = buffer[i]
            /\ \A j \in 1..i - 1 : buffer'[j] = buffer[j]
        BY <1>0, <2>1, <3>1, AddedRows DEF Rows
      <4> QED BY <2>3, <4>1 DEF WeeklyRises, IsRow
    <3>2. CASE i \notin 1..Len(buffer)
      <4>1. PICK k \in 1..Len(q) : i = Len(buffer) + k /\ buffer'[i] = q[k]
        BY <1>0, <2>1, <3>2, AddedRows
      <4>2. /\ Len(q) = 1 /\ k = 1 /\ buffer'[i].from = Stored(prices, t)
            /\ Len(buffer) \in Nat
        BY <1>0, <2>1, <2>3, <4>1, AddedRows DEF Whole, IsRow
      <4>3. \A j \in 1..i - 1 : j \in Rows /\ buffer'[j] = buffer[j]
        BY <1>0, <2>1, <4>1, <4>2, AddedRows DEF Rows
      <4> QED BY <4>2, <4>3 DEF WeeklyRises, IsRow
    <3> QED BY <3>1, <3>2
  <2> QED BY <1>0, <2>2, <2>3 DEF WeeklyRises, Rows, Stored
<1>2. CASE DailyRun
  <2>1. UNCHANGED <<weekly, derived, buffer>>
    BY <1>2, Zenon DEF DailyRun, history
  <2> QED BY <1>0, <1>a, <2>1 DEF WeeklyRises, IsRow, Rows
<1>3. ASSUME NEW n \in Rows, Removes(n)
      PROVE  WeeklyRises' /\ \A t \in derived : weekly[t] \subseteq weekly'[t]
  <2>1. CASE \A m \in Rows : buffer[m].table = "valuation"
    <3>1. \A k \in 1..Len(buffer') : buffer'[k].table # "weekly"
      BY <1>3, <2>1, RemovedRows
    <3>2. \A t \in Ticker : weekly'[t] = weekly[t] /\ (t \in derived' <=> t \in derived)
      BY <1>3, <2>1, RemovedRows, ExecutedWeekly DEF Removes
    <3> QED BY <1>0, <1>a, <3>1, <3>2 DEF WeeklyRises, IsRow, Rows
  <2>2. CASE /\ n = 1
             /\ \A k \in 1..Len(buffer') : k + 1 \in Rows /\ buffer'[k] = buffer[k + 1]
    <3>0. /\ Execute(buffer[n]) /\ buffer[n] \in Row /\ Len(buffer) \in Nat
          /\ Len(buffer') = Len(buffer) - 1
      BY <1>3, <2>2, RemovedRows DEF Removes
    <3>1. ASSUME NEW t \in Ticker, NEW k \in 1..Len(buffer'), IsRow(k, "weekly", t)'
          PROVE  /\ t \in derived' => weekly'[t] \subseteq buffer'[k].from
                 /\ buffer'[k].from \subseteq Stored(prices, t)
                 /\ \A j \in 1..k - 1 :
                      IsRow(j, "weekly", t)' => buffer'[j].from \subseteq buffer'[k].from
      <4>1. k + 1 \in Rows /\ buffer'[k] = buffer[k + 1] /\ IsRow(k + 1, "weekly", t)
        BY <2>2, <3>1 DEF IsRow
      <4>2. \A j \in 1..k - 1 : j + 1 \in 1..(k + 1) - 1 /\ buffer'[j] = buffer[j + 1]
        BY <2>2, <3>0, <4>1 DEF Rows
      <4>3. t \in derived' => weekly'[t] \subseteq buffer'[k].from
        BY <1>0, <2>2, <3>0, <4>1, ExecutedRise
      <4>4. buffer'[k].from \subseteq Stored(prices, t)
        BY <4>1 DEF WeeklyRises
      <4>5. ASSUME NEW j \in 1..k - 1, IsRow(j, "weekly", t)'
            PROVE  buffer'[j].from \subseteq buffer'[k].from
        <5>1. j + 1 \in 1..(k + 1) - 1 /\ buffer'[j] = buffer[j + 1]
          BY <4>2
        <5>2. IsRow(j + 1, "weekly", t)
          BY <4>5, <5>1 DEF IsRow
        <5>3. buffer[j + 1].from \subseteq buffer[k + 1].from
          BY <4>1, <5>1, <5>2 DEF WeeklyRises
        <5> QED BY <4>1, <5>1, <5>3
      <4> QED BY <4>3, <4>4, <4>5
    <3>2. ASSUME NEW t \in Ticker
          PROVE  /\ t \in derived => weekly[t] \subseteq weekly'[t]
                 /\ t \in derived' => weekly'[t] \subseteq Stored(prices, t)
      BY <1>0, <2>2, <3>0, ExecutedRise
    <3> QED BY <1>0, <1>a, <3>1, <3>2 DEF WeeklyRises, Rows
  <2> QED BY <1>3, <2>1, <2>2, RemovedRows
<1>4. ASSUME NEW n \in Rows, Repeats(n)
      PROVE  WeeklyRises' /\ \A t \in derived : weekly[t] \subseteq weekly'[t]
  <2>1. /\ buffer[n] \in Row /\ Execute(buffer[n]) /\ buffer' = buffer
        /\ n = 1 \/ buffer[n].table = "valuation"
    BY <1>4, RepeatedRow
  <2>2. ASSUME NEW t \in Ticker
        PROVE  /\ t \in derived => weekly[t] \subseteq weekly'[t]
               /\ t \in derived' => weekly'[t] \subseteq Stored(prices, t)
               /\ \A i \in Rows : IsRow(i, "weekly", t) /\ t \in derived' =>
                    weekly'[t] \subseteq buffer[i].from
    BY <1>0, <2>1, ExecutedRise
  <2> QED BY <1>0, <1>a, <2>1, <2>2 DEF WeeklyRises, IsRow, Rows
<1>5. CASE Weeks
  <2>1. PICK t \in Ticker : /\ UNCHANGED <<prices, buffer>>
                           /\ weekly' = [weekly EXCEPT ![t] = Day] /\ derived' = derived \ {t}
    BY <1>5, Zenon DEF Weeks, WeeklyRun
  <2>2. weekly \in [Ticker -> SUBSET Day]
    BY DEF DataOK, TypeOK
  <2>3. \A u \in derived : weekly[u] \subseteq weekly'[u]
    BY <1>0, <2>1, <2>2
  <2>4. \A u \in Ticker : u \in derived' => u \in derived /\ weekly'[u] = weekly[u]
    BY <2>1, <2>2
  <2> QED BY <2>1, <2>3, <2>4 DEF WeeklyRises, IsRow, Rows, Stored
<1> QED BY <1>1, <1>2, <1>3, <1>4, <1>5, StepKinds
-----------------------------------------------------------------------------
(***************************************************************************)
(* The days of the series.                                                 *)
(***************************************************************************)

(* A window holds the first days that are left; of valuations, the first.  *)
LEMMA WindowFirst ==
  ASSUME DataOK, NEW s \in Series, NEW e \in Window(s), NEW d \in days, d <= e
  PROVE  d \in Window(s) /\ (s = "valuation" => d = e)
<1> DEFINE n == IF s = "valuation" THEN 1 ELSE WindowDays
           D == {x \in days : x < d}
           E == {x \in days : x < e}
<1>1. days \in SUBSET Nat /\ IsFiniteSet(days) /\ e \in days
  <2>1. today \in Nat /\ days \in SUBSET (1..today) /\ 1..today \in SUBSET Nat
    BY LastDayAssumption DEF DataOK, TypeOK, Day
  <2>2. IsFiniteSet(1..today)
    BY <2>1, FS_Interval
  <2> QED BY <2>1, <2>2, FS_Subset DEF Window
<1>2. D \in SUBSET E /\ E \in SUBSET days
  <2>1. \A x \in days : x < d => x < e
    BY <1>1
  <2> QED BY <2>1
<1>3. IsFiniteSet(E) /\ IsFiniteSet(D) /\ Cardinality(D) <= Cardinality(E)
  BY <1>1, <1>2, FS_Subset
<1>4. Cardinality(E) \in Nat /\ Cardinality(D) \in Nat /\ n \in Nat
  BY <1>3, FS_CardinalityType, WindowAssumption DEF WindowAssumption
<1>5. Cardinality(E) < n
  BY DEF Window
<1>6. Cardinality(D) < n
  <2> HIDE DEF D, E, n
  <2> QED BY <1>3, <1>4, <1>5
<1>7. d \in Window(s)
  BY <1>6 DEF Window
<1>8. ASSUME s = "valuation" PROVE d = e
  <2>1. n = 1
    BY <1>8
  <2>2. Cardinality(E) = 0
    <3> HIDE DEF E, n
    <3> QED BY <1>4, <1>5, <2>1
  <2>3. E = {}
    <3> HIDE DEF E
    <3> QED BY <1>3, <2>2, FS_EmptySet
  <2> QED BY <1>1, <2>3
<1> QED BY <1>7, <1>8

(* A request: rows for days of the window, or days asked for in vain.      *)
LEMMA SeriesStep ==
  ASSUME DataOK, NEW s \in Series, SeriesOf(s)
  PROVE  /\ UNCHANGED <<series, today, phase, starts>> /\ phase = s /\ days' = days \ Window(s)
         /\ \/ \E set \in Answers(s) :
                 /\ failed' = failed
                 /\ \A u \in Series, d \in Day :
                      Present(u, d)' <=> Present(u, d) \/ (u = s /\ d \in set)
            \/ /\ buffer' = buffer /\ \A d \in Window(s) : d \in failed'[s]
               /\ \A u \in Series : failed[u] \subseteq failed'[u]
<1>0. buffer \in Seq(Row)
  BY DEF DataOK
<1>1. UNCHANGED <<series, today, phase, starts>> /\ phase = s /\ days' = days \ Window(s)
  BY Zenon DEF SeriesOf, Turn, nasVars
<1>2. ASSUME NEW set \in Answers(s), failed' = failed,
             Turn(s, IF set = {} THEN <<>> ELSE <<[table |-> s, set |-> set]>>)
      PROVE  \A u \in Series, d \in Day :
               Present(u, d)' <=> Present(u, d) \/ (u = s /\ d \in set)
  <2> DEFINE x == [table |-> s, set |-> set]
             q == IF set = {} THEN <<>> ELSE <<x>>
  <2>1. q \in Seq(Row) /\ buffer' = buffer \o q
    BY <1>2, AnswersAre, SeriesRow DEF Turn, Write
  <2>2. x.table = s /\ x.set = set
    OBVIOUS
  <2>3. IF set = {} THEN Len(q) = 0 ELSE Len(q) = 1 /\ q[1] = x
    OBVIOUS
  <2> HIDE DEF q, x
  <2>4. ASSUME NEW u \in Series, NEW d \in Day
        PROVE  Present(u, d)' <=> Present(u, d) \/ (u = s /\ d \in set)
    <3>1. ASSUME Present(u, d) PROVE Present(u, d)'
      <4>1. \A i \in Rows : i \in Rows' /\ buffer'[i] = buffer[i]
        BY <1>0, <2>1, AddedRows DEF Rows
      <4> QED BY <1>1, <3>1, <4>1 DEF Present, Covers
    <3>2. ASSUME u = s, d \in set PROVE Present(u, d)'
      <4>1. 1 \in 1..Len(q) /\ q[1] = x
        BY <2>3, <3>2
      <4>2. /\ buffer'[Len(buffer) + 1] = x /\ Len(buffer) \in Nat /\ Len(q) \in Nat
            /\ Len(buffer') = Len(buffer) + Len(q)
        BY <1>0, <2>1, <4>1, AddedRows
      <4>3. PICK i \in Rows' : i = Len(buffer) + 1
        BY <4>1, <4>2 DEF Rows
      <4>4. buffer'[i].table = u /\ d \in buffer'[i].set
        BY <2>2, <3>2, <4>2, <4>3
      <4> QED BY <4>4 DEF Present, Covers
    <3>3. ASSUME Present(u, d)', ~ Present(u, d) PROVE u = s /\ d \in set
      <4>1. PICK i \in Rows' : Covers(i, u, d)'
        BY <1>1, <3>3 DEF Present
      <4>2. i \in Rows => buffer'[i] = buffer[i]
        BY <1>0, <2>1, AddedRows DEF Rows
      <4>3. i \notin Rows
        BY <3>3, <4>1, <4>2 DEF Present, Covers
      <4>4. PICK k \in 1..Len(q) : buffer'[i] = q[k]
        BY <1>0, <2>1, <4>1, <4>3, AddedRows DEF Rows
      <4>5. buffer'[i] = x
        BY <2>3, <4>4
      <4> QED BY <2>2, <4>1, <4>5 DEF Covers
    <3> QED BY <3>1, <3>2, <3>3
  <2> QED BY <2>4
<1>3. ASSUME Turn(s, <<>>), failed' = [failed EXCEPT ![s] = @ \cup Window(s)]
      PROVE  /\ buffer' = buffer /\ \A d \in Window(s) : d \in failed'[s]
             /\ \A u \in Series : failed[u] \subseteq failed'[u]
  <2>1. failed \in [Series -> SUBSET Day]
    BY DEF DataOK, TypeOK
  <2>2. buffer' = buffer
    BY <1>0, <1>3, ConcatEmptySeq DEF Turn, Write
  <2> QED BY <1>3, <2>1, <2>2
<1>4. \/ \E set \in Answers(s) :
           failed' = failed /\ Turn(s, IF set = {} THEN <<>> ELSE <<[table |-> s, set |-> set]>>)
      \/ Turn(s, <<>>) /\ failed' = [failed EXCEPT ![s] = @ \cup Window(s)]
  BY Zenon DEF SeriesOf
<1> QED BY <1>1, <1>2, <1>3, <1>4

(* The other steps bring no day.                                           *)
LEMMA OtherDays ==
  ASSUME DataOK, ParallelRows, [Next]_vars, ~ \E s \in Series : SeriesOf(s),
         NEW u \in Series, NEW d \in Day
  PROVE  Present(u, d)' <=> Present(u, d)
<1>0. buffer \in Seq(Row) /\ series \in [Series -> SUBSET Day]
  BY DEF DataOK, TypeOK
<1>1. CASE Adds
  <2>1. PICK q \in Seq(Row) : NoSeries(q) /\ buffer' = buffer \o q
    BY <1>1 DEF Adds
  <2>2. UNCHANGED series
    BY <1>1 DEF Adds, nasVars
  <2>3. \A i \in Rows : i \in Rows' /\ buffer'[i] = buffer[i]
    BY <1>0, <2>1, AddedRows DEF Rows
  <2>4. \A i \in Rows' : i \notin Rows => ~ Covers(i, u, d)'
    BY <1>0, <2>1, AddedRows DEF Rows, Covers, NoSeries
  <2> QED BY <2>2, <2>3, <2>4 DEF Present, Covers
<1>2. CASE DailyRun
  BY <1>2 DEF DailyRun, Present, Covers, Rows
<1>3. ASSUME NEW n \in Rows, Removes(n) PROVE Present(u, d)' <=> Present(u, d)
  <2>1. /\ buffer[n] \in Row /\ Execute(buffer[n])
        /\ \A k \in Rows' : \E m \in Rows : m # n /\ buffer'[k] = buffer[m]
        /\ \A m \in Rows : m # n => \E k \in Rows' : buffer'[k] = buffer[m]
    BY <1>3, RemovedRows DEF Removes, Rows
  <2>2. d \in series'[u] <=> d \in series[u] \/ Covers(n, u, d)
    BY <2>1, ExecutedSeries DEF Covers
  <2> QED BY <1>3, <2>1, <2>2 DEF Present, Covers
<1>4. ASSUME NEW n \in Rows, Repeats(n) PROVE Present(u, d)' <=> Present(u, d)
  <2>1. buffer[n] \in Row /\ Execute(buffer[n]) /\ buffer' = buffer
    BY <1>4, RepeatedRow
  <2>2. d \in series'[u] <=> d \in series[u] \/ Covers(n, u, d)
    BY <2>1, ExecutedSeries DEF Covers
  <2> QED BY <2>1, <2>2 DEF Present, Covers, Rows
<1>5. CASE Weeks
  <2>1. UNCHANGED <<series, buffer>>
    BY <1>5, Zenon DEF Weeks, WeeklyRun
  <2> QED BY <2>1 DEF Present, Covers, Rows
<1> QED BY <1>1, <1>2, <1>3, <1>4, <1>5, StepKinds

(* A start that was given stays so.                                        *)
LEMMA StartsKept ==
  ASSUME DataOK, [Next]_vars, NEW s \in Series PROVE starts[s] \subseteq starts'[s]
<1>1. ASSUME NEW p \in Scopes, Enter(p) PROVE starts[s] \subseteq starts'[s]
  BY <1>1 DEF Enter
<1>2. CASE ~ \E p \in Scopes : Enter(p)
  <2>1. starts' = starts
    BY <1>2 DEF Next, Proceeds, NextDay, DailyRun, WeeklyRun, Start, Lists, PhaseEnds, FetchEnds,
       FlushEnds, PricesOf, DeriveOf, Ticked, SeriesOf, Raises, FlushCommand, Deliver, FlushFails,
       history, vars
  <2> QED BY <2>1
<1> QED BY <1>1, <1>2

(* A day that was asked for in vain stays so.                              *)
LEMMA FailedKept ==
  ASSUME DataOK, [Next]_vars, ~ \E s \in Series : SeriesOf(s) PROVE failed' = failed
BY DEF Next, Proceeds, NextDay, DailyRun, WeeklyRun, Start, Enter, Lists, PhaseEnds, FetchEnds, FlushEnds,
   PricesOf, DeriveOf, Ticked, Raises, FlushCommand, Deliver, FlushFails, history, vars

(* A phase that goes on without a request has the same days left.          *)
LEMMA SamePhase ==
  ASSUME [Next]_vars, ~ (\E s \in Series : SeriesOf(s)), NEW s \in Series, phase' = s
  PROVE  (phase = s /\ days' = days) \/ Enter(s)
<1>1. s # "next" /\ s # "flush" /\ s # "idle" /\ s # "prices" /\ s # "derive" /\ s # "parallel flush"
  BY DEF Series
<1>2. CASE NextDay \/ DailyRun \/ Weeks \/ Deliver \/ UNCHANGED vars
  <2>1. UNCHANGED <<phase, days>>
    BY <1>2, Zenon DEF NextDay, DailyRun, Weeks, WeeklyRun, Deliver, runVars, vars
  <2> QED BY <2>1
<1>3. CASE \/ Lists \/ PhaseEnds \/ FetchEnds \/ FlushEnds \/ Raises \/ FlushFails
           \/ (\E scope \in scopes \cup {"all"}, from \in {NoStart} \cup Starts : Start(scope, from))
  <2>1. phase' \in {"next", "flush", "idle"}
    BY <1>3, Zenon DEF Lists, PhaseEnds, FetchEnds, FlushEnds, Raises, FlushFails, Start, Idle
  <2> QED BY <1>1, <2>1
<1>4. ASSUME NEW p \in Scopes, Enter(p) PROVE Enter(s)
  <2>1. p = s
    BY <1>4 DEF Enter
  <2> QED BY <1>4, <2>1
<1>5. ASSUME NEW t \in Ticker, PricesOf(t) \/ DeriveOf(t) PROVE FALSE
  <2>1. phase \in {"prices", "derive"} /\ UNCHANGED phase
    BY <1>5, Zenon DEF PricesOf, DeriveOf, Ticked, Turn
  <2> QED BY <1>1, <2>1
<1>6. ASSUME NEW f \in Flush, FlushCommand(f) PROVE FALSE
  <2>1. phase' = f
    BY <1>6 DEF FlushCommand
  <2> QED BY <1>1, <2>1 DEF Flush
<1> QED BY <1>2, <1>3, <1>4, <1>5, <1>6, Zenon DEF Next, Proceeds, Weeks

(* A phase begins with all the days after the last one stored, or from the *)
(* run's start.                                                            *)
LEMMA EnterDays ==
  ASSUME DataOK, NoGaps, DaysInOrder, NEW s \in Series, Enter(s),
         NEW e \in days', NEW d \in 1..e
  PROVE  d \in days' \/ Asked(s, d, e) \/ \E from \in starts'[s] : d < from /\ from <= e
<1>1. /\ days' = Wanted(s)
      /\ start \in Day => start \in starts'[s]
  BY DEF Enter
<1>2. e \in 1..today /\ 1..today \subseteq Day /\ d \in 1..today /\ Day \subseteq Nat
      /\ start \in {NoStart} \cup Day
  BY <1>1, LastDayAssumption DEF Wanted, DataOK, TypeOK, Day
<1>3. CASE start = NoStart /\ ~ \A x \in series[s] : x < d
  <2>1. PICK x \in series[s] : ~ x < d
    BY <1>3
  <2>2. x \in Day /\ x < e
    BY <1>1, <1>3, <2>1 DEF DataOK, TypeOK, Wanted
  <2>3. d \in 1..x
    BY <1>2, <2>1, <2>2, LastDayAssumption DEF Day
  <2>4. Asked(s, d, x)
    BY <2>1, <2>2, <2>3 DEF DaysInOrder, Present
  <2>5. starts[s] \subseteq Day
    BY DEF DataOK, TypeOK
  <2>6. \A from \in starts[s] : from <= x => from <= e
    BY <1>2, <2>2, <2>5
  <2> QED BY <2>4, <2>6 DEF Asked
<1>4. CASE start # NoStart /\ ~ start <= d
  <2>1. start \in Day /\ start <= e
    BY <1>1, <1>2, <1>4 DEF Wanted
  <2>2. d < start
    BY <1>2, <1>4, <2>1
  <2> QED BY <1>1, <2>1, <2>2
<1>5. CASE IF start = NoStart THEN \A x \in series[s] : x < d ELSE start <= d
  <2>1. ASSUME s = "valuation" PROVE \E t \in Ticker : d \in Stored(prices, t)
    <3>1. PICK t \in Ticker : e \in Stored(prices, t)
      BY <1>1, <2>1 DEF Wanted
    <3>2. d <= e /\ d \in Day /\ e \in Day
      BY <1>2, LastDayAssumption DEF Day
    <3> QED BY <3>1, <3>2 DEF NoGaps, Stored
  <2> QED BY <1>1, <1>2, <1>5, <2>1 DEF Wanted
<1> QED BY <1>3, <1>4, <1>5

LEMMA DaysStep ==
  ASSUME DataOK, NoGaps, ParallelRows, DaysInOrder, [Next]_vars PROVE DaysInOrder'
<1>1. CASE ~ \E s \in Series : SeriesOf(s)
  <2>1. \A u \in Series, d \in Day : Present(u, d)' <=> Present(u, d)
    BY <1>1, OtherDays
  <2>2. failed' = failed
    BY <1>1, FailedKept
  <2>3. ASSUME NEW u \in Series, NEW d \in Day, NEW e, Asked(u, d, e) PROVE Asked(u, d, e)'
    <3>1. Had(u, d) => Had(u, d)'
      BY <2>1, <2>2 DEF Had
    <3> QED BY <2>3, <3>1, StartsKept DEF Asked
  <2>4. \A e \in Day : \A d \in 1..e : d \in Day
    BY LastDayAssumption DEF Day
  <2>5. ASSUME NEW u \in Series, NEW e \in Day, Present(u, e)', NEW d \in 1..e
        PROVE  Asked(u, d, e)'
    BY <2>1, <2>3, <2>4, <2>5 DEF DaysInOrder
  <2>6. ASSUME NEW u \in Series, phase' = u, NEW e \in days', NEW d \in 1..e
        PROVE  d \in days' \/ Asked(u, d, e)'
    <3>1. d \in days' \/ Asked(u, d, e) \/ \E from \in starts'[u] : d < from /\ from <= e
      BY <1>1, <2>6, SamePhase, EnterDays DEF DaysInOrder
    <3>2. e \in Day /\ d \in Day
      BY <2>4, ControlStep, LastDayAssumption DEF ControlOK, Day
    <3> QED BY <2>3, <3>1, <3>2 DEF Asked
  <2> QED BY <2>5, <2>6 DEF DaysInOrder
<1>2. ASSUME NEW s \in Series, SeriesOf(s) PROVE DaysInOrder'
  <2>1. /\ UNCHANGED <<series, today, phase, starts>> /\ phase = s /\ days' = days \ Window(s)
        /\ days \subseteq Day /\ \A x \in days : x <= today
        /\ today \in Day
    BY <1>2, SeriesStep, LastDayAssumption DEF DataOK, TypeOK, Day
  <2>2. \A e \in Day : \A d \in 1..e : d \in Day /\ d <= e /\ e \in Nat /\ d \in Nat
    BY LastDayAssumption DEF Day
  <2>3. ASSUME NEW e \in days, NEW d \in 1..e PROVE d \in days \/ Asked(s, d, e)
    BY <2>1, <2>3 DEF DaysInOrder
  <2>4. CASE \E set \in Answers(s) :
               /\ failed' = failed
               /\ \A u \in Series, d \in Day :
                    Present(u, d)' <=> Present(u, d) \/ (u = s /\ d \in set)
    <3>1. PICK set \in Answers(s) :
               /\ failed' = failed
               /\ \A u \in Series, d \in Day :
                    Present(u, d)' <=> Present(u, d) \/ (u = s /\ d \in set)
      BY <2>4
    <3>2. \A u \in Series, d \in Day : Had(u, d) => Had(u, d)'
      BY <3>1 DEF Had
    <3>a. ASSUME NEW u \in Series, NEW d \in Day, NEW e, Asked(u, d, e) PROVE Asked(u, d, e)'
      BY <2>1, <3>2, <3>a DEF Asked
    <3>3. set \subseteq Window(s) /\ Window(s) \subseteq days /\ set \subseteq Day
      BY AnswersAre
    <3>4. ASSUME NEW d \in Window(s)
          PROVE  Had(s, d)' \/ (s = "valuation" /\ d = today)
      <4>1. CASE d \in set
        BY <2>1, <3>1, <3>3, <4>1 DEF Had
      <4>2. CASE d \notin set
        BY <4>2 DEF Answers, Had, Series
      <4> QED BY <4>1, <4>2
    <3>5. ASSUME NEW e \in set, NEW d \in 1..e PROVE Asked(s, d, e)'
      <4>1. CASE Asked(s, d, e)
        BY <2>2, <3>3, <3>a, <4>1
      <4>2. CASE d \in days
        <5>1. d \in Window(s) /\ (s = "valuation" => d = e)
          BY <2>2, <3>3, <4>2, WindowFirst
        <5>2. CASE d \in set
          BY <3>1, <3>3, <5>2 DEF Asked, Had
        <5>3. CASE d \notin set
          BY <5>1, <5>3 DEF Answers, Asked, Had, Series
        <5> QED BY <5>2, <5>3
      <4> QED BY <2>3, <3>3, <4>1, <4>2
    <3>6. ASSUME NEW u \in Series, NEW e \in Day, Present(u, e)', NEW d \in 1..e
          PROVE  Asked(u, d, e)'
      <4>1. CASE Present(u, e)
        BY <2>2, <3>a, <4>1 DEF DaysInOrder
      <4>2. CASE u = s /\ e \in set
        BY <3>5, <4>2
      <4> QED BY <3>1, <3>6, <4>1, <4>2
    <3>7. ASSUME NEW e \in days', NEW d \in 1..e PROVE d \in days' \/ Asked(s, d, e)'
      <4>1. CASE Asked(s, d, e)
        BY <2>1, <2>2, <3>a, <4>1
      <4>2. CASE d \in Window(s)
        <5>1. ~ (s = "valuation" /\ d = today)
          <6>1. ASSUME d = today PROVE FALSE
            <7>1. e = d
              BY <2>1, <2>2, <6>1, LastDayAssumption DEF Day
            <7> QED BY <2>1, <4>2, <7>1
          <6> QED BY <6>1
        <5> QED BY <3>4, <4>2, <5>1 DEF Asked
      <4> QED BY <2>1, <2>3, <4>1, <4>2
    <3> QED BY <2>1, <3>6, <3>7 DEF DaysInOrder
  <2>5. CASE /\ buffer' = buffer /\ \A d \in Window(s) : d \in failed'[s]
             /\ \A u \in Series : failed[u] \subseteq failed'[u]
    <3>1. \A u \in Series, d \in Day : Present(u, d)' <=> Present(u, d)
      BY <2>1, <2>5 DEF Present, Covers, Rows
    <3>2. \A u \in Series, d \in Day : Had(u, d) => Had(u, d)'
      BY <2>5, <3>1 DEF Had
    <3>a. ASSUME NEW u \in Series, NEW d \in Day, NEW e, Asked(u, d, e) PROVE Asked(u, d, e)'
      BY <2>1, <3>2, <3>a DEF Asked
    <3>3. ASSUME NEW u \in Series, NEW e \in Day, Present(u, e)', NEW d \in 1..e
          PROVE  Asked(u, d, e)'
      BY <2>2, <3>1, <3>a, <3>3 DEF DaysInOrder
    <3>4. ASSUME NEW e \in days', NEW d \in 1..e PROVE d \in days' \/ Asked(s, d, e)'
      <4>1. CASE Asked(s, d, e)
        BY <2>1, <2>2, <3>a, <4>1
      <4>2. CASE d \in Window(s)
        BY <2>5, <4>2 DEF Asked, Had
      <4> QED BY <2>1, <2>3, <4>1, <4>2
    <3> QED BY <2>1, <3>3, <3>4 DEF DaysInOrder
  <2> QED BY <1>2, <2>4, <2>5, SeriesStep
<1> QED BY <1>1, <1>2
-----------------------------------------------------------------------------
(***************************************************************************)
(* The invariant, and what it says.                                        *)
(***************************************************************************)

OrderInv ==
  /\ DataOK /\ NoGaps /\ ParallelRows
  /\ MarksBacked /\ MarksStored
  /\ DatesBacked
  /\ WeeklyRises /\ DaysInOrder

LEMMA OrderInit == Init => OrderInv
<1> SUFFICES ASSUME Init PROVE OrderInv
  OBVIOUS
<1>1. DataOK /\ NoGaps
  BY TypeInit
<1>2. /\ Rows = {} /\ phase = "idle" /\ covered = {} /\ derived = {}
      /\ \A t \in Ticker : log[t].status = "none"
      /\ \A s \in Series : series[s] = {}
  BY DEF Init, NoLog, Rows
<1>3. ParallelRows /\ MarksBacked /\ MarksStored /\ DatesBacked
  BY <1>2 DEF ParallelRows, MarksBacked, MarksStored, DatesBacked
<1>4. WeeklyRises /\ DaysInOrder
  BY <1>2 DEF WeeklyRises, DaysInOrder, Present, Series
<1> QED BY <1>1, <1>3, <1>4 DEF OrderInv

LEMMA OrderStep == OrderInv /\ [Next]_vars => OrderInv'
BY TypeStep, ParallelStep, MarksStep, DatesStep, WeeklyStep, DaysStep DEF OrderInv

(* Wherever a flush is cut off, and whatever rows are executed twice, a    *)
(* ticker that sync_log calls ok has the bar of its last_date.             *)
THEOREM TushareMarksStored == Spec => []OkMeansStored
<1>1. OrderInv => OkMeansStored
  BY DEF OrderInv, MarksStored, OkMeansStored
<1> QED BY <1>1, OrderInit, OrderStep, PTL DEF Spec

(* The list_date of a stock of the run's own list has reached it, or still *)
(* waits.                                                                  *)
THEOREM DatesReachStocks == Spec => []DatesFollowStocks
<1>1. OrderInv => DatesFollowStocks
  BY DEF OrderInv, DatesBacked, DatesFollowStocks, Covers, Rows
<1> QED BY <1>1, OrderInit, OrderStep, PTL DEF Spec

(* A series misses no day before one stored that has not failed, does not  *)
(* wait, and was not left out by a later start.                            *)
THEOREM HolesHaveFailed == Spec => []HolesAreFailures
<1>1. OrderInv => HolesAreFailures
  <2> SUFFICES ASSUME OrderInv, NEW s \in Series, NEW e \in series[s], NEW d \in 1..e
               PROVE  \/ s = "returns" /\ d \notin Announced
                      \/ d \in series[s] \cup failed[s]
                      \/ \E i \in 1..Len(buffer) : buffer[i].table = s /\ d \in buffer[i].set
                      \/ \E from \in starts[s] : d < from /\ from <= e
    BY DEF HolesAreFailures
  <2>1. e \in Day
    BY DEF OrderInv, DataOK, TypeOK
  <2> QED BY <2>1 DEF OrderInv, DaysInOrder, Asked, Had, Present, Covers, Rows
<1> QED BY <1>1, OrderInit, OrderStep, PTL DEF Spec

(* A derived weekly bar is never replaced by one that was derived from     *)
(* fewer days, however late its row is delivered.                          *)
THEOREM DerivedBarsGrow == Spec => DerivedGrows
<1>1. OrderInv /\ [Next]_vars => [\A t \in derived : weekly[t] \subseteq weekly'[t]]_vars
  BY WeeklyStep DEF OrderInv
<1> QED BY <1>1, OrderInit, OrderStep, PTL DEF Spec, DerivedGrows
=============================================================================
