---------------------------- MODULE PriceRunsProofs ---------------------------
(***************************************************************************)
(* Proofs about PriceRuns: in every feed the marks of success have their   *)
(* bars and no history has a hole; what a CN run reports as ok is saved; a *)
(* download from the beginning leaves a ticker on one basis; and all feeds *)
(* refine the abstract history of bars.                                    *)
(***************************************************************************)
EXTENDS PriceRuns, FiniteSetTheorems, WellFoundedInduction, TLAPS

(***************************************************************************)
(* The tables: what the statements of PriceStore do to the days that are   *)
(* stored, and when a download leaves no hole.                             *)
(***************************************************************************)

(* No day is missing between two days of a set.                            *)
Whole(A) == \A c, e \in A : \A d \in Day : c <= d /\ d <= e => d \in A

LEMMA ContiguousIsWhole ==
  ASSUME NEW p, NEW t
  PROVE  Contiguous(p, t) <=> Whole(Stored(p, t))
  BY DEF Contiguous, Whole, Stored

(* A download that begins no later than the day after some stored one, and *)
(* ends with or after the last, leaves no hole.                            *)
LEMMA GrownIsWhole ==
  ASSUME NEW A \in SUBSET Day, NEW s \in Int, NEW l \in Int, Whole(A),
         A # {} => \E d \in A : s <= d + 1,
         \A d \in A : d <= l
  PROVE  Whole(A \cup ((s..l) \cap Day))
<1> DEFINE C == A \cup ((s..l) \cap Day)
<1> SUFFICES ASSUME NEW c \in C, NEW e \in C, NEW d \in Day, c <= d, d <= e
             PROVE  d \in C
  BY DEF Whole
<1>1. Day \subseteq Int
  BY LastDayAssumption DEF Day
<1>2. c \in Int /\ d \in Int /\ e \in Int /\ e <= l
  BY <1>1
<1>3. CASE s <= d
  BY <1>2, <1>3
<1>4. CASE ~ (s <= d)
  <2>1. c \in A
    BY <1>2, <1>4
  <2>2. PICK f \in A : s <= f + 1
    BY <2>1
  <2>3. f \in Int /\ d <= f
    BY <1>1, <1>2, <1>4, <2>2
  <2> QED BY <2>1, <2>3 DEF Whole
<1> QED BY <1>3, <1>4

(* The statements add the days they are given, and keep the others.        *)
LEMMA InsertRows ==
  ASSUME NEW p \in Prices, NEW t \in Ticker, NEW S, NEW b \in Nat \ {0},
         NEW q, q = InsertIgnore(p, t, S, b)
  PROVE  /\ q \in Prices
         /\ \A u \in Ticker \ {t} : q[u] = p[u]
         /\ Stored(q, t) = Stored(p, t) \cup (S \cap Day)
  BY DEF InsertIgnore, Prices, Stored, NoRow

LEMMA UpsertRows ==
  ASSUME NEW p \in Prices, NEW t \in Ticker, NEW S, NEW b \in Nat \ {0},
         NEW q, q = Upsert(p, t, S, b)
  PROVE  /\ q \in Prices
         /\ \A u \in Ticker \ {t} : q[u] = p[u]
         /\ Stored(q, t) = Stored(p, t) \cup (S \cap Day)
         /\ \A d \in Day : q[t][d] = IF d \in S THEN b ELSE p[t][d]
  BY DEF Upsert, Prices, Stored, NoRow

(* A ticker that is marked ok has the bar of its mark.                     *)
MarksStored == \A t \in Ticker : log[t].status = "ok" => log[t].last \in Stored(prices, t)

LEMMA MarksSay == MarksStored => OkMeansStored
  BY DEF MarksStored, OkMeansStored, Stored

Tables ==
  /\ today \in Day /\ prices \in Prices /\ log \in [Ticker -> SyncRow]
  /\ MarksStored /\ NoHoles

(* A ticker is downloaded from no later than the day after a stored one.   *)
Reaches(p, t, s) == Stored(p, t) # {} => \E d \in Stored(p, t) : s <= d + 1

LEMMA DayIs == Day \subseteq Nat /\ 1 \in Day /\ LastDay \in Nat /\ Day = 1..LastDay
  BY LastDayAssumption DEF Day

(* The rows of one ticker are written.                                     *)
LEMMA RowsAdded ==
  ASSUME Tables, NEW t \in Ticker, NEW S, NEW b \in Nat \ {0},
         prices' = InsertIgnore(prices, t, S, b) \/ prices' = Upsert(prices, t, S, b),
         Whole(Stored(prices, t) \cup (S \cap Day))
  PROVE  /\ prices' \in Prices /\ NoHoles'
         /\ \A u \in Ticker : Stored(prices, u) \subseteq Stored(prices', u)
         /\ \A u \in Ticker \ {t} : Stored(prices', u) = Stored(prices, u)
         /\ Stored(prices', t) = Stored(prices, t) \cup (S \cap Day)
<1>1. /\ prices' \in Prices
      /\ \A u \in Ticker \ {t} : prices'[u] = prices[u]
      /\ Stored(prices', t) = Stored(prices, t) \cup (S \cap Day)
  BY InsertRows, UpsertRows DEF Tables
<1>2. \A u \in Ticker \ {t} : Stored(prices', u) = Stored(prices, u)
  BY <1>1 DEF Stored
<1>3. \A u \in Ticker \ {t} : Whole(Stored(prices', u))
  BY <1>2, ContiguousIsWhole DEF Tables, NoHoles
<1>4. \A u \in Ticker : Contiguous(prices', u)
  BY <1>1, <1>3, ContiguousIsWhole
<1> QED BY <1>1, <1>2, <1>4 DEF NoHoles

LEMMA RowsWritten ==
  ASSUME Tables, NEW t \in Ticker, NEW s \in Int, NEW l \in Int, NEW b \in Nat \ {0},
         prices' = InsertIgnore(prices, t, s..l, b) \/ prices' = Upsert(prices, t, s..l, b),
         Reaches(prices, t, s),
         \A d \in Stored(prices, t) : d <= l
  PROVE  /\ prices' \in Prices /\ NoHoles'
         /\ \A u \in Ticker : Stored(prices, u) \subseteq Stored(prices', u)
         /\ \A u \in Ticker \ {t} : Stored(prices', u) = Stored(prices, u)
         /\ Stored(prices', t) = Stored(prices, t) \cup ((s..l) \cap Day)
<1>1. Stored(prices, t) \in SUBSET Day /\ Whole(Stored(prices, t))
  BY ContiguousIsWhole DEF Tables, NoHoles, Stored
<1>2. Whole(Stored(prices, t) \cup ((s..l) \cap Day))
  BY <1>1, GrownIsWhole DEF Reaches
<1> DEFINE S == s..l
<1>3. prices' = InsertIgnore(prices, t, S, b) \/ prices' = Upsert(prices, t, S, b)
  OBVIOUS
<1>4. Whole(Stored(prices, t) \cup (S \cap Day))
  BY <1>2
<1> HIDE DEF S
<1>5. /\ prices' \in Prices /\ NoHoles'
      /\ \A u \in Ticker : Stored(prices, u) \subseteq Stored(prices', u)
      /\ \A u \in Ticker \ {t} : Stored(prices', u) = Stored(prices, u)
      /\ Stored(prices', t) = Stored(prices, t) \cup (S \cap Day)
  BY <1>3, <1>4, RowsAdded
<1> QED BY <1>5 DEF S

(* Nothing else happens to the log than the marks of success, of rows that *)
(* are there, and those of errors.                                         *)
Marked(u) ==
  \/ log'[u] = log[u]
  \/ log'[u].status = "error" /\ log'[u] \in SyncRow
  \/ \E l \in Stored(prices', u) : log'[u] = [status |-> "ok", last |-> l]

LEMMA MarksKept ==
  ASSUME Tables, log' = [u \in Ticker |-> log'[u]], \A u \in Ticker : Marked(u),
         \A u \in Ticker : Stored(prices, u) \subseteq Stored(prices', u)
  PROVE  log' \in [Ticker -> SyncRow] /\ MarksStored'
<1>1. ASSUME NEW u \in Ticker
      PROVE  /\ log'[u] \in SyncRow
             /\ log'[u].status = "ok" => log'[u].last \in Stored(prices', u)
  <2>1. CASE log'[u] = log[u]
    BY <2>1 DEF Tables, MarksStored
  <2>2. CASE log'[u].status = "error" /\ log'[u] \in SyncRow
    BY <2>2
  <2>3. ASSUME NEW l \in Stored(prices', u), log'[u] = [status |-> "ok", last |-> l]
        PROVE  log'[u] \in SyncRow /\ log'[u].last \in Stored(prices', u)
    <3>1. l \in 0..LastDay
      BY DayIs DEF Stored
    <3> QED BY <2>3, <3>1 DEF SyncRow
  <2> QED BY <2>1, <2>2, <2>3 DEF Marked
<1>2. log' \in [Ticker -> SyncRow]
  BY <1>1
<1> QED BY <1>1, <1>2 DEF MarksStored

LEMMA SyncOkRow ==
  ASSUME NEW lg \in [Ticker -> SyncRow], NEW t \in Ticker, NEW l \in 0..LastDay,
         NEW q, q = SyncOk(lg, t, l)
  PROVE  /\ q \in [Ticker -> SyncRow]
         /\ \A u \in Ticker \ {t} : q[u] = lg[u]
         /\ q[t] = [status |-> "ok", last |-> l]
  BY DEF SyncOk, SyncRow

LEMMA SyncErrorRow ==
  ASSUME NEW lg \in [Ticker -> SyncRow], NEW t \in Ticker, NEW l \in 0..LastDay,
         NEW q, q = SyncError(lg, t, l)
  PROVE  /\ q \in [Ticker -> SyncRow]
         /\ \A u \in Ticker \ {t} : q[u] = lg[u]
         /\ q[t].status = "error"
  BY DEF SyncError, SyncRow

(* get_last_sync_map finds a day that is stored; for daily prices it finds *)
(* none only if nothing is stored.                                         *)
LEMMA LastIsStored ==
  ASSUME Tables, NEW t \in Ticker, NEW l \in 0..LastDay, NEW daily \in BOOLEAN,
         IsLast(l, prices, log, t, daily)
  PROVE  /\ l = 0 \/ l \in Stored(prices, t)
         /\ daily /\ l = 0 => Stored(prices, t) = {}
<1>1. CASE log[t].status = "ok"
  <2>1. l \in Stored(prices, t) /\ l # 0
    BY <1>1, DayIs DEF IsLast, Tables, MarksStored, Stored
  <2> QED BY <2>1
<1>2. CASE log[t].status # "ok"
  BY <1>2, DayIs DEF IsLast, Stored
<1> QED BY <1>1, <1>2

-----------------------------------------------------------------------------
(***************************************************************************)
(* HK prices.                                                              *)
(***************************************************************************)

(* The names of the feed's module for the tables are the same.             *)
LEMMA HkTables ==
  /\ Hk!Day = Day /\ Hk!Prices = Prices /\ Hk!SyncRow = SyncRow
  /\ Hk!NoPrices = NoPrices /\ Hk!NoLog = NoLog
  /\ \A p, t : Hk!Stored(p, t) = Stored(p, t)
  /\ \A p, t, S, b : Hk!Upsert(p, t, S, b) = Upsert(p, t, S, b)
  /\ \A lg, t, d : Hk!SyncOk(lg, t, d) = SyncOk(lg, t, d)
  /\ \A lg, t, d : Hk!SyncError(lg, t, d) = SyncError(lg, t, d)
  /\ \A d, p, lg, t : Hk!IsLast(d, p, lg, t, TRUE) <=> IsLast(d, p, lg, t, TRUE)
  BY DEF Hk!Day, Hk!Prices, Hk!SyncRow, Hk!NoPrices, Hk!NoLog, Hk!Stored, Hk!Upsert,
         Hk!SyncOk, Hk!SyncError, Hk!IsLast, Hk!NoRow, Hk!Day, Day, Prices, SyncRow,
         NoPrices, NoLog, Stored, Upsert, SyncOk, SyncError, IsLast, NoRow

(* The bases are those of the dividends that have been paid.               *)
BasesOK ==
  /\ basis \in [Ticker -> Nat] /\ \A t \in Ticker : basis[t] \in 1..(1 + Dividends[t])
  /\ rebased \subseteq Ticker

(* A ticker that was downloaded from the beginning is on one basis.        *)
OneBasis == \A t \in rebased : \A d \in Stored(prices, t) : prices[t][d] = basis[t]

HkInv ==
  /\ Tables /\ BasesOK /\ OneBasis
  /\ phase \in {"idle", "run"} /\ todo \subseteq Ticker /\ start \in [Ticker -> Day]
  /\ \A t \in todo : Reaches(prices, t, start[t])

(* An increment starts within the history of each of its tickers.          *)
LEMMA HkStart ==
  ASSUME HkInv, NEW tickers \in SUBSET Ticker, Hk!StartRun(tickers) \/ Hk!StartRebase(tickers)
  PROVE  HkInv'
<1>1. PICK from \in [Ticker -> Day] :
        /\ Hk!Begin(tickers, from)
        /\ \A t \in tickers : Reaches(prices, t, from[t])
  <2>1. CASE Hk!StartRun(tickers)
    <3>1. PICK last \in [Ticker -> 0..LastDay] :
            /\ \A t \in Ticker : IsLast(last[t], prices, log, t, TRUE)
            /\ Hk!Begin(tickers, [t \in Ticker |-> IF last[t] > Lookback THEN last[t] - Lookback ELSE 1])
      BY <2>1, HkTables DEF Hk!StartRun
    <3> DEFINE from == [t \in Ticker |-> IF last[t] > Lookback THEN last[t] - Lookback ELSE 1]
    <3>2. ASSUME NEW t \in Ticker
          PROVE  from[t] \in Day /\ Reaches(prices, t, from[t])
      <4>1. last[t] \in 0..LastDay /\ Lookback \in Nat /\ from[t] \in Day
        BY DayIs, SettingsAssumption
      <4>2. CASE last[t] = 0
        <5>1. from[t] = 1 /\ Stored(prices, t) \subseteq Nat
          BY <4>1, <4>2, DayIs DEF Stored
        <5>2. \A d \in Stored(prices, t) : 1 <= d + 1
          BY <5>1
        <5> QED BY <4>1, <5>1, <5>2 DEF Reaches
      <4>3. CASE last[t] \in Stored(prices, t)
        <5>1. from[t] <= last[t] + 1
          BY <4>1
        <5> QED BY <4>1, <4>3, <5>1 DEF Reaches
      <4>4. last[t] = 0 \/ last[t] \in Stored(prices, t)
        BY <3>1, <4>1, LastIsStored DEF HkInv
      <4> QED BY <4>2, <4>3, <4>4
    <3>3. from \in [Ticker -> Day]
      BY <3>2
    <3> HIDE DEF from
    <3> QED BY <3>1, <3>2, <3>3 DEF from
  <2>2. CASE Hk!StartRebase(tickers)
    <3>1. PICK f \in {1} \cup {d \in Day : d + RebaseDays = today} :
            /\ \A t \in tickers : Stored(prices, t) # {} =>
                 \E d \in Stored(prices, t) : d >= f - 1
            /\ Hk!Begin(tickers, [t \in Ticker |-> f])
      BY <2>2, HkTables DEF Hk!StartRebase
    <3>2. f \in Day /\ f \in Nat
      BY DayIs
    <3>3. ASSUME NEW t \in tickers PROVE Reaches(prices, t, f)
      <4>1. Stored(prices, t) \subseteq Nat
        BY DayIs DEF Stored
      <4> QED BY <3>1, <3>2, <4>1 DEF Reaches
    <3> DEFINE from == [t \in Ticker |-> f]
    <3>4. from \in [Ticker -> Day] /\ \A t \in tickers : Reaches(prices, t, from[t])
      BY <3>2, <3>3
    <3> QED BY <3>1, <3>4
  <2> QED BY <2>1, <2>2
<1>2. /\ phase' = "run" /\ todo' = tickers
      /\ start' = [t \in Ticker |-> IF t \in tickers THEN from[t] ELSE 1]
      /\ UNCHANGED <<today, basis, prices, log, rebased>>
  BY <1>1 DEF Hk!Begin
<1>3. start' \in [Ticker -> Day] /\ \A t \in tickers : start'[t] = from[t]
  BY <1>2, DayIs
<1>4. Tables' /\ BasesOK' /\ OneBasis'
  BY <1>2 DEF HkInv, Tables, BasesOK, OneBasis, MarksStored, NoHoles
<1>5. \A t \in todo' : Reaches(prices', t, start'[t])
  BY <1>1, <1>2, <1>3
<1> QED BY <1>2, <1>3, <1>4, <1>5 DEF HkInv

(* A dividend changes the bases of those whose history is not rebased any  *)
(* more.                                                                   *)
LEMMA DividendsPaid ==
  ASSUME BasesOK, OneBasis, UNCHANGED prices,
         NEW paid \in SUBSET {t \in Ticker : basis[t] <= Dividends[t]},
         basis' = [t \in Ticker |-> IF t \in paid THEN basis[t] + 1 ELSE basis[t]],
         rebased' = rebased \ paid
  PROVE  BasesOK' /\ OneBasis'
<1>1. ASSUME NEW t \in Ticker PROVE basis'[t] \in Nat /\ basis'[t] \in 1..(1 + Dividends[t])
  BY DividendsAssumption DEF BasesOK
<1>2. basis' \in [Ticker -> Nat]
  BY <1>1
<1>3. \A t \in rebased' : t \in rebased /\ t \in Ticker /\ basis'[t] = basis[t]
  BY DEF BasesOK
<1> QED BY <1>1, <1>2, <1>3 DEF BasesOK, OneBasis

(* The rows of one ticker up to the last day, of the basis of today, keep  *)
(* it on one basis; from the beginning on they leave it on one.            *)
LEMMA RowsOnBasis ==
  ASSUME Tables, BasesOK, OneBasis, NEW t \in Ticker, NEW s \in Day, NEW l \in Int,
         prices' = Upsert(prices, t, s..l, basis[t]),
         \A d \in Stored(prices, t) : d <= l,
         UNCHANGED basis,
         rebased' = rebased \/ (s = 1 /\ rebased' = rebased \cup {t})
  PROVE  BasesOK' /\ OneBasis'
<1>1. basis[t] \in Nat \ {0}
  BY DEF BasesOK
<1>2. /\ \A u \in Ticker \ {t} : prices'[u] = prices[u]
      /\ Stored(prices', t) = Stored(prices, t) \cup ((s..l) \cap Day)
      /\ \A d \in Day : prices'[t][d] = IF d \in s..l THEN basis[t] ELSE prices[t][d]
  <2>1. prices \in Prices
    BY DEF Tables
  <2> DEFINE S == s..l
  <2>2. prices' = Upsert(prices, t, S, basis[t])
    OBVIOUS
  <2> HIDE DEF S
  <2>3. /\ \A u \in Ticker \ {t} : prices'[u] = prices[u]
        /\ Stored(prices', t) = Stored(prices, t) \cup (S \cap Day)
        /\ \A d \in Day : prices'[t][d] = IF d \in S THEN basis[t] ELSE prices[t][d]
    BY <1>1, <2>1, <2>2, UpsertRows
  <2> QED BY <2>3 DEF S
<1>3. BasesOK'
  BY DEF BasesOK
<1>4. ASSUME NEW u \in rebased', NEW d \in Stored(prices', u) PROVE prices'[u][d] = basis[u]
  <2>1. u \in Ticker /\ d \in Day /\ d \in Nat
    BY <1>3, <1>4, DayIs DEF BasesOK, Stored
  <2>2. CASE u # t
    BY <1>2, <1>4, <2>1, <2>2 DEF OneBasis, Stored
  <2>3. CASE u = t /\ d \in s..l
    BY <1>2, <2>1, <2>3
  <2>4. CASE u = t /\ d \notin s..l
    <3>1. d \in Stored(prices, t) /\ d <= l /\ ~ (s <= d)
      BY <1>2, <1>4, <2>1, <2>4, DayIs
    <3>2. s # 1
      BY <2>1, <3>1, DayIs
    <3>3. t \in rebased
      BY <1>4, <2>4, <3>2
    <3> QED BY <1>2, <2>1, <2>4, <3>1, <3>3 DEF OneBasis
  <2> QED BY <2>2, <2>3, <2>4
<1> QED BY <1>3, <1>4 DEF OneBasis

(* What an answer leaves in the tables, with a mark of success or an error.*)
LEMMA HkWrite ==
  ASSUME HkInv, NEW t \in Ticker, NEW l \in Day, Hk!Save(t, l) \/ Hk!MarkFails(t, l)
  PROVE  HkInv'
<1>1. /\ t \in todo /\ todo' = todo \ {t} /\ UNCHANGED <<today, basis, phase, start>>
      /\ l \in start[t]..today /\ \A d \in Stored(prices, t) : d <= l
      /\ prices' = Upsert(prices, t, start[t]..l, basis[t])
      /\ rebased' = IF start[t] = 1 THEN rebased \cup {t} ELSE rebased
      /\ log' = SyncOk(log, t, l) \/ log' = SyncError(log, t, today)
  BY HkTables DEF Hk!Save, Hk!MarkFails, Hk!Take, Hk!Answered, Hk!Written
<1>2. /\ start[t] \in Day /\ start[t] \in Int /\ l \in Int /\ basis[t] \in Nat \ {0}
      /\ Reaches(prices, t, start[t]) /\ today \in 0..LastDay /\ l \in 0..LastDay
  BY <1>1, DayIs DEF HkInv, BasesOK, Tables
<1>3. /\ prices' \in Prices /\ NoHoles'
      /\ \A u \in Ticker : Stored(prices, u) \subseteq Stored(prices', u)
      /\ \A u \in Ticker \ {t} : Stored(prices', u) = Stored(prices, u)
      /\ Stored(prices', t) = Stored(prices, t) \cup ((start[t]..l) \cap Day)
  BY <1>1, <1>2, RowsWritten DEF HkInv
<1>4. l \in Stored(prices', t)
  BY <1>1, <1>2, <1>3
<1>5. log' \in [Ticker -> SyncRow] /\ MarksStored'
  <2>1. /\ log' \in [Ticker -> SyncRow]
        /\ \A u \in Ticker \ {t} : log'[u] = log[u]
        /\ log'[t].status = "error" \/ log'[t] = [status |-> "ok", last |-> l]
    BY <1>1, <1>2, SyncOkRow, SyncErrorRow DEF HkInv, Tables
  <2>2. \A u \in Ticker : Marked(u)
    BY <1>4, <2>1 DEF Marked
  <2> QED BY <1>3, <2>1, <2>2, MarksKept DEF HkInv
<1>6. Tables'
  BY <1>1, <1>3, <1>5 DEF HkInv, Tables
<1>7. BasesOK' /\ OneBasis'
  BY <1>1, <1>2, RowsOnBasis DEF HkInv
<1>8. \A u \in todo' : Reaches(prices', u, start'[u])
  <2> SUFFICES ASSUME NEW u \in todo' PROVE Reaches(prices', u, start[u])
    BY <1>1
  <2>1. u \in Ticker /\ u # t /\ Reaches(prices, u, start[u])
    BY <1>1 DEF HkInv
  <2>2. Stored(prices', u) = Stored(prices, u)
    BY <1>3, <2>1
  <2> QED BY <2>1, <2>2 DEF Reaches
<1> QED BY <1>1, <1>6, <1>7, <1>8 DEF HkInv

(* Every step of the HK feed.                                              *)
LEMMA HkStep ==
  ASSUME HkInv, Hk!Next
  PROVE  HkInv'
<1>1. CASE Hk!NextDay
  <2>1. /\ today < LastDay /\ today' = today + 1 /\ UNCHANGED <<prices, log, phase, todo, start>>
        /\ \E paid \in SUBSET {t \in Ticker : basis[t] <= Dividends[t]} :
             /\ basis' = [t \in Ticker |-> IF t \in paid THEN basis[t] + 1 ELSE basis[t]]
             /\ rebased' = rebased \ paid
    BY <1>1 DEF Hk!NextDay
  <2>2. BasesOK' /\ OneBasis'
    BY <2>1, DividendsPaid DEF HkInv
  <2>3. today' \in Day
    BY <2>1, DayIs DEF HkInv, Tables
  <2>4. Tables'
    BY <2>1, <2>3 DEF HkInv, Tables, MarksStored, NoHoles
  <2> QED BY <2>1, <2>2, <2>4 DEF HkInv
<1>2. ASSUME NEW tickers \in SUBSET Ticker, Hk!StartRun(tickers) \/ Hk!StartRebase(tickers)
      PROVE  HkInv'
  BY <1>2, HkStart
<1>3. ASSUME NEW t \in Ticker, Hk!Fails(t) PROVE HkInv'
  <2>1. /\ todo' \subseteq todo /\ UNCHANGED <<today, basis, phase, start, prices, rebased>>
        /\ log' = SyncError(log, t, today) /\ today \in 0..LastDay
    BY <1>3, HkTables, DayIs DEF Hk!Fails, Hk!Take, HkInv, Tables
  <2>2. /\ log' \in [Ticker -> SyncRow]
        /\ \A u \in Ticker \ {t} : log'[u] = log[u]
        /\ log'[t].status = "error"
    BY <2>1, SyncErrorRow DEF HkInv, Tables
  <2>3. MarksStored'
    <3>1. \A u \in Ticker : Marked(u)
      BY <2>2 DEF Marked
    <3> QED BY <2>1, <2>2, <3>1, MarksKept DEF HkInv
  <2>4. Tables'
    BY <2>1, <2>2, <2>3 DEF HkInv, Tables, NoHoles
  <2> QED BY <2>1, <2>4 DEF HkInv, BasesOK, OneBasis
<1>4. ASSUME NEW t \in Ticker, NEW l \in Day, Hk!Save(t, l) \/ Hk!MarkFails(t, l)
      PROVE  HkInv'
  BY <1>4, HkWrite
<1>5. CASE Hk!Abort \/ Hk!EndRun
  <2>1. /\ todo' = {} /\ phase' = "idle" /\ start' = [t \in Ticker |-> 1]
        /\ UNCHANGED <<today, basis, prices, log, rebased>>
    BY <1>5 DEF Hk!Abort, Hk!EndRun
  <2>2. start' \in [Ticker -> Day]
    BY <2>1, DayIs
  <2> QED BY <2>1, <2>2 DEF HkInv, Tables, MarksStored, NoHoles, BasesOK, OneBasis
<1>6. Hk!Day = Day
  BY HkTables
<1> QED BY <1>1, <1>2, <1>3, <1>4, <1>5, <1>6 DEF Hk!Next

-----------------------------------------------------------------------------
(***************************************************************************)
(* Index and ETF prices.                                                   *)
(***************************************************************************)
LEMMA IndexTables ==
  ASSUME NEW etf
  PROVE  /\ Index(etf)!Day = Day /\ Index(etf)!Prices = Prices
         /\ Index(etf)!NoPrices = NoPrices
         /\ \A p, t : Index(etf)!Stored(p, t) = Stored(p, t)
         /\ \A p, t, S, b : Index(etf)!InsertIgnore(p, t, S, b) = InsertIgnore(p, t, S, b)
  BY DEF Index!Day, Index!Prices, Index!NoPrices, Index!Stored, Index!InsertIgnore,
         Index!NoRow, Day, Prices, NoPrices, Stored, InsertIgnore, NoRow

IndexInv ==
  /\ Tables
  /\ phase \in {"idle", "run", "rebase"} /\ todo \subseteq Ticker

(* The download of a symbol begins after its last day, or with the first.  *)
LEMMA IndexWrite ==
  ASSUME IndexInv, NEW etf \in BOOLEAN, NEW t \in Ticker, NEW l \in Nat,
         Index(etf)!Save(t, l), UNCHANGED log
  PROVE  IndexInv'
<1> DEFINE A == Stored(prices, t)
           W == IF phase = "rebase" THEN Day ELSE {d \in Day : \A e \in A : e < d}
           S == W \cap 1..l
<1>1. /\ todo' = todo \ {t} /\ UNCHANGED <<today, phase>>
      /\ prices' = InsertIgnore(prices, t, S, 1)
      /\ \A d \in A : d <= l
  BY IndexTables DEF Index!Save, Index!Take, Index!Wanted
<1>2. A \in SUBSET Day /\ Whole(A) /\ Day \subseteq Nat
  BY ContiguousIsWhole, DayIs DEF IndexInv, Tables, NoHoles, Stored
<1>3. Whole(A \cup (S \cap Day))
  <2> SUFFICES ASSUME NEW c \in A \cup (S \cap Day), NEW e \in A \cup (S \cap Day),
                      NEW d \in Day, c <= d, d <= e
               PROVE  d \in A \cup (S \cap Day)
    BY DEF Whole
  <2>1. c \in Nat /\ d \in Nat /\ e \in Nat /\ e <= l /\ d \in 1..l
    BY <1>1, <1>2, DayIs
  <2>2. CASE d \in W
    BY <2>1, <2>2
  <2>3. CASE d \notin W
    <3>1. PICK a \in A : ~ (a < d)
      BY <2>3
    <3>2. a \in Nat /\ d <= a
      BY <1>2, <2>1, <3>1
    <3>3. c \in A
      BY <1>2, <2>1, <2>3, <3>2
    <3> QED BY <1>2, <2>1, <3>2, <3>3 DEF Whole
  <2> QED BY <2>2, <2>3
<1> HIDE DEF S, A
<1>4. /\ prices' \in Prices /\ NoHoles'
      /\ \A u \in Ticker : Stored(prices, u) \subseteq Stored(prices', u)
  BY <1>1, <1>3, RowsAdded DEF IndexInv, A
<1>5. log' \in [Ticker -> SyncRow] /\ MarksStored'
  <2>1. log' = [u \in Ticker |-> log'[u]] /\ \A u \in Ticker : Marked(u)
    BY DEF IndexInv, Tables, Marked
  <2> QED BY <1>4, <2>1, MarksKept DEF IndexInv
<1> QED BY <1>1, <1>4, <1>5 DEF IndexInv, Tables

LEMMA IndexStep ==
  ASSUME IndexInv, NEW etf \in BOOLEAN, Index(etf)!Next, UNCHANGED log
  PROVE  IndexInv'
<1>1. ASSUME NEW t \in todo, NEW l \in 1..today, Index(etf)!Save(t, l) PROVE IndexInv'
  <2>1. t \in Ticker /\ l \in Nat
    BY <1>1, DayIs DEF IndexInv, Tables
  <2> QED BY <1>1, <2>1, IndexWrite
<1>2. ASSUME /\ today' \in Day /\ UNCHANGED prices
             /\ phase' \in {"idle", "run", "rebase"} /\ todo' \subseteq Ticker
      PROVE  IndexInv'
  BY <1>2 DEF IndexInv, Tables, MarksStored, NoHoles
<1>3. CASE Index(etf)!NextDay
  BY <1>2, <1>3, DayIs DEF Index!NextDay, IndexInv, Tables
<1>4. ASSUME NEW kind \in {"run", "rebase"}, Index(etf)!StartRun(kind) PROVE IndexInv'
  BY <1>2, <1>4 DEF Index!StartRun, IndexInv, Tables
<1>5. ASSUME NEW t \in todo, Index(etf)!Skipped(t) PROVE IndexInv'
  BY <1>2, <1>5 DEF Index!Skipped, Index!Take, IndexInv, Tables
<1>6. CASE Index(etf)!Abort \/ Index(etf)!EndRun
  BY <1>2, <1>6 DEF Index!Abort, Index!EndRun, IndexInv, Tables
<1> QED BY <1>1, <1>3, <1>4, <1>5, <1>6 DEF Index!Next

-----------------------------------------------------------------------------
(***************************************************************************)
(* Intraday prices.                                                        *)
(***************************************************************************)
LEMMA IntradayTables ==
  /\ Intraday!Day = Day /\ Intraday!Prices = Prices /\ Intraday!SyncRow = SyncRow
  /\ Intraday!NoPrices = NoPrices /\ Intraday!NoLog = NoLog
  /\ \A p, t : Intraday!Stored(p, t) = Stored(p, t)
  /\ \A p, t, S, b : Intraday!InsertIgnore(p, t, S, b) = InsertIgnore(p, t, S, b)
  /\ \A lg, t, d : Intraday!SyncOk(lg, t, d) = SyncOk(lg, t, d)
  /\ \A lg, t, d : Intraday!SyncError(lg, t, d) = SyncError(lg, t, d)
  /\ \A d, p, lg, t : Intraday!IsLast(d, p, lg, t, FALSE) <=> IsLast(d, p, lg, t, FALSE)
  BY DEF Intraday!Day, Intraday!Prices, Intraday!SyncRow, Intraday!NoPrices,
         Intraday!NoLog, Intraday!Stored, Intraday!InsertIgnore, Intraday!SyncOk,
         Intraday!SyncError, Intraday!IsLast, Intraday!NoRow, Day, Prices, SyncRow,
         NoPrices, NoLog, Stored, InsertIgnore, SyncOk, SyncError, IsLast, NoRow

LEMMA IntradayCard == \A S : Intraday!Cardinality(S) = Cardinality(S)
  BY Zenon DEF Intraday!Cardinality, Cardinality

LEMMA LaterOf ==
  ASSUME NEW a \in Int, NEW b \in Int
  PROVE  /\ Intraday!Max({a, b}) \in {a, b}
         /\ a <= Intraday!Max({a, b}) /\ b <= Intraday!Max({a, b})
<1>1. \E x \in {a, b} : \A y \in {a, b} : x >= y
  OBVIOUS
<1> QED BY <1>1 DEF Intraday!Max

LEMMA SmallerOf ==
  ASSUME NEW a \in Int, NEW b \in Int
  PROVE  Intraday!Min({a, b}) \in {a, b} /\ Intraday!Min({a, b}) <= a /\ Intraday!Min({a, b}) <= b
<1>1. \E x \in {a, b} : \A y \in {a, b} : x <= y
  OBVIOUS
<1> QED BY <1>1 DEF Intraday!Min

(* A set of naturals has a least element, Min.                             *)
LEMMA LeastNat ==
  ASSUME NEW T \in SUBSET Nat, T # {}
  PROVE  Intraday!Min(T) \in T /\ \A y \in T : Intraday!Min(T) <= y
<1> DEFINE R == {ss \in Nat \X Nat : ss[1] < ss[2]}
<1>1. IsWellFoundedOn(R, Nat)
  BY NatLessThanWellFounded DEF OpToRel
<1> HIDE DEF R
<1>2. \E x \in T : \A y \in T : ~ (<<y, x>> \in R)
  BY <1>1, WFMin
<1>3. \A x, y \in Nat : ~ (<<y, x>> \in R) => x <= y
  BY DEF R
<1>4. \E x \in T : \A y \in T : x <= y
  BY <1>2, <1>3
<1> QED BY <1>4 DEF Intraday!Min

(* No ticker has fallen out of the source's window.                        *)
InWindow == \A t \in Ticker : Reaches(prices, t, Intraday!Floor)

(* A batch is a part of the tickers, of bounded size.                      *)
BatchOK == batch \subseteq Ticker /\ Cardinality(batch) <= BatchSize

IntradayInv ==
  /\ Tables /\ InWindow /\ BatchOK
  /\ phase \in {"idle", "run"} /\ todo \subseteq Ticker /\ start \in [Ticker -> Day]
  /\ \A t \in todo \cup batch : Reaches(prices, t, start[t]) /\ Intraday!Floor <= start[t]
  /\ todo \cap batch = {} /\ (phase = "idle" => todo = {} /\ batch = {})

LEMMA FloorIs ==
  ASSUME today \in Day
  PROVE  /\ Intraday!Floor \in Day /\ Intraday!Floor \in Int
         /\ Intraday!Floor \in {1, (today - Window) + 1}
<1>1. today \in Nat /\ today >= 1 /\ today <= LastDay /\ Window \in Nat /\ Window >= 1
  BY DayIs, SettingsAssumption
<1>2. /\ Intraday!Floor \in {1, (today - Window) + 1}
      /\ 1 <= Intraday!Floor
  BY <1>1, LaterOf DEF Intraday!Floor
<1>3. Intraday!Floor \in Int /\ Intraday!Floor <= today
  BY <1>1, <1>2
<1> QED BY <1>1, <1>2, <1>3, DayIs

(* Smaller batches are bounded, too.                                       *)
LEMMA BatchTurns ==
  ASSUME BatchOK, batch' \subseteq batch
  PROVE  BatchOK'
<1>1. IsFiniteSet(batch) /\ IsFiniteSet(batch')
  BY TickerAssumption, FS_Subset DEF BatchOK
<1>2. Cardinality(batch') <= Cardinality(batch) /\ Cardinality(batch) \in Nat
      /\ Cardinality(batch') \in Nat
  BY <1>1, FS_Subset, FS_CardinalityType
<1> QED BY <1>2, SettingsAssumption DEF BatchOK

LEMMA IntradayStart ==
  ASSUME IntradayInv, NEW tickers \in SUBSET Ticker, NEW rebase \in BOOLEAN,
         Intraday!StartRun(tickers, rebase)
  PROVE  IntradayInv'
<1>1. PICK last \in [Ticker -> 0..LastDay] :
        /\ \A t \in Ticker : IsLast(last[t], prices, log, t, FALSE)
        /\ todo' = {t \in tickers : rebase \/ last[t] < today}
        /\ start' = [t \in Ticker |->
             IF t \notin todo' THEN 1
             ELSE IF rebase THEN Intraday!Floor ELSE Intraday!Max({last[t] + 1, Intraday!Floor})]
  BY IntradayTables DEF Intraday!StartRun
<1>2. phase' = "run" /\ UNCHANGED <<today, prices, log, batch>>
  BY DEF Intraday!StartRun
<1>3. Intraday!Floor \in Day /\ Intraday!Floor \in Int /\ today \in Nat /\ today <= LastDay
  BY FloorIs, DayIs DEF IntradayInv, Tables
<1>4. ASSUME NEW t \in Ticker
      PROVE  /\ start'[t] \in Day
             /\ t \in todo' => Reaches(prices, t, start'[t]) /\ Intraday!Floor <= start'[t]
  <2>1. last[t] \in 0..LastDay /\ last[t] + 1 \in Int /\ Reaches(prices, t, Intraday!Floor)
    BY DEF IntradayInv, InWindow
  <2>2. CASE t \notin todo'
    BY <1>1, <2>2, DayIs
  <2>3. CASE t \in todo' /\ start'[t] = Intraday!Floor
    BY <1>3, <2>1, <2>3
  <2>4. CASE t \in todo' /\ ~ rebase
    <3> DEFINE m == Intraday!Max({last[t] + 1, Intraday!Floor})
    <3>1. start'[t] = m
      BY <1>1, <2>4
    <3>2. m \in {last[t] + 1, Intraday!Floor} /\ last[t] + 1 <= m /\ Intraday!Floor <= m
      BY <1>3, <2>1, LaterOf
    <3> HIDE DEF m
    <3>3. last[t] < today
      BY <1>1, <2>4
    <3>4. m \in Day
      BY <1>3, <2>1, <3>2, <3>3, DayIs
    <3>5. CASE m = Intraday!Floor
      BY <2>1, <3>1, <3>2, <3>4, <3>5
    <3>6. CASE m = last[t] + 1 /\ m # Intraday!Floor
      <4>1. last[t] = 0 \/ last[t] \in Stored(prices, t)
        BY <1>1, <2>1, LastIsStored DEF IntradayInv
      <4>2. CASE last[t] \in Stored(prices, t)
        BY <3>1, <3>2, <3>4, <3>6, <4>2 DEF Reaches
      <4>3. CASE last[t] = 0
        <5>1. m = 1 /\ \A d \in Stored(prices, t) : 1 <= d + 1
          BY <3>6, <4>3, DayIs DEF Stored
        <5> QED BY <3>1, <3>2, <3>4, <5>1 DEF Reaches
      <4> QED BY <4>1, <4>2, <4>3
    <3> QED BY <3>2, <3>5, <3>6
  <2> QED BY <1>1, <2>2, <2>3, <2>4
<1>5. start' \in [Ticker -> Day]
  BY <1>1, <1>4
<1>6. Tables' /\ InWindow' /\ BatchOK'
  BY <1>2 DEF IntradayInv, Tables, MarksStored, NoHoles, InWindow, BatchOK, Intraday!Floor
<1>7. todo' \subseteq Ticker /\ batch' = {}
  BY <1>1, <1>2 DEF IntradayInv, Intraday!StartRun
<1>8. Intraday!Floor' = Intraday!Floor
  BY <1>2 DEF Intraday!Floor
<1>9. \A t \in todo' : Reaches(prices', t, start'[t]) /\ Intraday!Floor' <= start'[t]
  BY <1>2, <1>4, <1>7, <1>8
<1> QED BY <1>2, <1>5, <1>6, <1>7, <1>9 DEF IntradayInv

(* The rows of a ticker of the batch are written; l is 0 if there are none.*)
LEMMA IntradayRows ==
  ASSUME IntradayInv, NEW t \in batch, NEW l \in Intraday!Bars(t) \cup {0},
         prices' = InsertIgnore(prices, t, start[t]..l, 1), UNCHANGED today
  PROVE  /\ prices' \in Prices /\ NoHoles' /\ InWindow'
         /\ \A u \in Ticker : Stored(prices, u) \subseteq Stored(prices', u)
         /\ \A u \in Ticker \ {t} : Stored(prices', u) = Stored(prices, u)
         /\ l # 0 => l \in Stored(prices', t)
<1>1. /\ t \in Ticker /\ start[t] \in Day /\ start[t] \in Int /\ start[t] >= 1
      /\ Reaches(prices, t, start[t]) /\ today \in Nat /\ today <= LastDay
      /\ Intraday!Floor \in Int /\ Intraday!Floor <= start[t]
  BY DayIs, FloorIs DEF IntradayInv, BatchOK, Tables
<1>2. Intraday!Floor' = Intraday!Floor
  BY DEF Intraday!Floor
<1>3. CASE l \in Intraday!Bars(t)
  <2>1. /\ l \in start[t]..today /\ \A d \in Stored(prices, t) : d <= l
    BY <1>3, IntradayTables DEF Intraday!Bars
  <2>2. l \in Int /\ l \in Day /\ start[t] <= l
    BY <1>1, <2>1, DayIs
  <2>3. /\ prices' \in Prices /\ NoHoles'
        /\ \A u \in Ticker : Stored(prices, u) \subseteq Stored(prices', u)
        /\ \A u \in Ticker \ {t} : Stored(prices', u) = Stored(prices, u)
        /\ Stored(prices', t) = Stored(prices, t) \cup ((start[t]..l) \cap Day)
    BY <1>1, <2>1, <2>2, RowsWritten DEF IntradayInv
  <2>4. l \in Stored(prices', t) /\ Intraday!Floor <= l + 1
    BY <1>1, <2>2, <2>3
  <2>5. \A u \in Ticker : Reaches(prices', u, Intraday!Floor)
    BY <2>3, <2>4 DEF IntradayInv, InWindow, Reaches
  <2> QED BY <1>2, <2>3, <2>4, <2>5 DEF InWindow
<1>4. CASE l = 0
  <2>1. start[t]..l = {}
    BY <1>1, <1>4
  <2>2. prices' = InsertIgnore(prices, t, {}, 1)
    BY <2>1
  <2>3. prices' = prices
    BY <2>2 DEF InsertIgnore, IntradayInv, Tables, Prices
  <2> QED BY <1>2, <1>4, <2>3 DEF IntradayInv, Tables, NoHoles, InWindow
<1> QED BY <1>3, <1>4

(* The states that a step of the feed may lead to.                         *)
LEMMA IntradayKept ==
  ASSUME IntradayInv, UNCHANGED today,
         prices' \in Prices, NoHoles', InWindow',
         \A u \in Ticker : Stored(prices, u) \subseteq Stored(prices', u),
         log' = [u \in Ticker |-> log'[u]], \A u \in Ticker : Marked(u),
         phase' \in {"idle", "run"}, todo' \subseteq todo, start' \in [Ticker -> Day],
         BatchOK', todo' \cap batch' = {}, phase' = "idle" => todo' = {} /\ batch' = {},
         \A t \in todo' \cup batch' : /\ Reaches(prices', t, start'[t])
                                     /\ Intraday!Floor <= start'[t]
  PROVE  IntradayInv'
<1>1. log' \in [Ticker -> SyncRow] /\ MarksStored'
  BY MarksKept DEF IntradayInv
<1>2. Intraday!Floor' = Intraday!Floor
  BY DEF Intraday!Floor
<1>3. Tables'
  BY <1>1 DEF IntradayInv, Tables
<1>4. todo' \subseteq Ticker
  BY DEF IntradayInv
<1> QED BY <1>2, <1>3, <1>4 DEF IntradayInv

LEMMA NoMarks ==
  ASSUME Tables, UNCHANGED log
  PROVE  log' = [u \in Ticker |-> log'[u]] /\ \A u \in Ticker : Marked(u)
  BY DEF Tables, Marked

LEMMA IntradayTurn ==
  ASSUME IntradayInv, NEW t \in batch, NEW l \in Intraday!Bars(t) \cup {0},
         Intraday!Turn(t, l),
         \/ l # 0 /\ log' = SyncOk(log, t, l)
         \/ log' = SyncError(log, t, today)
         \/ UNCHANGED log
  PROVE  IntradayInv'
<1>1. /\ phase = "run" /\ batch' = batch \ {t} /\ UNCHANGED <<today, phase, todo, start>>
      /\ prices' = InsertIgnore(prices, t, start[t]..l, 1)
  BY IntradayTables DEF Intraday!Turn
<1>2. /\ prices' \in Prices /\ NoHoles' /\ InWindow'
      /\ \A u \in Ticker : Stored(prices, u) \subseteq Stored(prices', u)
      /\ \A u \in Ticker \ {t} : Stored(prices', u) = Stored(prices, u)
      /\ l # 0 => l \in Stored(prices', t)
  BY <1>1, IntradayRows
<1>3. BatchOK'
  BY <1>1, BatchTurns DEF IntradayInv
<1>4. t \in Ticker /\ today \in 0..LastDay
  BY DayIs DEF IntradayInv, BatchOK, Tables
<1>5. log' = [u \in Ticker |-> log'[u]] /\ \A u \in Ticker : Marked(u)
  <2>1. CASE l # 0 /\ log' = SyncOk(log, t, l)
    <3>1. l \in 0..LastDay
      BY <1>2, <2>1, DayIs DEF Stored
    <3>2. /\ log' \in [Ticker -> SyncRow] /\ \A u \in Ticker \ {t} : log'[u] = log[u]
          /\ log'[t] = [status |-> "ok", last |-> l]
      BY <1>4, <2>1, <3>1, SyncOkRow DEF IntradayInv, Tables
    <3> QED BY <1>2, <2>1, <3>2 DEF Marked
  <2>2. CASE log' = SyncError(log, t, today)
    <3>1. /\ log' \in [Ticker -> SyncRow] /\ \A u \in Ticker \ {t} : log'[u] = log[u]
          /\ log'[t].status = "error"
      BY <1>4, <2>2, SyncErrorRow DEF IntradayInv, Tables
    <3> QED BY <3>1 DEF Marked
  <2> QED BY <2>1, <2>2, NoMarks DEF IntradayInv
<1>6. \A u \in todo' \cup batch' : Reaches(prices', u, start'[u]) /\ Intraday!Floor <= start'[u]
  <2> SUFFICES ASSUME NEW u \in todo' \cup batch'
               PROVE  Reaches(prices', u, start[u]) /\ Intraday!Floor <= start[u]
    BY <1>1
  <2>1. u \in Ticker /\ start[u] \in Int /\ Reaches(prices, u, start[u]) /\ Intraday!Floor <= start[u]
    BY <1>1, DayIs DEF IntradayInv, BatchOK
  <2>2. u # t
    BY <1>1 DEF IntradayInv
  <2> QED BY <1>2, <2>1, <2>2 DEF Reaches
<1> QED BY <1>1, <1>2, <1>3, <1>5, <1>6, IntradayKept DEF IntradayInv

(* A batch starts with the earliest of its starts.                         *)
LEMMA IntradayDownload ==
  ASSUME IntradayInv, NEW B \in Intraday!Batch,
         Intraday!Downloaded(B) \/ Intraday!DownloadFails(B)
  PROVE  IntradayInv'
<1>1. /\ phase = "run" /\ batch = {} /\ B \subseteq todo /\ B # {}
      /\ Cardinality(B) = Intraday!Min({BatchSize, Cardinality(todo)})
      /\ todo' = todo \ B /\ UNCHANGED <<today, prices, phase>>
  <2>1. Intraday!Take(B)
    BY Zenon DEF Intraday!Downloaded, Intraday!DownloadFails
  <2>2. /\ phase = "run" /\ batch = {} /\ todo' = todo \ B /\ UNCHANGED <<today, prices, phase>>
    BY <2>1, Zenon DEF Intraday!Take
  <2>3. /\ B \in SUBSET todo /\ B # {}
        /\ Cardinality(B) = Intraday!Min({BatchSize, Cardinality(todo)})
    <3> DEFINE P(C) == /\ Cardinality(C) = Intraday!Min({BatchSize, Cardinality(todo)}) /\ C # {}
                       /\ \A t \in C, u \in todo \ C : start[t] <= start[u]
    <3>1. Intraday!Batch = {C \in SUBSET todo : P(C)}
      BY IntradayCard, Zenon DEF Intraday!Batch
    <3>2. B \in SUBSET todo /\ P(B)
      <4> HIDE DEF P
      <4> QED BY <3>1
    <3> QED BY <3>2
  <2> QED BY <2>2, <2>3
<1>2. /\ \A u \in Ticker : Stored(prices, u) \subseteq Stored(prices', u)
      /\ prices' \in Prices /\ NoHoles' /\ InWindow'
  BY <1>1 DEF IntradayInv, Tables, NoHoles, InWindow, Intraday!Floor
<1>3. /\ \A u \in todo : u \in Ticker /\ start[u] \in Day /\ start[u] \in Nat
      /\ Intraday!Floor \in Int
  BY FloorIs, DayIs DEF IntradayInv, Tables
<1>4. CASE Intraday!Downloaded(B)
  <2> DEFINE first == Intraday!Min({start[u] : u \in B})
  <2>1. /\ batch' = B /\ UNCHANGED log
        /\ start' = [t \in Ticker |-> IF t \in B THEN first ELSE start[t]]
    BY <1>4 DEF Intraday!Downloaded
  <2>2. first \in {start[u] : u \in B} /\ \A y \in {start[u] : u \in B} : first <= y
    <3>1. {start[u] : u \in B} \in SUBSET Nat /\ {start[u] : u \in B} # {}
      BY <1>1, <1>3
    <3> QED BY <3>1, LeastNat
  <2> HIDE DEF first
  <2>3. first \in Day /\ first \in Int /\ \A u \in B : first <= start[u]
    BY <1>1, <1>3, <2>2
  <2>4. start' \in [Ticker -> Day]
    BY <2>1, <2>3 DEF IntradayInv
  <2>5. BatchOK'
    <3>1. IsFiniteSet(todo) /\ Cardinality(todo) \in Nat
      BY TickerAssumption, FS_Subset, FS_CardinalityType DEF IntradayInv
    <3>2. BatchSize \in Nat
      BY SettingsAssumption
    <3> DEFINE n == Cardinality(todo)
    <3>3. Cardinality(B) = Intraday!Min({BatchSize, n}) /\ n \in Int /\ BatchSize \in Int
      BY <1>1, <3>1, <3>2
    <3> HIDE DEF n
    <3>4. Intraday!Min({BatchSize, n}) <= BatchSize
      BY <3>3, SmallerOf
    <3>5. Cardinality(B) <= BatchSize
      BY <3>3, <3>4
    <3> QED BY <1>1, <1>3, <2>1, <3>5 DEF BatchOK
  <2>6. ASSUME NEW u \in todo' \cup batch'
        PROVE  Reaches(prices', u, start'[u]) /\ Intraday!Floor <= start'[u]
    <3>1. u \in Ticker /\ Reaches(prices, u, start[u]) /\ Intraday!Floor <= start[u]
          /\ start[u] \in Nat
      BY <1>1, <1>3, <2>1, <2>6 DEF IntradayInv
    <3>2. CASE u \in B
      <4>1. start'[u] = first /\ first <= start[u]
        BY <2>1, <2>3, <3>1, <3>2
      <4>2. Intraday!Floor <= first
        <5>1. PICK v \in B : first = start[v]
          BY <2>2
        <5> QED BY <1>1, <5>1 DEF IntradayInv
      <4>3. \A d \in Stored(prices, u) : d \in Nat
        BY DayIs DEF Stored
      <4>4. Reaches(prices, u, first)
        BY <2>3, <3>1, <4>1, <4>3 DEF Reaches
      <4> QED BY <1>1, <4>1, <4>2, <4>4
    <3>3. CASE u \notin B
      BY <1>1, <2>1, <3>1, <3>3
    <3> QED BY <3>2, <3>3
  <2>7. phase' = "run" /\ todo' \cap batch' = {} /\ todo' \subseteq todo
    BY <1>1, <2>1
  <2> QED BY <1>1, <1>2, <2>1, <2>4, <2>5, <2>6, <2>7, NoMarks, IntradayKept DEF IntradayInv
<1>5. CASE Intraday!DownloadFails(B)
  <2>1. /\ UNCHANGED <<start, batch>>
        /\ log' = [t \in Ticker |-> IF t \in B THEN SyncError(log, t, today)[t] ELSE log[t]]
    BY <1>5, IntradayTables DEF Intraday!DownloadFails
  <2>2. today \in 0..LastDay
    BY DayIs DEF IntradayInv, Tables
  <2>3. ASSUME NEW u \in Ticker PROVE Marked(u)
    <3>1. SyncError(log, u, today)[u].status = "error" /\ SyncError(log, u, today)[u] \in SyncRow
      BY <2>2, SyncErrorRow DEF IntradayInv, Tables
    <3> QED BY <2>1, <3>1 DEF Marked
  <2>4. log' = [u \in Ticker |-> log'[u]]
    BY <2>1
  <2>5. BatchOK'
    BY <2>1 DEF IntradayInv, BatchOK
  <2>6. \A u \in todo' \cup batch' : Reaches(prices', u, start'[u]) /\ Intraday!Floor <= start'[u]
    BY <1>1, <2>1 DEF IntradayInv
  <2>7. phase' = "run" /\ todo' \cap batch' = {} /\ todo' \subseteq todo
    BY <1>1, <2>1
  <2> QED BY <1>1, <1>2, <2>1, <2>3, <2>4, <2>5, <2>6, <2>7, IntradayKept DEF IntradayInv
<1> QED BY <1>4, <1>5

(* Every step of the intraday feed.                                        *)
LEMMA IntradayStep ==
  ASSUME IntradayInv, Intraday!Next
  PROVE  IntradayInv'
<1>1. CASE Intraday!NextDay
  <2>1. /\ phase = "idle" /\ today < LastDay /\ today' = today + 1
        /\ UNCHANGED <<prices, log, phase, todo, start, batch>>
    BY <1>1, Zenon DEF Intraday!NextDay
  <2>8. ASSUME NEW t \in Ticker, Stored(prices, t) # {}
        PROVE  \E d \in Stored(prices, t) : (today + 1) - d <= Window
    <3>1. Intraday!Stored(prices, t) = Stored(prices, t)
      BY IntradayTables
    <3>2. \E d \in Intraday!Stored(prices, t) : today + (1 - d) <= Window
      BY <1>1, <2>8, <3>1, Zenon DEF Intraday!NextDay
    <3>3. \A d \in Stored(prices, t) : (today + 1) - d = today + (1 - d)
      BY DayIs DEF Stored, IntradayInv, Tables
    <3> QED BY <3>1, <3>2, <3>3
  <2>2. today \in Nat /\ today' \in Day /\ Window \in Nat
    BY <2>1, DayIs, SettingsAssumption DEF IntradayInv, Tables
  <2>3. Intraday!Floor' \in {1, (today' - Window) + 1}
    <3> DEFINE f == (today' - Window) + 1
    <3>1. Intraday!Floor' = Intraday!Max({1, f}) /\ f \in Int /\ 1 \in Int
      BY <2>2, DayIs DEF Intraday!Floor
    <3> HIDE DEF f
    <3>2. Intraday!Max({1, f}) \in {1, f}
      BY <3>1, LaterOf
    <3> QED BY <3>1, <3>2 DEF f
  <2>4. Tables'
    BY <2>1, <2>2 DEF IntradayInv, Tables, MarksStored, NoHoles
  <2>5. InWindow'
    <3> SUFFICES ASSUME NEW t \in Ticker, Stored(prices, t) # {}
                 PROVE  \E d \in Stored(prices, t) : Intraday!Floor' <= d + 1
      BY <2>1 DEF InWindow, Reaches
    <3>1. PICK d \in Stored(prices, t) : (today + 1) - d <= Window
      BY <2>8
    <3>2. d \in Nat
      BY DayIs DEF Stored
    <3> QED BY <2>1, <2>2, <2>3, <3>1, <3>2
  <2>6. batch' = {} /\ BatchOK'
    BY <2>1 DEF IntradayInv, BatchOK
  <2>7. todo = {}
    BY <2>1 DEF IntradayInv
  <2> QED BY <2>1, <2>2, <2>4, <2>5, <2>6, <2>7 DEF IntradayInv
<1>2. ASSUME NEW tickers \in SUBSET Ticker, NEW rebase \in BOOLEAN,
             Intraday!StartRun(tickers, rebase)
      PROVE  IntradayInv'
  BY <1>2, IntradayStart
<1>3. ASSUME NEW B \in Intraday!Batch, Intraday!Downloaded(B) \/ Intraday!DownloadFails(B)
      PROVE  IntradayInv'
  BY <1>3, IntradayDownload
<1>4. ASSUME NEW t \in batch, NEW l \in 0..today, Intraday!Save(t, l) \/ Intraday!Fails(t, l)
      PROVE  IntradayInv'
  <2>1. /\ l \in Intraday!Bars(t) \cup {0} /\ Intraday!Turn(t, l)
        /\ \/ l # 0 /\ log' = SyncOk(log, t, l)
           \/ log' = SyncError(log, t, today)
           \/ UNCHANGED log
    <3>1. CASE Intraday!Save(t, l)
      <4>1. l # 0
        BY <3>1, DayIs DEF Intraday!Save, Intraday!Bars, IntradayInv, BatchOK
      <4> QED BY <3>1, <4>1, IntradayTables DEF Intraday!Save
    <3>2. CASE Intraday!Fails(t, l)
      BY <3>2, IntradayTables DEF Intraday!Fails
    <3> QED BY <1>4, <3>1, <3>2
  <2> QED BY <2>1, IntradayTurn
<1>5. CASE Intraday!Abort
  <2>1. /\ phase' = "idle" /\ todo' = {} /\ batch' = {} /\ start' = [t \in Ticker |-> 1]
        /\ UNCHANGED <<today, log>>
        /\ \/ UNCHANGED prices
           \/ \E t \in batch : \E l \in Intraday!Bars(t) :
                prices' = InsertIgnore(prices, t, start[t]..l, 1)
    BY <1>5, IntradayTables DEF Intraday!Abort
  <2>2. /\ prices' \in Prices /\ NoHoles' /\ InWindow'
        /\ \A u \in Ticker : Stored(prices, u) \subseteq Stored(prices', u)
    <3>1. CASE UNCHANGED prices
      BY <2>1, <3>1 DEF IntradayInv, Tables, NoHoles, InWindow, Intraday!Floor
    <3>2. ASSUME NEW t \in batch, NEW l \in Intraday!Bars(t),
                 prices' = InsertIgnore(prices, t, start[t]..l, 1)
          PROVE  /\ prices' \in Prices /\ NoHoles' /\ InWindow'
                 /\ \A u \in Ticker : Stored(prices, u) \subseteq Stored(prices', u)
      BY <2>1, <3>2, IntradayRows
    <3> QED BY <2>1, <3>1, <3>2
  <2>3. start' \in [Ticker -> Day] /\ BatchOK'
    BY <2>1, DayIs, BatchTurns DEF IntradayInv
  <2> QED BY <2>1, <2>2, <2>3, NoMarks, IntradayKept DEF IntradayInv
<1>6. CASE Intraday!EndRun
  <2>1. /\ phase' = "idle" /\ todo' = {} /\ batch' = {} /\ start' = [t \in Ticker |-> 1]
        /\ UNCHANGED <<today, prices, log>>
    BY <1>6 DEF Intraday!EndRun
  <2>2. start' \in [Ticker -> Day] /\ BatchOK'
    BY <2>1, DayIs, BatchTurns DEF IntradayInv
  <2>3. /\ prices' \in Prices /\ NoHoles' /\ InWindow'
        /\ \A u \in Ticker : Stored(prices, u) \subseteq Stored(prices', u)
    BY <2>1 DEF IntradayInv, Tables, NoHoles, InWindow, Intraday!Floor
  <2> QED BY <2>1, <2>2, <2>3, NoMarks, IntradayKept DEF IntradayInv
<1> QED BY <1>1, <1>2, <1>3, <1>4, <1>5, <1>6 DEF Intraday!Next

-----------------------------------------------------------------------------
(***************************************************************************)
(* CN prices.                                                              *)
(***************************************************************************)
LEMMA CnTables ==
  /\ Cn!Day = Day /\ Cn!Prices = Prices /\ Cn!SyncRow = SyncRow
  /\ Cn!NoPrices = NoPrices /\ Cn!NoLog = NoLog
  /\ Cn!Group = {"new", "pending"}
  /\ Cn!Entry = [ticker : Ticker, start : Day, last : Day, status : {"ok", "error"}]
  /\ \A p, t : Cn!Stored(p, t) = Stored(p, t)
  /\ \A p, t, S, b : Cn!Upsert(p, t, S, b) = Upsert(p, t, S, b)
  /\ \A lg, t, d : Cn!SyncOk(lg, t, d) = SyncOk(lg, t, d)
  /\ \A lg, t, d : Cn!SyncError(lg, t, d) = SyncError(lg, t, d)
  /\ \A d, p, lg, t : Cn!IsLast(d, p, lg, t, TRUE) <=> IsLast(d, p, lg, t, TRUE)
  BY DEF Cn!Day, Cn!Prices, Cn!SyncRow, Cn!NoPrices, Cn!NoLog, Cn!Stored, Cn!Upsert,
         Cn!SyncOk, Cn!SyncError, Cn!IsLast, Cn!NoRow, Cn!Group, Cn!Entry, Day, Prices,
         SyncRow, NoPrices, NoLog, Stored, Upsert, SyncOk, SyncError, IsLast, NoRow

LEMMA CnCard == \A S : Cn!Cardinality(S) = Cardinality(S)
  BY Zenon DEF Cn!Cardinality, Cardinality

(* An entry of the buffers may be written: its rows begin no later than    *)
(* the day after a stored one, and end with or after the last.             *)
Fits(p, e) ==
  /\ Reaches(p, e.ticker, e.start) /\ e.start <= e.last
  /\ e.status = "ok" => \A d \in Stored(p, e.ticker) : d <= e.last

Buffer(b, p) ==
  /\ b \subseteq Cn!Entry
  /\ \A e \in b : Fits(p, e)
  /\ \A e, f \in b : e.ticker = f.ticker => e = f

Waiting == todo["new"] \cup todo["pending"]

(* A ticker reported ok is marked, or buffered.                            *)
Told ==
  \A t \in reported :
    log[t].status = "ok" \/ \E e \in buf : e.ticker = t /\ e.status = "ok"

CnInv ==
  /\ Tables /\ BasesOK /\ OneBasis
  /\ phase \in {"idle", "new", "pending"} /\ start \in [Ticker -> Day]
  /\ todo \in [{"new", "pending"} -> SUBSET Ticker]
  /\ todo["new"] \cap todo["pending"] = {}
  /\ \A t \in Waiting : Reaches(prices, t, start[t])
  /\ Buffer(buf, prices) /\ IsFiniteSet(buf) /\ Cardinality(buf) < CommitSize
  /\ \A e \in buf : e.ticker \notin Waiting
  /\ reported \subseteq Ticker \ Waiting /\ Told
  /\ \A e \in buf : e.status = "error" => e.ticker \notin reported

LEMMA EntryIs ==
  ASSUME NEW e \in Cn!Entry
  PROVE  /\ e.ticker \in Ticker /\ e.start \in Day /\ e.last \in Day
         /\ e.status \in {"ok", "error"} /\ e.start \in Nat /\ e.last \in Nat
         /\ e.start >= 1 /\ e.last \in 0..LastDay
<1>1. /\ e.ticker \in Ticker /\ e.start \in Day /\ e.last \in Day
      /\ e.status \in {"ok", "error"}
  BY CnTables
<1> QED BY <1>1, DayIs

(* What a flush does to the rows of one ticker.                            *)
LEMMA FlushOne ==
  ASSUME Tables, BasesOK, NEW b, Buffer(b, prices), Cn!Flush(b), NEW u \in Ticker
  PROVE  /\ prices' = [t \in Ticker |-> prices'[t]]
         /\ (\A e \in b : e.ticker = u => e.status # "ok") => prices'[u] = prices[u]
         /\ \A e \in b : e.ticker = u /\ e.status = "ok" =>
              prices'[u] = [d \in Day |-> IF d \in e.start..e.last THEN basis[u] ELSE prices[u][d]]
<1> DEFINE rows == {e \in b : e.ticker = u /\ e.status = "ok"}
           S == UNION {e.start..e.last : e \in rows}
<1>1. prices' = [t \in Ticker |-> prices'[t]] /\ prices'[u] = Upsert(prices, u, S, basis[u])[u]
  <2>1. prices' = [t \in Ticker |->
          Upsert(prices, t,
                 UNION {e.start..e.last : e \in {f \in b : f.ticker = t /\ f.status = "ok"}},
                 basis[t])[t]]
    BY CnTables, Zenon DEF Cn!Flush, Cn!FlushedPrices
  <2> QED BY <2>1
<1>2. prices'[u] = [d \in Day |-> IF d \in S THEN basis[u] ELSE prices[u][d]]
  <2> HIDE DEF S
  <2> QED BY <1>1 DEF Upsert, Tables, Prices
<1>3. ASSUME \A e \in b : e.ticker = u => e.status # "ok"
      PROVE  prices'[u] = prices[u]
  <2>1. rows = {}
    BY <1>3
  <2>2. S = {}
    BY <2>1
  <2> QED BY <1>2, <2>2 DEF Tables, Prices
<1>4. ASSUME NEW e \in b, e.ticker = u, e.status = "ok"
      PROVE  prices'[u] = [d \in Day |-> IF d \in e.start..e.last THEN basis[u] ELSE prices[u][d]]
  <2>1. rows = {e}
    BY <1>4 DEF Buffer
  <2> DEFINE W == e.start..e.last
  <2>2. S = W
    BY <2>1
  <2> HIDE DEF S, W
  <2>3. prices'[u] = [d \in Day |-> IF d \in W THEN basis[u] ELSE prices[u][d]]
    BY <1>2, <2>2
  <2> QED BY <2>3 DEF W
<1> QED BY <1>1, <1>3, <1>4

(* A flush leaves no hole, and no ticker that it downloads from the        *)
(* beginning on two bases.                                                 *)
LEMMA CnWrite ==
  ASSUME Tables, BasesOK, OneBasis, NEW b, Buffer(b, prices), Cn!Flush(b), UNCHANGED basis
  PROVE  /\ prices' \in Prices /\ NoHoles' /\ BasesOK' /\ OneBasis'
         /\ \A u \in Ticker : /\ Stored(prices, u) \subseteq Stored(prices', u)
                              /\ (\A e \in b : e.ticker # u) =>
                                   Stored(prices', u) = Stored(prices, u)
         /\ \A e \in b : e.status = "ok" => e.last \in Stored(prices', e.ticker)
<1>1. ASSUME NEW u \in Ticker, \A e \in b : e.ticker = u => e.status # "ok"
      PROVE  prices'[u] = prices[u] /\ Stored(prices', u) = Stored(prices, u)
    BY <1>1, FlushOne DEF Stored
<1>2. ASSUME NEW e \in b, e.status = "ok"
      PROVE  LET u == e.ticker IN
             /\ \A d \in Day : prices'[u][d] = IF d \in e.start..e.last THEN basis[u] ELSE prices[u][d]
             /\ Stored(prices', u) = Stored(prices, u) \cup ((e.start..e.last) \cap Day)
             /\ prices'[u] \in [Day -> Nat]
  <2> DEFINE u == e.ticker
             W == e.start..e.last
  <2>1. u \in Ticker /\ basis[u] \in Nat \ {0}
    BY EntryIs DEF Buffer, BasesOK
  <2>2. prices'[u] = [d \in Day |-> IF d \in W THEN basis[u] ELSE prices[u][d]]
    BY <1>2, <2>1, FlushOne
  <2>3. prices[u] \in [Day -> Nat]
    BY <2>1 DEF Tables, Prices
  <2> HIDE DEF W, u
  <2>4. \A d \in Day : prices'[u][d] = IF d \in W THEN basis[u] ELSE prices[u][d]
    BY <2>2
  <2>5. Stored(prices', u) = Stored(prices, u) \cup (W \cap Day)
    BY <2>1, <2>4 DEF Stored, NoRow
  <2>6. prices'[u] \in [Day -> Nat]
    BY <2>1, <2>2, <2>3
  <2> QED BY <2>4, <2>5, <2>6 DEF W, u
<1>4. prices' \in Prices
  <2>1. ASSUME NEW u \in Ticker PROVE prices'[u] \in [Day -> Nat]
    <3>1. CASE \A e \in b : e.ticker = u => e.status # "ok"
      BY <1>1, <3>1 DEF Tables, Prices
    <3>2. ASSUME NEW e \in b, e.ticker = u, e.status = "ok" PROVE prices'[u] \in [Day -> Nat]
      BY <1>2, <3>2
    <3> QED BY <3>1, <3>2
  <2>2. prices' = [u \in Ticker |-> prices'[u]] \/ Ticker = {}
    BY FlushOne
  <2>3. CASE Ticker # {}
    BY <2>1, <2>2, <2>3 DEF Prices
  <2>4. CASE Ticker = {}
    BY <2>4, Zenon DEF Cn!Flush, Cn!FlushedPrices, Prices
  <2> QED BY <2>3, <2>4
<1>5. ASSUME NEW u \in Ticker
      PROVE  /\ Whole(Stored(prices', u)) /\ Stored(prices, u) \subseteq Stored(prices', u)
             /\ (\A e \in b : e.ticker # u) => Stored(prices', u) = Stored(prices, u)
  <2>1. Whole(Stored(prices, u)) /\ Stored(prices, u) \in SUBSET Day
    BY ContiguousIsWhole DEF Tables, NoHoles, Stored
  <2>2. CASE \A e \in b : e.ticker = u => e.status # "ok"
    BY <1>1, <2>1, <2>2
  <2>3. ASSUME NEW e \in b, e.ticker = u, e.status = "ok"
        PROVE  /\ Whole(Stored(prices', u)) /\ Stored(prices, u) \subseteq Stored(prices', u)
    <3>1. /\ e.start \in Int /\ e.last \in Int
          /\ Reaches(prices, u, e.start) /\ \A d \in Stored(prices, u) : d <= e.last
      BY <2>3, EntryIs DEF Buffer, Fits
    <3>2. Stored(prices', u) = Stored(prices, u) \cup ((e.start..e.last) \cap Day)
      BY <1>2, <2>3
    <3>3. Whole(Stored(prices, u) \cup ((e.start..e.last) \cap Day))
      BY <2>1, <3>1, GrownIsWhole DEF Reaches
    <3> QED BY <3>2, <3>3
  <2> QED BY <2>2, <2>3
<1>6. NoHoles'
  BY <1>5, ContiguousIsWhole DEF NoHoles
<1>7. ASSUME NEW e \in b, e.status = "ok" PROVE e.last \in Stored(prices', e.ticker)
  <2>1. e.last \in Day /\ e.start \in Nat /\ e.last \in Nat /\ e.start <= e.last
    BY EntryIs DEF Buffer, Fits
  <2> QED BY <1>2, <1>7, <2>1
<1>8. /\ rebased' = rebased \cup {e.ticker : e \in {f \in b : f.status = "ok" /\ f.start = 1}}
  BY Zenon DEF Cn!Flush
<1>9. BasesOK'
  <2>1. \A e \in b : e.ticker \in Ticker
    BY EntryIs DEF Buffer
  <2> QED BY <1>8, <2>1 DEF BasesOK
<1>10. ASSUME NEW u \in rebased', NEW d \in Stored(prices', u) PROVE prices'[u][d] = basis[u]
  <2>1. u \in Ticker /\ d \in Day /\ d \in Nat /\ d >= 1
    BY <1>9, <1>10, DayIs DEF BasesOK, Stored
  <2>2. CASE \A e \in b : e.ticker = u => e.status # "ok"
    <3>1. u \in rebased
      BY <1>8, <2>2
    <3>2. prices'[u] = prices[u] /\ d \in Stored(prices, u)
      BY <1>1, <1>10, <2>1, <2>2
    <3> QED BY <3>1, <3>2 DEF OneBasis
  <2>3. ASSUME NEW e \in b, e.ticker = u, e.status = "ok" PROVE prices'[u][d] = basis[u]
    <3>1. /\ prices'[u][d] = IF d \in e.start..e.last THEN basis[u] ELSE prices[u][d]
          /\ Stored(prices', u) = Stored(prices, u) \cup ((e.start..e.last) \cap Day)
      BY <1>2, <2>1, <2>3
    <3>2. CASE d \in e.start..e.last
      BY <3>1, <3>2
    <3>3. CASE d \notin e.start..e.last
      <4>1. d \in Stored(prices, u)
        BY <1>10, <3>1, <3>3
      <4>2. d <= e.last /\ e.start \in Nat /\ e.last \in Nat
        BY <2>3, <4>1, EntryIs DEF Buffer, Fits
      <4>3. e.start # 1
        BY <2>1, <3>3, <4>2
      <4>4. u \in rebased
        BY <1>8, <2>3, <4>3 DEF Buffer
      <4> QED BY <3>1, <3>3, <4>1, <4>4 DEF OneBasis
    <3> QED BY <3>2, <3>3
  <2> QED BY <2>2, <2>3
<1>11. OneBasis'
  BY <1>10 DEF OneBasis
<1> QED BY <1>4, <1>5, <1>6, <1>7, <1>9, <1>11

(* What a flush does to the marks.                                         *)
LEMMA CnMarks ==
  ASSUME Tables, NEW b, Buffer(b, prices), NEW q, q = Cn!FlushedLog(b)
  PROVE  /\ q \in [Ticker -> SyncRow]
         /\ \A u \in Ticker : (\A e \in b : e.ticker # u) => q[u] = log[u]
         /\ \A e \in b : /\ e.status = "ok" => q[e.ticker] = [status |-> "ok", last |-> e.last]
                         /\ e.status = "error" => q[e.ticker].status = "error"
<1>1. q = [t \in Ticker |->
            IF \A e \in b : e.ticker # t THEN log[t]
            ELSE LET e == CHOOSE e \in b : e.ticker = t
                 IN  IF e.status = "ok" THEN Cn!SyncOk(log, t, e.last)[t]
                     ELSE Cn!SyncError(log, t, today)[t]]
  BY DEF Cn!FlushedLog
<1>2. ASSUME NEW e \in b
      PROVE  q[e.ticker] = IF e.status = "ok" THEN SyncOk(log, e.ticker, e.last)[e.ticker]
                           ELSE SyncError(log, e.ticker, today)[e.ticker]
  <2> DEFINE t == e.ticker
             c == CHOOSE f \in b : f.ticker = t
  <2>1. t \in Ticker
    BY EntryIs DEF Buffer
  <2>2. c \in b /\ c.ticker = t
    OBVIOUS
  <2>3. c = e
    BY <2>2 DEF Buffer
  <2>4. q[t] = IF c.status = "ok" THEN Cn!SyncOk(log, t, c.last)[t]
               ELSE Cn!SyncError(log, t, today)[t]
    BY <1>1, <2>1
  <2>5. /\ Cn!SyncOk(log, t, c.last) = SyncOk(log, t, c.last)
        /\ Cn!SyncError(log, t, today) = SyncError(log, t, today)
    BY CnTables
  <2> QED BY <2>3, <2>4, <2>5
<1>3. ASSUME NEW e \in b
      PROVE  /\ q[e.ticker] \in SyncRow
             /\ e.status = "ok" => q[e.ticker] = [status |-> "ok", last |-> e.last]
             /\ e.status = "error" => q[e.ticker].status = "error"
  <2>1. /\ e.ticker \in Ticker /\ e.last \in 0..LastDay /\ e.status \in {"ok", "error"}
        /\ today \in 0..LastDay /\ log \in [Ticker -> SyncRow]
    BY EntryIs, DayIs DEF Buffer, Tables
  <2> DEFINE x == SyncOk(log, e.ticker, e.last)
             y == SyncError(log, e.ticker, today)
  <2>2. x \in [Ticker -> SyncRow] /\ x[e.ticker] = [status |-> "ok", last |-> e.last]
    BY <2>1, SyncOkRow
  <2>3. y \in [Ticker -> SyncRow] /\ y[e.ticker].status = "error"
    BY <2>1, SyncErrorRow
  <2>4. q[e.ticker] = IF e.status = "ok" THEN x[e.ticker] ELSE y[e.ticker]
    BY <1>2
  <2> HIDE DEF x, y
  <2> QED BY <2>1, <2>2, <2>3, <2>4
<1>4. ASSUME NEW u \in Ticker
      PROVE  q[u] \in SyncRow /\ ((\A e \in b : e.ticker # u) => q[u] = log[u])
  <2>1. CASE \A e \in b : e.ticker # u
    BY <1>1, <2>1 DEF Tables
  <2>2. ASSUME NEW e \in b, e.ticker = u PROVE q[u] \in SyncRow
    BY <1>3, <2>2
  <2> QED BY <2>1, <2>2
<1>5. q \in [Ticker -> SyncRow]
  <2>1. DOMAIN q = Ticker /\ q = [t \in Ticker |-> q[t]]
    BY <1>1
  <2> QED BY <1>4, <2>1
<1> QED BY <1>3, <1>4, <1>5

(* A commit of b, with the error of t or without: the tables are in order, *)
(* and who was reported, and has no error, is marked ok.                   *)
LEMMA CnCommitted ==
  ASSUME Tables, BasesOK, OneBasis, NEW b, Buffer(b, prices), Cn!Flush(b),
         UNCHANGED <<today, basis>>,
         NEW T \in SUBSET Ticker,
         \/ log' = Cn!FlushedLog(b) /\ T = {}
         \/ \E t \in Ticker : log' = SyncError(Cn!FlushedLog(b), t, today) /\ T = {t}
  PROVE  /\ Tables' /\ BasesOK' /\ OneBasis'
         /\ \A u \in Ticker : /\ Stored(prices, u) \subseteq Stored(prices', u)
                              /\ (\A e \in b : e.ticker # u) =>
                                   Stored(prices', u) = Stored(prices, u)
         /\ \A u \in Ticker \ T :
              /\ (\A e \in b : e.ticker = u => e.status = "ok")
              /\ log[u].status = "ok" \/ \E e \in b : e.ticker = u
              => log'[u].status = "ok"
<1> DEFINE q == Cn!FlushedLog(b)
<1>1. /\ prices' \in Prices /\ NoHoles' /\ BasesOK' /\ OneBasis'
      /\ \A u \in Ticker : /\ Stored(prices, u) \subseteq Stored(prices', u)
                           /\ (\A e \in b : e.ticker # u) =>
                                Stored(prices', u) = Stored(prices, u)
      /\ \A e \in b : e.status = "ok" => e.last \in Stored(prices', e.ticker)
  BY CnWrite
<1>2. /\ q \in [Ticker -> SyncRow]
      /\ \A u \in Ticker : (\A e \in b : e.ticker # u) => q[u] = log[u]
      /\ \A e \in b : /\ e.status = "ok" => q[e.ticker] = [status |-> "ok", last |-> e.last]
                      /\ e.status = "error" => q[e.ticker].status = "error"
  BY CnMarks
<1>3. (log' = q /\ T = {}) \/ \E t \in Ticker : log' = SyncError(q, t, today) /\ T = {t}
  OBVIOUS
<1>4. \A e \in b : e.ticker \in Ticker /\ e.status \in {"ok", "error"}
  BY EntryIs DEF Buffer
<1> HIDE DEF q
<1>5. /\ log' \in [Ticker -> SyncRow]
      /\ \A u \in Ticker \ T : log'[u] = q[u]
      /\ \A u \in T : log'[u].status = "error"
  <2>1. CASE log' = q /\ T = {}
    BY <1>2, <2>1
  <2>2. ASSUME NEW t \in Ticker, log' = SyncError(q, t, today), T = {t}
        PROVE  /\ log' \in [Ticker -> SyncRow]
               /\ \A u \in Ticker \ T : log'[u] = q[u]
               /\ \A u \in T : log'[u].status = "error"
    <3>1. today \in 0..LastDay
      BY DayIs DEF Tables
    <3> QED BY <1>2, <2>2, <3>1, SyncErrorRow
  <2> QED BY <1>3, <2>1, <2>2
<1>6. ASSUME NEW u \in Ticker PROVE Marked(u)
  <2>0. log'[u] \in SyncRow
    BY <1>5
  <2>1. CASE u \in T
    BY <1>5, <2>0, <2>1 DEF Marked
  <2>2. CASE u \notin T /\ \A e \in b : e.ticker # u
    BY <1>2, <1>5, <2>2 DEF Marked
  <2>3. ASSUME u \notin T, NEW e \in b, e.ticker = u PROVE Marked(u)
    <3>1. CASE e.status = "ok"
      <4>1. log'[u] = [status |-> "ok", last |-> e.last]
        BY <1>2, <1>5, <2>3, <3>1
      <4>2. e.last \in Stored(prices', u)
        BY <1>1, <2>3, <3>1
      <4> QED BY <4>1, <4>2 DEF Marked
    <3>2. CASE e.status = "error"
      BY <1>2, <1>5, <2>0, <2>3, <3>2 DEF Marked
    <3> QED BY <1>4, <3>1, <3>2
  <2> QED BY <2>1, <2>2, <2>3
<1>7. log' \in [Ticker -> SyncRow] /\ MarksStored'
  <2>1. log' = [u \in Ticker |-> log'[u]]
    BY <1>5
  <2> QED BY <1>1, <1>6, <2>1, MarksKept
<1>8. Tables'
  BY <1>1, <1>7 DEF Tables
<1>9. ASSUME NEW u \in Ticker \ T,
             \A e \in b : e.ticker = u => e.status = "ok",
             log[u].status = "ok" \/ \E e \in b : e.ticker = u
      PROVE  log'[u].status = "ok"
  <2>1. log'[u] = q[u]
    BY <1>5
  <2>2. CASE \A e \in b : e.ticker # u
    BY <1>2, <1>9, <2>1, <2>2
  <2>3. ASSUME NEW e \in b, e.ticker = u PROVE log'[u].status = "ok"
    <3>1. q[u] = [status |-> "ok", last |-> e.last]
      BY <1>2, <1>9, <2>3
    <3> QED BY <2>1, <3>1
  <2> QED BY <2>2, <2>3
<1> QED BY <1>1, <1>8, <1>9

(* After a commit of b.                                                    *)
LEMMA CnAfterCommit ==
  ASSUME CnInv, NEW b, Buffer(b, prices), Cn!Flush(b), UNCHANGED <<today, basis>>,
         NEW T \in SUBSET Ticker,
         \/ log' = Cn!FlushedLog(b) /\ T = {}
         \/ \E t \in Ticker : log' = SyncError(Cn!FlushedLog(b), t, today) /\ T = {t},
         buf' = {}, phase' \in {"idle", "new", "pending"}, start' \in [Ticker -> Day],
         todo' \in [{"new", "pending"} -> SUBSET Ticker],
         todo'["new"] \cap todo'["pending"] = {},
         Waiting' \subseteq Waiting,
         \A t \in Waiting' : start'[t] = start[t] \/ start'[t] = 1,
         \A e \in b : e.ticker \notin Waiting',
         reported' \subseteq Ticker \ Waiting', reported' \cap T = {},
         \A u \in reported' : /\ \A e \in b : e.ticker = u => e.status = "ok"
                              /\ log[u].status = "ok" \/ \E e \in b : e.ticker = u
  PROVE  CnInv'
<1>1. /\ Tables' /\ BasesOK' /\ OneBasis'
      /\ \A u \in Ticker : /\ Stored(prices, u) \subseteq Stored(prices', u)
                           /\ (\A e \in b : e.ticker # u) =>
                                Stored(prices', u) = Stored(prices, u)
      /\ \A u \in Ticker \ T :
           /\ (\A e \in b : e.ticker = u => e.status = "ok")
           /\ log[u].status = "ok" \/ \E e \in b : e.ticker = u
           => log'[u].status = "ok"
  <2>1. Tables /\ BasesOK /\ OneBasis
    BY DEF CnInv
  <2> QED BY <2>1, CnCommitted, SMTT(60)
<1>2. Told'
  <2>1. \A u \in reported' : u \in Ticker \ T
    OBVIOUS
  <2>2. \A u \in reported' : log'[u].status = "ok"
    BY <1>1, <2>1
  <2> QED BY <2>2 DEF Told
<1>3. ASSUME NEW u \in Waiting' PROVE Reaches(prices', u, start'[u])
  <2>1. u \in Ticker /\ Reaches(prices, u, start[u])
    BY DEF CnInv, Waiting
  <2>2. Stored(prices', u) = Stored(prices, u)
    BY <1>1, <2>1
  <2>3. CASE start'[u] = start[u]
    BY <2>1, <2>2, <2>3 DEF Reaches
  <2>4. CASE start'[u] = 1
    <3>1. \A d \in Stored(prices', u) : 1 <= d + 1
      BY DayIs DEF Stored
    <3> QED BY <2>4, <3>1 DEF Reaches
  <2> QED BY <2>3, <2>4
<1>4. Buffer(buf', prices') /\ IsFiniteSet(buf') /\ Cardinality(buf') < CommitSize
  BY FS_EmptySet, SettingsAssumption DEF Buffer
<1> QED BY <1>1, <1>2, <1>3, <1>4 DEF CnInv

LEMMA CnAfterFlush ==
  ASSUME CnInv, NEW b, Buffer(b, prices), Cn!Flush(b), UNCHANGED <<today, basis>>,
         log' = Cn!FlushedLog(b),
         buf' = {}, phase' \in {"idle", "new", "pending"}, start' \in [Ticker -> Day],
         todo' \in [{"new", "pending"} -> SUBSET Ticker],
         todo'["new"] \cap todo'["pending"] = {},
         Waiting' \subseteq Waiting,
         \A t \in Waiting' : start'[t] = start[t] \/ start'[t] = 1,
         \A e \in b : e.ticker \notin Waiting',
         reported' \subseteq Ticker \ Waiting',
         \A u \in reported' : /\ \A e \in b : e.ticker = u => e.status = "ok"
                              /\ log[u].status = "ok" \/ \E e \in b : e.ticker = u
  PROVE  CnInv'
<1> DEFINE T == {}
<1>1. T \in SUBSET Ticker /\ reported' \cap T = {} /\ T = {}
  OBVIOUS
<1> HIDE DEF T
<1> QED BY <1>1, CnAfterCommit

(* A ticker leaves its group.                                              *)
LEMMA CnTakes ==
  ASSUME CnInv, NEW t, Cn!Take(t)
  PROVE  /\ t \in Ticker /\ t \in Waiting /\ Waiting' = Waiting \ {t}
         /\ todo' \in [{"new", "pending"} -> SUBSET Ticker]
         /\ todo'["new"] \cap todo'["pending"] = {}
         /\ UNCHANGED <<today, basis, phase, start>>
<1>1. /\ phase \in {"new", "pending"} /\ t \in todo[phase]
      /\ todo' = [todo EXCEPT ![phase] = @ \ {t}]
      /\ UNCHANGED <<today, basis, phase, start>>
  BY CnTables DEF Cn!Take
<1>2. todo \in [{"new", "pending"} -> SUBSET Ticker] /\ todo["new"] \cap todo["pending"] = {}
  BY DEF CnInv
<1>3. todo' \in [{"new", "pending"} -> SUBSET Ticker]
  <2>1. todo[phase] \ {t} \in SUBSET Ticker
    BY <1>1, <1>2
  <2> QED BY <1>1, <1>2, <2>1
<1>4. CASE phase = "new"
  <2>1. todo'["new"] = todo["new"] \ {t} /\ todo'["pending"] = todo["pending"]
    BY <1>1, <1>2, <1>4
  <2> QED BY <1>1, <1>2, <1>3, <1>4, <2>1 DEF Waiting
<1>5. CASE phase = "pending"
  <2>1. todo'["pending"] = todo["pending"] \ {t} /\ todo'["new"] = todo["new"]
    BY <1>1, <1>2, <1>5
  <2> QED BY <1>1, <1>2, <1>3, <1>5, <2>1 DEF Waiting
<1> QED BY <1>1, <1>4, <1>5

(* The answer to a request may be written.                                 *)
LEMMA CnAnswers ==
  ASSUME CnInv, NEW t \in Waiting, NEW e \in Cn!Outcome(t)
  PROVE  /\ e \in Cn!Entry /\ e.ticker = t /\ e \notin buf
         /\ Buffer(buf \cup {e}, prices)
         /\ IsFiniteSet(buf \cup {e}) /\ Cardinality(buf \cup {e}) \in Nat
<1>1. /\ e \in Cn!Entry /\ e.ticker = t /\ e.start = start[t]
      /\ e.last \in start[t]..today
      /\ e.status = "ok" => \A d \in Stored(prices, t) : d <= e.last
  BY CnTables DEF Cn!Outcome
<1>2. start[t] \in Nat /\ today \in Nat /\ t \in Ticker
  BY DayIs DEF CnInv, Tables, Waiting
<1>3. Fits(prices, e)
  BY <1>1, <1>2 DEF Fits, CnInv
<1>4. \A f \in buf : f.ticker # t
  BY DEF CnInv
<1>5. Buffer(buf \cup {e}, prices)
  BY <1>1, <1>3, <1>4 DEF Buffer, CnInv
<1>6. IsFiniteSet(buf \cup {e}) /\ Cardinality(buf \cup {e}) \in Nat
  BY FS_AddElement, FS_CardinalityType DEF CnInv
<1> QED BY <1>1, <1>4, <1>5, <1>6

(* The handler of an exception.                                            *)
LEMMA CnHandled ==
  ASSUME CnInv, NEW t, Cn!Take(t), NEW b, Cn!Handler(t, b), Buffer(b, prices),
         \/ b = buf
         \/ \E e \in Cn!Outcome(t) : b = buf \cup {e}
  PROVE  CnInv'
<1>1. /\ Cn!Flush(b) /\ log' = SyncError(Cn!FlushedLog(b), t, today) /\ buf' = {}
      /\ UNCHANGED reported
  BY CnTables DEF Cn!Handler
<1>2. /\ t \in Ticker /\ t \in Waiting /\ Waiting' = Waiting \ {t}
      /\ todo' \in [{"new", "pending"} -> SUBSET Ticker]
      /\ todo'["new"] \cap todo'["pending"] = {}
      /\ UNCHANGED <<today, basis, phase, start>>
  BY CnTakes
<1>3. /\ buf \subseteq b /\ \A e \in b : e \in buf \/ e.ticker = t
  <2>1. CASE b = buf
    BY <2>1
  <2>2. ASSUME NEW e \in Cn!Outcome(t), b = buf \cup {e}
        PROVE  /\ buf \subseteq b /\ \A f \in b : f \in buf \/ f.ticker = t
    BY <1>2, <2>2, CnAnswers
  <2> QED BY <2>1, <2>2
<1>4. \A e \in b : e.ticker \notin Waiting'
  BY <1>2, <1>3 DEF CnInv
<1>5. reported \subseteq Ticker \ Waiting /\ reported' \subseteq Ticker \ Waiting'
      /\ reported' \cap {t} = {}
  BY <1>1, <1>2 DEF CnInv
<1>6. ASSUME NEW u \in reported'
      PROVE  /\ \A e \in b : e.ticker = u => e.status = "ok"
             /\ log[u].status = "ok" \/ \E e \in b : e.ticker = u
  <2>1. u \in reported /\ u # t
    BY <1>1, <1>5
  <2>2. \A e \in b : e.ticker = u => e.status = "ok"
    <3> SUFFICES ASSUME NEW e \in b, e.ticker = u PROVE e.status = "ok"
      OBVIOUS
    <3>1. e \in buf /\ e.status \in {"ok", "error"}
      BY <1>3, <2>1, EntryIs DEF Buffer
    <3> QED BY <2>1, <3>1 DEF CnInv
  <2>3. log[u].status = "ok" \/ \E e \in b : e.ticker = u
    BY <1>3, <2>1 DEF CnInv, Told
  <2> QED BY <2>2, <2>3
<1>7. /\ phase' \in {"idle", "new", "pending"}
      /\ start' \in [Ticker -> Day]
      /\ \A u \in Waiting' : start'[u] = start[u] \/ start'[u] = 1
      /\ {t} \in SUBSET Ticker
      /\ Waiting' \subseteq Waiting
  BY <1>2 DEF CnInv
<1> DEFINE T == {t}
<1>8. /\ \E x \in Ticker : log' = SyncError(Cn!FlushedLog(b), x, today) /\ T = {x}
      /\ T \in SUBSET Ticker /\ reported' \cap T = {}
  BY <1>1, <1>2, <1>5
<1> HIDE DEF T
<1>9. /\ Cn!Flush(b) /\ buf' = {} /\ UNCHANGED <<today, basis>>
      /\ todo' \in [{"new", "pending"} -> SUBSET Ticker]
      /\ todo'["new"] \cap todo'["pending"] = {}
      /\ reported' \subseteq Ticker \ Waiting'
  BY <1>1, <1>2, <1>5
<1> QED BY <1>4, <1>6, <1>7, <1>8, <1>9, CnAfterCommit

(* The answer for a ticker joins the buffers.                              *)
LEMMA CnFetched ==
  ASSUME CnInv, NEW t, NEW e \in Cn!Outcome(t), Cn!Fetched(e), NEW b, b = buf \cup {e}
  PROVE  CnInv'
<1>1. e.ticker = t
  BY DEF Cn!Outcome
<1>2. Cn!Take(t)
  BY <1>1, Zenon DEF Cn!Fetched
<1>3. reported' = IF e.status = "ok" THEN reported \cup {t} ELSE reported
  BY <1>1, Zenon DEF Cn!Fetched
<1>4. \/ Cn!Flush(b) /\ log' = Cn!FlushedLog(b) /\ buf' = {}
      \/ ~ (Cardinality(b) >= CommitSize) /\ buf' = b /\ UNCHANGED <<prices, log, rebased>>
  BY CnCard, Zenon DEF Cn!Fetched
<1>5. /\ t \in Ticker /\ t \in Waiting /\ Waiting' = Waiting \ {t}
      /\ todo' \in [{"new", "pending"} -> SUBSET Ticker]
      /\ todo'["new"] \cap todo'["pending"] = {}
      /\ UNCHANGED <<today, basis, phase, start>>
  BY <1>2, CnTakes
<1>6. /\ e \in Cn!Entry /\ e \notin buf /\ Buffer(b, prices)
      /\ IsFiniteSet(b) /\ Cardinality(b) \in Nat
  BY <1>5, CnAnswers
<1>7. reported' \subseteq Ticker \ Waiting'
  BY <1>3, <1>5 DEF CnInv
<1>8. \A f \in b : f.ticker \notin Waiting'
  BY <1>1, <1>5 DEF CnInv
<1>9. ASSUME NEW u \in reported'
      PROVE  /\ \A f \in b : f.ticker = u => f.status = "ok"
             /\ log[u].status = "ok" \/ \E f \in b : f.ticker = u /\ f.status = "ok"
  <2>1. CASE u = t
    <3>1. e.status = "ok" /\ \A f \in buf : f.ticker # t
      BY <1>3, <1>5, <2>1 DEF CnInv
    <3> QED BY <1>1, <2>1, <3>1
  <2>2. CASE u # t
    <3>1. u \in reported
      BY <1>3, <2>2
    <3>2. ASSUME NEW f \in b, f.ticker = u PROVE f.status = "ok"
      <4>1. f \in buf /\ f.status \in {"ok", "error"}
        BY <1>1, <1>6, <2>2, <3>2, EntryIs DEF Buffer
      <4> QED BY <3>1, <3>2, <4>1 DEF CnInv
    <3>3. log[u].status = "ok" \/ \E f \in buf : f.ticker = u /\ f.status = "ok"
      BY <3>1 DEF CnInv, Told
    <3> QED BY <3>2, <3>3
  <2> QED BY <2>1, <2>2
<1>10. /\ phase' \in {"idle", "new", "pending"}
       /\ start' \in [Ticker -> Day]
       /\ \A u \in Waiting' : start'[u] = start[u] \/ start'[u] = 1
       /\ Waiting' \subseteq Waiting
  BY <1>5 DEF CnInv
<1>11. CASE Cn!Flush(b) /\ log' = Cn!FlushedLog(b) /\ buf' = {}
  <2>1. \A u \in reported' : /\ \A f \in b : f.ticker = u => f.status = "ok"
                             /\ log[u].status = "ok" \/ \E f \in b : f.ticker = u
    BY <1>9
  <2>2. /\ Buffer(b, prices) /\ Cn!Flush(b) /\ UNCHANGED <<today, basis>> /\ buf' = {}
        /\ log' = Cn!FlushedLog(b)
        /\ todo' \in [{"new", "pending"} -> SUBSET Ticker]
        /\ todo'["new"] \cap todo'["pending"] = {}
    BY <1>5, <1>6, <1>11
  <2> QED BY <1>7, <1>8, <1>10, <2>1, <2>2, CnAfterFlush
<1>12. CASE ~ (Cardinality(b) >= CommitSize) /\ buf' = b /\ UNCHANGED <<prices, log, rebased>>
  <2>1. Tables' /\ BasesOK' /\ OneBasis'
    BY <1>5, <1>12 DEF CnInv, Tables, BasesOK, OneBasis, MarksStored, NoHoles
  <2>2. Buffer(buf', prices') /\ IsFiniteSet(buf') /\ Cardinality(buf') < CommitSize
    BY <1>6, <1>12, SettingsAssumption
  <2>3. \A u \in Waiting' : Reaches(prices', u, start'[u])
    BY <1>5, <1>12 DEF CnInv
  <2>4. Told' /\ \A f \in buf' : f.status = "error" => f.ticker \notin reported'
    BY <1>9, <1>12 DEF Told
  <2> QED BY <1>5, <1>7, <1>8, <1>10, <1>12, <2>1, <2>2, <2>3, <2>4 DEF CnInv
<1> QED BY <1>4, <1>11, <1>12

(* A run begins within the history of each of its tickers.                 *)
LEMMA CnBegins ==
  ASSUME CnInv, NEW new \in SUBSET Ticker, NEW pending \in SUBSET Ticker,
         new \cap pending = {}, NEW from \in [Ticker -> Day], Cn!Begin(new, pending, from),
         \A t \in new \cup pending : Reaches(prices, t, from[t])
  PROVE  CnInv'
<1>1. /\ phase' \in {"idle", "new", "pending"}
      /\ todo' = [g \in {"new", "pending"} |-> IF g = "new" THEN new ELSE pending]
      /\ start' = from /\ buf' = {} /\ reported' = {}
      /\ UNCHANGED <<today, basis, prices, log, rebased>>
  BY CnTables DEF Cn!Begin
<1>2. /\ todo' \in [{"new", "pending"} -> SUBSET Ticker]
      /\ todo'["new"] = new /\ todo'["pending"] = pending
  BY <1>1
<1>3. Tables' /\ BasesOK' /\ OneBasis'
  BY <1>1 DEF CnInv, Tables, BasesOK, OneBasis, MarksStored, NoHoles
<1>4. Buffer(buf', prices') /\ IsFiniteSet(buf') /\ Cardinality(buf') < CommitSize
  BY <1>1, FS_EmptySet, SettingsAssumption DEF Buffer
<1>5. \A t \in Waiting' : Reaches(prices', t, start'[t])
  BY <1>1, <1>2 DEF Waiting
<1> QED BY <1>1, <1>2, <1>3, <1>4, <1>5 DEF CnInv, Told

LEMMA CnStart ==
  ASSUME CnInv, NEW tickers \in SUBSET Ticker, Cn!StartRun(tickers) \/ Cn!StartRebase(tickers)
  PROVE  CnInv'
<1>1. CASE Cn!StartRun(tickers)
  <2>1. PICK last \in [Ticker -> 0..LastDay] :
          /\ \A t \in Ticker : IsLast(last[t], prices, log, t, TRUE)
          /\ Cn!Begin({t \in tickers : last[t] = 0},
                      {t \in tickers : last[t] # 0 /\ last[t] < today},
                      [t \in Ticker |-> IF t \in tickers /\ last[t] \in 1..(today - 1)
                                        THEN last[t] + 1 ELSE 1])
    BY <1>1, CnTables DEF Cn!StartRun
  <2> DEFINE new == {t \in tickers : last[t] = 0}
             pending == {t \in tickers : last[t] # 0 /\ last[t] < today}
             from == [t \in Ticker |-> IF t \in tickers /\ last[t] \in 1..(today - 1)
                                       THEN last[t] + 1 ELSE 1]
  <2>2. today \in Nat /\ today <= LastDay /\ LastDay \in Nat
    BY DayIs DEF CnInv, Tables
  <2>3. ASSUME NEW t \in Ticker PROVE from[t] \in Day /\ last[t] \in 0..LastDay
    BY <2>2, DayIs
  <2>4. ASSUME NEW t \in new \cup pending PROVE Reaches(prices, t, from[t])
    <3>1. t \in Ticker /\ t \in tickers /\ last[t] \in 0..LastDay
      BY <2>3
    <3>2. CASE last[t] = 0
      <4>1. from[t] = 1 /\ \A d \in Stored(prices, t) : 1 <= d + 1
        BY <3>1, <3>2, <2>2, DayIs DEF Stored
      <4> QED BY <4>1 DEF Reaches
    <3>3. CASE last[t] # 0
      <4>1. last[t] < today
        BY <3>3
      <4>2. from[t] = last[t] + 1
        BY <2>2, <3>1, <3>3, <4>1
      <4>3. last[t] \in Stored(prices, t)
        BY <2>1, <3>1, <3>3, LastIsStored DEF CnInv
      <4> QED BY <2>2, <3>1, <4>2, <4>3 DEF Reaches
    <3> QED BY <3>2, <3>3
  <2>5. from \in [Ticker -> Day] /\ new \in SUBSET Ticker /\ pending \in SUBSET Ticker
        /\ new \cap pending = {}
    BY <2>3
  <2> HIDE DEF new, pending, from
  <2>6. Cn!Begin(new, pending, from)
    BY <2>1 DEF new, pending, from
  <2> QED BY <2>4, <2>5, <2>6, CnBegins
<1>2. CASE Cn!StartRebase(tickers)
  <2>1. PICK f \in {1} \cup {d \in Day : d + RebaseDays = today} :
          /\ \A t \in tickers : Stored(prices, t) # {} =>
               \E d \in Stored(prices, t) : d >= f - 1
          /\ Cn!Begin({}, tickers, [t \in Ticker |-> IF t \in tickers THEN f ELSE 1])
    BY <1>2, CnTables DEF Cn!StartRebase
  <2>2. f \in Day /\ f \in Nat
    BY DayIs
  <2> DEFINE from == [t \in Ticker |-> IF t \in tickers THEN f ELSE 1]
             new == {}
  <2>3. from \in [Ticker -> Day] /\ \A t \in tickers : from[t] = f
    BY <2>2, DayIs
  <2>4. ASSUME NEW t \in tickers PROVE Reaches(prices, t, from[t])
    <3>1. Stored(prices, t) \subseteq Nat
      BY DayIs DEF Stored
    <3> QED BY <2>1, <2>2, <2>3, <3>1 DEF Reaches
  <2>5. new \in SUBSET Ticker /\ new \cap tickers = {} /\ \A t \in new \cup tickers : t \in tickers
    OBVIOUS
  <2> HIDE DEF from, new
  <2>6. Cn!Begin(new, tickers, from)
    BY <2>1 DEF new, from
  <2> QED BY <2>3, <2>4, <2>5, <2>6, CnBegins
<1> QED BY <1>1, <1>2

(* A step that leaves the tables and the buffers alone, and only takes     *)
(* tickers from the groups.                                                *)
LEMMA CnIdles ==
  ASSUME CnInv, UNCHANGED <<today, basis, prices, log, rebased>>,
         \/ buf' = buf /\ reported' = reported
         \/ buf' = {} /\ reported' = {},
         phase' \in {"idle", "new", "pending"}, start' \in [Ticker -> Day],
         todo' \in [{"new", "pending"} -> SUBSET Ticker],
         todo'["new"] \cap todo'["pending"] = {}, Waiting' \subseteq Waiting,
         \A t \in Waiting' : start'[t] = start[t]
  PROVE  CnInv'
<1>1. Tables' /\ BasesOK' /\ OneBasis'
  BY DEF CnInv, Tables, BasesOK, OneBasis, MarksStored, NoHoles
<1>2. \A t \in Waiting' : Reaches(prices', t, start'[t])
  BY DEF CnInv
<1>3. CASE UNCHANGED <<buf, reported>>
  <2>1. Buffer(buf', prices') /\ IsFiniteSet(buf') /\ Cardinality(buf') < CommitSize
    BY <1>3 DEF CnInv
  <2>2. Told'
    BY <1>3 DEF CnInv, Told
  <2> QED BY <1>1, <1>2, <1>3, <2>1, <2>2 DEF CnInv
<1>4. CASE buf' = {} /\ reported' = {}
  <2>1. Buffer(buf', prices') /\ IsFiniteSet(buf') /\ Cardinality(buf') < CommitSize
    BY <1>4, FS_EmptySet, SettingsAssumption DEF Buffer
  <2> QED BY <1>1, <1>2, <1>4, <2>1 DEF CnInv, Told
<1> QED BY <1>3, <1>4

(* The groups are left, with a flush of the rest or without.               *)
LEMMA CnEnds ==
  ASSUME CnInv, Cn!EndGroup \/ Cn!Abort
  PROVE  CnInv'
<1>1. Buffer(buf, prices) /\ \A e \in buf : e.ticker \notin Waiting
  BY DEF CnInv
<1>2. ASSUME NEW u \in reported
      PROVE  /\ \A e \in buf : e.ticker = u => e.status = "ok"
             /\ log[u].status = "ok" \/ \E e \in buf : e.ticker = u
  <2>1. \A e \in buf : e.status \in {"ok", "error"}
    BY <1>1, EntryIs DEF Buffer
  <2> QED BY <1>2, <2>1 DEF CnInv, Told
<1>3. CASE Cn!EndGroup
  <2>1. /\ phase \in {"new", "pending"} /\ Cn!Flush(buf) /\ log' = Cn!FlushedLog(buf)
        /\ buf' = {} /\ UNCHANGED <<today, basis, todo, reported>>
        /\ phase' = IF phase = "new" /\ todo["pending"] # {} THEN "pending" ELSE "idle"
        /\ start' = IF phase' = "pending" THEN start ELSE [t \in Ticker |-> 1]
    BY <1>3, CnTables DEF Cn!EndGroup
  <2>2. start' \in [Ticker -> Day] /\ \A t \in Ticker : start'[t] = start[t] \/ start'[t] = 1
    BY <2>1, DayIs DEF CnInv
  <2>3. /\ todo' \in [{"new", "pending"} -> SUBSET Ticker]
        /\ todo'["new"] \cap todo'["pending"] = {} /\ Waiting' = Waiting
        /\ Waiting \subseteq Ticker
        /\ reported' \subseteq Ticker \ Waiting'
        /\ phase' \in {"idle", "new", "pending"}
    BY <1>1, <2>1 DEF CnInv, Waiting
  <2>4. \A t \in Waiting' : start'[t] = start[t] \/ start'[t] = 1
    BY <2>2, <2>3
  <2> QED BY <1>1, <1>2, <2>1, <2>2, <2>3, <2>4, CnAfterFlush
<1>4. CASE Cn!Abort
  <2>1. /\ \/ prices' = prices /\ log' = log /\ rebased' = rebased
           \/ Cn!Flush(buf) /\ log' = Cn!FlushedLog(buf)
        /\ phase' = "idle" /\ todo' = [g \in {"new", "pending"} |-> {}]
        /\ start' = [t \in Ticker |-> 1] /\ buf' = {} /\ reported' = {}
        /\ UNCHANGED <<today, basis>>
    <3>1. Cn!Group = {"new", "pending"}
      BY CnTables
    <3>2. \/ prices' = prices /\ log' = log /\ rebased' = rebased
          \/ Cn!Flush(buf) /\ log' = Cn!FlushedLog(buf)
      BY <1>4 DEF Cn!Abort
    <3>3. /\ phase' = "idle" /\ todo' = [g \in Cn!Group |-> {}]
          /\ start' = [t \in Ticker |-> 1] /\ buf' = {} /\ reported' = {}
          /\ UNCHANGED <<today, basis>>
      BY <1>4 DEF Cn!Abort
    <3> QED BY <3>1, <3>2, <3>3
  <2>2. /\ start' \in [Ticker -> Day] /\ phase' \in {"idle", "new", "pending"}
        /\ todo' \in [{"new", "pending"} -> SUBSET Ticker]
        /\ todo'["new"] \cap todo'["pending"] = {} /\ Waiting' = {}
    BY <2>1, DayIs DEF Waiting
  <2>3. CASE prices' = prices /\ log' = log /\ rebased' = rebased
    BY <2>1, <2>2, <2>3, CnIdles
  <2>4. CASE Cn!Flush(buf) /\ log' = Cn!FlushedLog(buf)
    <3>1. /\ \A t \in Waiting' : start'[t] = start[t] \/ start'[t] = 1
          /\ Waiting' \subseteq Waiting /\ \A e \in buf : e.ticker \notin Waiting'
          /\ reported' \subseteq Ticker \ Waiting'
          /\ \A u \in reported' : /\ \A e \in buf : e.ticker = u => e.status = "ok"
                                  /\ log[u].status = "ok" \/ \E e \in buf : e.ticker = u
      BY <2>1, <2>2
    <3> QED BY <1>1, <2>1, <2>2, <2>4, <3>1, CnAfterFlush
  <2> QED BY <2>1, <2>3, <2>4
<1> QED BY <1>3, <1>4

(* Every step of the CN feed.                                              *)
LEMMA CnStep ==
  ASSUME CnInv, Cn!Next
  PROVE  CnInv'
<1>1. CASE Cn!NextDay
  <2>1. /\ today < LastDay /\ today' = today + 1 /\ reported' = {}
        /\ UNCHANGED <<prices, log, phase, todo, start, buf>>
        /\ \E paid \in SUBSET {t \in Ticker : basis[t] <= Dividends[t]} :
             /\ basis' = [t \in Ticker |-> IF t \in paid THEN basis[t] + 1 ELSE basis[t]]
             /\ rebased' = rebased \ paid
    BY <1>1 DEF Cn!NextDay
  <2>2. BasesOK' /\ OneBasis'
    BY <2>1, DividendsPaid DEF CnInv
  <2>3. today' \in Day
    BY <2>1, DayIs DEF CnInv, Tables
  <2>4. Tables'
    BY <2>1, <2>3 DEF CnInv, Tables, MarksStored, NoHoles
  <2>5. Waiting' = Waiting /\ Told'
    BY <2>1 DEF Waiting, Told
  <2>6. Buffer(buf', prices') /\ IsFiniteSet(buf') /\ Cardinality(buf') < CommitSize
    BY <2>1 DEF CnInv
  <2> QED BY <2>1, <2>2, <2>4, <2>5, <2>6 DEF CnInv
<1>2. ASSUME NEW tickers \in SUBSET Ticker, Cn!StartRun(tickers) \/ Cn!StartRebase(tickers)
      PROVE  CnInv'
  BY <1>2, CnStart
<1>3. ASSUME NEW t \in Ticker, Cn!Skipped(t) PROVE CnInv'
  <2>1. Cn!Take(t) /\ UNCHANGED <<prices, log, buf, reported, rebased>>
    BY <1>3 DEF Cn!Skipped
  <2>2. /\ Waiting' = Waiting \ {t}
        /\ todo' \in [{"new", "pending"} -> SUBSET Ticker]
        /\ todo'["new"] \cap todo'["pending"] = {}
        /\ UNCHANGED <<today, basis, phase, start>>
    BY <2>1, CnTakes
  <2>3. phase' \in {"idle", "new", "pending"} /\ start' \in [Ticker -> Day]
    BY <2>2 DEF CnInv
  <2>4. Waiting' \subseteq Waiting /\ \A u \in Waiting' : start'[u] = start[u]
    BY <2>2
  <2>5. UNCHANGED <<today, basis, prices, log, rebased>> /\ UNCHANGED <<buf, reported>>
    BY <2>1, <2>2
  <2> QED BY <2>2, <2>3, <2>4, <2>5, CnIdles
<1>4. ASSUME NEW t \in Ticker, Cn!FetchFails(t) PROVE CnInv'
  <2>1. Cn!Take(t) /\ Cn!Handler(t, buf)
    BY <1>4 DEF Cn!FetchFails
  <2>2. Buffer(buf, prices)
    BY DEF CnInv
  <2> QED BY <2>1, <2>2, CnHandled
<1>5. ASSUME NEW t \in Ticker, NEW e \in Cn!Outcome(t), Cn!Fetched(e) PROVE CnInv'
  <2>1. PICK b : b = buf \cup {e}
    OBVIOUS
  <2> QED BY <1>5, <2>1, CnFetched
<1>6. ASSUME NEW t \in Ticker, NEW e \in Cn!Outcome(t), Cn!FlushFails(e) PROVE CnInv'
  <2>1. e.ticker = t
    BY DEF Cn!Outcome
  <2>2. Cn!Take(t) /\ Cn!Handler(t, buf \cup {e})
    BY <1>6, <2>1, Zenon DEF Cn!FlushFails
  <2>3. Buffer(buf \cup {e}, prices)
    BY <2>2, CnTakes, CnAnswers
  <2> QED BY <2>2, <2>3, CnHandled
<1>7. CASE Cn!EndGroup \/ Cn!Abort
  BY <1>7, CnEnds
<1> QED BY <1>1, <1>2, <1>3, <1>4, <1>5, <1>6, <1>7 DEF Cn!Next

-----------------------------------------------------------------------------
(***************************************************************************)
(* US equity prices: the proofs of their module, whose runs are regular    *)
(* and whose writes are whole here.                                        *)
(***************************************************************************)
UsD == INSTANCE UsPricesProofs WITH Daily <- TRUE
UsW == INSTANCE UsPricesProofs WITH Daily <- FALSE

(* The two instances of the module are the same.                           *)
LEMMA DailyInit == Us(TRUE)!Init <=> UsD!Init
  BY DEF Us!Init, Us!NoPrices, Us!NoLog, Us!Group, Us!Day, Us!NoRow,
         UsD!Init, UsD!NoPrices, UsD!NoLog, UsD!Group, UsD!Day, UsD!NoRow

LEMMA WeeklyInit == Us(FALSE)!Init <=> UsW!Init
  BY DEF Us!Init, Us!NoPrices, Us!NoLog, Us!Group, Us!Day, Us!NoRow,
         UsW!Init, UsW!NoPrices, UsW!NoLog, UsW!Group, UsW!Day, UsW!NoRow

LEMMA DailyTypeOK == Us(TRUE)!TypeOK <=> UsD!TypeOK
  BY DEF Us!TypeOK, Us!Prices, Us!SyncRow, Us!Group, Us!Day,
         UsD!TypeOK, UsD!Prices, UsD!SyncRow, UsD!Group, UsD!Day

LEMMA WeeklyTypeOK == Us(FALSE)!TypeOK <=> UsW!TypeOK
  BY DEF Us!TypeOK, Us!Prices, Us!SyncRow, Us!Group, Us!Day,
         UsW!TypeOK, UsW!Prices, UsW!SyncRow, UsW!Group, UsW!Day

LEMMA DailyNext == Us(TRUE)!Next <=> UsD!Next
  BY DEF Us!Next, Us!NextDay, Us!StartRun, Us!StartRebase, Us!Group, Us!Batch,
         Us!DownloadFails, Us!Answer, Us!Save, Us!SaveFails, Us!Abort, Us!EndRun,
         Us!Done, Us!Failed, Us!Present, Us!Rows, Us!Pending, Us!StartDay, Us!Stored,
         Us!Day, Us!NoRow, Us!InsertIgnore, Us!SyncOk, Us!SyncError, Us!IsLast, Us!Min,
         Us!Max, Us!Cardinality,
         UsD!Next, UsD!NextDay, UsD!StartRun, UsD!StartRebase, UsD!Group, UsD!Batch,
         UsD!DownloadFails, UsD!Answer, UsD!Save, UsD!SaveFails, UsD!Abort, UsD!EndRun,
         UsD!Done, UsD!Failed, UsD!Present, UsD!Rows, UsD!Pending, UsD!StartDay,
         UsD!Stored, UsD!Day, UsD!NoRow, UsD!InsertIgnore, UsD!SyncOk, UsD!SyncError,
         UsD!IsLast, UsD!Min, UsD!Max, UsD!Cardinality

LEMMA WeeklyNext == Us(FALSE)!Next <=> UsW!Next
  BY DEF Us!Next, Us!NextDay, Us!StartRun, Us!StartRebase, Us!Group, Us!Batch,
         Us!DownloadFails, Us!Answer, Us!Save, Us!SaveFails, Us!Abort, Us!EndRun,
         Us!Done, Us!Failed, Us!Present, Us!Rows, Us!Pending, Us!StartDay, Us!Stored,
         Us!Day, Us!NoRow, Us!InsertIgnore, Us!SyncOk, Us!SyncError, Us!IsLast, Us!Min,
         Us!Max, Us!Cardinality,
         UsW!Next, UsW!NextDay, UsW!StartRun, UsW!StartRebase, UsW!Group, UsW!Batch,
         UsW!DownloadFails, UsW!Answer, UsW!Save, UsW!SaveFails, UsW!Abort, UsW!EndRun,
         UsW!Done, UsW!Failed, UsW!Present, UsW!Rows, UsW!Pending, UsW!StartDay,
         UsW!Stored, UsW!Day, UsW!NoRow, UsW!InsertIgnore, UsW!SyncOk, UsW!SyncError,
         UsW!IsLast, UsW!Min, UsW!Max, UsW!Cardinality

(* A rebase goes further back than an increment.                           *)
LEMMA UsDepths == UsD!Depths /\ UsW!Depths
  BY SettingsAssumption DEF UsD!Depths, UsW!Depths

LEMMA DailyStarts ==
  ASSUME UsD!Init
  PROVE  UsD!HistoryInv
<1>1. UsD!TypeOK
  BY LastDayAssumption DEF UsD!Init, UsD!TypeOK, UsD!NoPrices, UsD!NoLog, UsD!Prices,
     UsD!SyncRow, UsD!Day, UsD!NoRow
<1>2. \A t \in Ticker : UsD!Stored(prices, t) = {}
  BY DEF UsD!Init, UsD!NoPrices, UsD!Stored
<1> QED
  BY <1>1, <1>2 DEF UsD!Init, UsD!HistoryInv, UsD!MarksStored, UsD!NoLog, UsD!NoHoles,
     UsD!Contiguous, UsD!Recent, UsD!Early, UsD!FirstStart, UsD!SecondStart, UsD!Group

LEMMA WeeklyStarts ==
  ASSUME UsW!Init
  PROVE  UsW!HistoryInv
<1>1. UsW!TypeOK
  BY LastDayAssumption DEF UsW!Init, UsW!TypeOK, UsW!NoPrices, UsW!NoLog, UsW!Prices,
     UsW!SyncRow, UsW!Day, UsW!NoRow
<1>2. \A t \in Ticker : UsW!Stored(prices, t) = {}
  BY DEF UsW!Init, UsW!NoPrices, UsW!Stored
<1> QED
  BY <1>1, <1>2 DEF UsW!Init, UsW!HistoryInv, UsW!MarksStored, UsW!NoLog, UsW!NoHoles,
     UsW!Contiguous, UsW!Recent, UsW!Early, UsW!FirstStart, UsW!SecondStart, UsW!Group

LEMMA DailyStep ==
  ASSUME UsD!HistoryInv, UsD!Next
  PROVE  UsD!HistoryInv'
<1>1. UsD!Depths /\ Lookback \in Nat /\ RebaseDays \in Nat
  BY UsDepths DEF UsD!Depths
<1>2. UsD!TypeOK /\ UsD!MarksStored
  BY DEF UsD!HistoryInv
<1>3. UsD!TypeOK'
  BY <1>1, <1>2, UsD!StepType, LastDayAssumption
<1>4. UsD!MarksStored'
  BY <1>1, <1>2, UsD!StepMarks, LastDayAssumption
<1>5. UsD!NoHoles' /\ UsD!Recent' /\ UsD!Early' /\ UsD!FirstStart' /\ UsD!SecondStart'
  BY <1>1, UsD!StepHistory, LastDayAssumption, UsAssumption
<1> QED BY <1>3, <1>4, <1>5 DEF UsD!HistoryInv

LEMMA WeeklyStep ==
  ASSUME UsW!HistoryInv, UsW!Next
  PROVE  UsW!HistoryInv'
<1>1. UsW!Depths /\ Lookback \in Nat /\ RebaseDays \in Nat
  BY UsDepths DEF UsW!Depths
<1>2. UsW!TypeOK /\ UsW!MarksStored
  BY DEF UsW!HistoryInv
<1>3. UsW!TypeOK'
  BY <1>1, <1>2, UsW!StepType, LastDayAssumption
<1>4. UsW!MarksStored'
  BY <1>1, <1>2, UsW!StepMarks, LastDayAssumption
<1>5. UsW!NoHoles' /\ UsW!Recent' /\ UsW!Early' /\ UsW!FirstStart' /\ UsW!SecondStart'
  BY <1>1, UsW!StepHistory, LastDayAssumption, UsAssumption
<1> QED BY <1>3, <1>4, <1>5 DEF UsW!HistoryInv

-----------------------------------------------------------------------------
(***************************************************************************)
(* All the feeds.                                                          *)
(***************************************************************************)

(* The marks and the rows agree, no history has a hole, and what a run has *)
(* still to write will leave it so: in each feed for its own reason.       *)
FeedInv ==
  \/ feed = "us daily"    /\ UsD!HistoryInv
  \/ feed = "us weekly"   /\ UsW!HistoryInv
  \/ feed = "cn daily"    /\ CnInv
  \/ feed = "hk daily"    /\ HkInv
  \/ feed = "us intraday" /\ IntradayInv
  \/ feed \in {"us index", "cn etf"} /\ IndexInv

(* Nothing is stored before the first run.                                 *)
LEMMA NothingStored ==
  ASSUME today = 1, prices = NoPrices, log = NoLog
  PROVE  Tables /\ \A t \in Ticker : Stored(prices, t) = {}
<1>1. \A t \in Ticker : Stored(prices, t) = {}
  BY DEF NoPrices, Stored
<1>2. today \in Day /\ prices \in Prices /\ log \in [Ticker -> SyncRow]
  BY DayIs DEF NoPrices, NoLog, Prices, SyncRow, NoRow
<1> QED BY <1>1, <1>2 DEF Tables, MarksStored, NoHoles, Contiguous, NoLog

LEMMA FeedStarts == Init => FeedInv
<1> SUFFICES ASSUME Init PROVE FeedInv
  OBVIOUS
<1>1. /\ log = NoLog /\ basis = [t \in Ticker |-> 1] /\ rebased = {}
      /\ buf = {} /\ reported = {} /\ batch = {}
  BY DEF Init
<1>2. 1 \in Day /\ BasesOK /\ OneBasis
  BY <1>1, DayIs, DividendsAssumption DEF BasesOK, OneBasis
<1>3. CASE feed = "us daily" /\ Us(TRUE)!Init
  BY <1>3, DailyInit, DailyStarts DEF FeedInv
<1>4. CASE feed = "us weekly" /\ Us(FALSE)!Init
  BY <1>4, WeeklyInit, WeeklyStarts DEF FeedInv
<1>5. CASE feed = "cn daily" /\ Cn!Init
  <2>1. /\ today = 1 /\ prices = NoPrices /\ phase = "idle"
        /\ todo = [g \in {"new", "pending"} |-> {}] /\ start = [t \in Ticker |-> 1]
    BY <1>5, CnTables DEF Cn!Init
  <2>2. Tables
    BY <1>1, <2>1, NothingStored
  <2>3. Waiting = {} /\ todo["new"] \cap todo["pending"] = {}
    BY <2>1 DEF Waiting
  <2>4. Buffer(buf, prices) /\ IsFiniteSet(buf) /\ Cardinality(buf) < CommitSize
    BY <1>1, FS_EmptySet, SettingsAssumption DEF Buffer
  <2>5. CnInv
    BY <1>1, <1>2, <2>1, <2>2, <2>3, <2>4 DEF CnInv, Told
  <2> QED BY <1>5, <2>5 DEF FeedInv
<1>6. CASE feed = "hk daily" /\ Hk!Init
  <2>1. /\ today = 1 /\ prices = NoPrices /\ phase = "idle"
        /\ todo = {} /\ start = [t \in Ticker |-> 1]
    BY <1>6, HkTables DEF Hk!Init
  <2>2. HkInv
    BY <1>1, <1>2, <2>1, NothingStored DEF HkInv
  <2> QED BY <1>6, <2>2 DEF FeedInv
<1>7. CASE feed = "us intraday" /\ Intraday!Init
  <2>1. /\ today = 1 /\ prices = NoPrices /\ phase = "idle"
        /\ todo = {} /\ start = [t \in Ticker |-> 1]
    BY <1>7, IntradayTables DEF Intraday!Init
  <2>2. Tables /\ InWindow
    BY <1>1, <2>1, NothingStored DEF InWindow, Reaches
  <2>3. BatchOK
    BY <1>1, FS_EmptySet, SettingsAssumption DEF BatchOK
  <2>4. IntradayInv
    BY <1>1, <1>2, <2>1, <2>2, <2>3 DEF IntradayInv
  <2> QED BY <1>7, <2>4 DEF FeedInv
<1>8. ASSUME NEW etf \in BOOLEAN, Index(etf)!Init PROVE IndexInv
  <2>1. today = 1 /\ prices = NoPrices /\ phase = "idle" /\ todo = {}
    BY <1>8, IndexTables DEF Index!Init
  <2> QED BY <1>1, <2>1, NothingStored DEF IndexInv
<1>9. CASE feed = "us index" /\ Index(FALSE)!Init
  BY <1>8, <1>9 DEF FeedInv
<1>10. CASE feed = "cn etf" /\ Index(TRUE)!Init
  BY <1>8, <1>10 DEF FeedInv
<1> QED BY <1>3, <1>4, <1>5, <1>6, <1>7, <1>9, <1>10, Zenon DEF Init

LEMMA FeedStep ==
  ASSUME FeedInv, Next
  PROVE  FeedInv'
<1>1. feed' = feed
  BY DEF Next, Step
<1>2. CASE feed = "us daily"
  BY <1>1, <1>2, DailyNext, DailyStep DEF FeedInv, Next, Step
<1>3. CASE feed = "us weekly"
  BY <1>1, <1>3, WeeklyNext, WeeklyStep DEF FeedInv, Next, Step
<1>4. CASE feed = "cn daily"
  BY <1>1, <1>4, CnStep DEF FeedInv, Next, Step
<1>5. CASE feed = "hk daily"
  BY <1>1, <1>5, HkStep DEF FeedInv, Next, Step
<1>6. CASE feed = "us intraday"
  BY <1>1, <1>6, IntradayStep DEF FeedInv, Next, Step
<1>7. CASE feed = "us index"
  <2>1. IndexInv /\ Index(FALSE)!Next /\ UNCHANGED log
    BY <1>7 DEF FeedInv, Next, Step
  <2>2. IndexInv'
    BY <2>1, IndexStep
  <2> QED BY <1>1, <1>7, <2>2 DEF FeedInv
<1>8. CASE feed = "cn etf"
  <2>1. IndexInv /\ Index(TRUE)!Next /\ UNCHANGED log
    BY <1>8 DEF FeedInv, Next, Step
  <2>2. IndexInv'
    BY <2>1, IndexStep
  <2> QED BY <1>1, <1>8, <2>2 DEF FeedInv
<1> QED BY <1>2, <1>3, <1>4, <1>5, <1>6, <1>7, <1>8 DEF FeedInv

LEMMA FeedStutters ==
  ASSUME FeedInv, UNCHANGED vars
  PROVE  FeedInv'
<1>1. /\ UNCHANGED <<feed, today, prices, log, phase, todo, start, basis, rebased, buf>>
      /\ UNCHANGED <<reported, batch>>
  BY DEF vars
<1>2. ASSUME Tables PROVE Tables'
  BY <1>1, <1>2 DEF Tables, MarksStored, NoHoles
<1>3. ASSUME BasesOK, OneBasis PROVE BasesOK' /\ OneBasis'
  BY <1>1, <1>3 DEF BasesOK, OneBasis
<1>4. ASSUME UsD!HistoryInv PROVE UsD!HistoryInv'
  BY <1>1, <1>4 DEF UsD!HistoryInv, UsD!TypeOK, UsD!MarksStored, UsD!NoHoles, UsD!Recent,
     UsD!Early, UsD!FirstStart, UsD!SecondStart
<1>5. ASSUME UsW!HistoryInv PROVE UsW!HistoryInv'
  BY <1>1, <1>5 DEF UsW!HistoryInv, UsW!TypeOK, UsW!MarksStored, UsW!NoHoles, UsW!Recent,
     UsW!Early, UsW!FirstStart, UsW!SecondStart
<1>6. ASSUME CnInv PROVE CnInv'
  BY <1>1, <1>2, <1>3, <1>6 DEF CnInv, Waiting, Told
<1>7. ASSUME HkInv PROVE HkInv'
  BY <1>1, <1>2, <1>3, <1>7 DEF HkInv
<1>8. ASSUME IntradayInv PROVE IntradayInv'
  BY <1>1, <1>2, <1>8 DEF IntradayInv, InWindow, BatchOK, Intraday!Floor
<1>9. ASSUME IndexInv PROVE IndexInv'
  BY <1>1, <1>2, <1>9 DEF IndexInv
<1> QED BY <1>1, <1>4, <1>5, <1>6, <1>7, <1>8, <1>9 DEF FeedInv

THEOREM FeedsAreInOrder == Spec => []FeedInv
<1>1. FeedInv /\ [Next]_vars => FeedInv'
  BY FeedStep, FeedStutters
<1> QED BY <1>1, FeedStarts, PTL DEF Spec

(* What the tables of the US feeds say, in the words of all feeds.         *)
LEMMA DailyTables ==
  ASSUME UsD!HistoryInv
  PROVE  MarksStored /\ NoHoles
<1>1. MarksStored
  BY DEF MarksStored, Stored, Day, NoRow, UsD!HistoryInv, UsD!MarksStored, UsD!Stored,
     UsD!Day, UsD!NoRow
<1>2. NoHoles
  BY DEF NoHoles, Contiguous, Stored, Day, NoRow, UsD!HistoryInv, UsD!NoHoles,
     UsD!Contiguous, UsD!Stored, UsD!Day, UsD!NoRow
<1> QED BY <1>1, <1>2

LEMMA WeeklyTables ==
  ASSUME UsW!HistoryInv
  PROVE  MarksStored /\ NoHoles
<1>1. MarksStored
  BY DEF MarksStored, Stored, Day, NoRow, UsW!HistoryInv, UsW!MarksStored, UsW!Stored,
     UsW!Day, UsW!NoRow
<1>2. NoHoles
  BY DEF NoHoles, Contiguous, Stored, Day, NoRow, UsW!HistoryInv, UsW!NoHoles,
     UsW!Contiguous, UsW!Stored, UsW!Day, UsW!NoRow
<1> QED BY <1>1, <1>2

LEMMA FeedTables == FeedInv => MarksStored /\ NoHoles
<1>1. CnInv \/ HkInv \/ IntradayInv \/ IndexInv => Tables
  BY DEF CnInv, HkInv, IntradayInv, IndexInv
<1>2. Tables => MarksStored /\ NoHoles
  BY DEF Tables
<1> QED BY <1>1, <1>2, DailyTables, WeeklyTables DEF FeedInv

(* The state of the runs and the tables is well formed, for any tickers,   *)
(* sizes of batches and commits, days and dividends.                       *)
THEOREM PriceTypeOK == Spec => []TypeOK
<1>1. FeedInv => TypeOK
  <2>1. UsD!HistoryInv => Us(TRUE)!TypeOK
    BY DailyTypeOK DEF UsD!HistoryInv
  <2>2. UsW!HistoryInv => Us(FALSE)!TypeOK
    BY WeeklyTypeOK DEF UsW!HistoryInv
  <2>3. CnInv => Cn!TypeOK
    BY CnTables, CnCard DEF Cn!TypeOK, CnInv, Tables, BasesOK, Buffer
  <2>4. HkInv => Hk!TypeOK
    BY HkTables DEF Hk!TypeOK, HkInv, Tables, BasesOK
  <2>5. IntradayInv => Intraday!TypeOK
    BY IntradayTables, IntradayCard DEF Intraday!TypeOK, IntradayInv, Tables, BatchOK
  <2>6. IndexInv => Index(TRUE)!TypeOK /\ Index(FALSE)!TypeOK
    BY IndexTables DEF Index!TypeOK, IndexInv, Tables
  <2> QED BY <2>1, <2>2, <2>3, <2>4, <2>5, <2>6 DEF FeedInv, TypeOK
<1> QED BY <1>1, FeedsAreInOrder, PTL

(* A ticker that sync_log calls ok has the bar of its last_date, in every  *)
(* feed, though the rows and the marks of some are separate commits, or    *)
(* are collected for many tickers (flush_prices_and_sync).                 *)
THEOREM MarksHaveBars == Spec => []OkMeansStored
<1>1. FeedInv => OkMeansStored
  BY FeedTables, MarksSay
<1> QED BY <1>1, FeedsAreInOrder, PTL

(* The history has no holes in any feed: whichever requests, writes and    *)
(* runs fail, and in whatever groups and batches the tickers are run.      *)
(* This rests on UsAssumption (US runs keep pace with the lookback, and    *)
(* their failed transactions leave nothing behind: with a torn write there *)
(* is a hole) and on the window that NextDay of IntradayPrices keeps to.   *)
THEOREM HistoriesWhole == Spec => []NoHoles
<1>1. FeedInv => NoHoles
  BY FeedTables
<1> QED BY <1>1, FeedsAreInOrder, PTL

(* A ticker that a CN run reports as ok is in the tables or still in the   *)
(* buffers, also after a handler of an exception has flushed them.         *)
THEOREM ReportsAreTrue == Spec => []ReportedIsSaved
<1>1. CnInv => Cn!ReportedIsSaved
  <2> SUFFICES ASSUME CnInv, NEW t \in reported
               PROVE  \/ log[t].status = "ok" /\ prices[t][log[t].last] # Cn!NoRow
                      \/ \E e \in buf : e.ticker = t /\ e.status = "ok"
    BY DEF Cn!ReportedIsSaved
  <2>1. t \in Ticker /\ OkMeansStored
    BY MarksSay DEF CnInv, Tables
  <2> QED BY <2>1 DEF CnInv, Told, OkMeansStored, NoRow, Cn!NoRow
<1>2. FeedInv => ReportedIsSaved
  BY <1>1 DEF FeedInv, ReportedIsSaved
<1> QED BY <1>2, FeedsAreInOrder, PTL

(* Once a download from the beginning is written, all prices of a ticker   *)
(* are on one basis until its next dividend, whatever increments, failed   *)
(* flushes and partial rebases come in between.                            *)
THEOREM RebasesFixDrift == Spec => []RebaseFixesDrift
<1>1. OneBasis => Hk!RebaseFixesDrift
  BY HkTables DEF OneBasis, Hk!RebaseFixesDrift
<1>2. FeedInv => RebaseFixesDrift
  BY <1>1 DEF FeedInv, RebaseFixesDrift, CnInv, HkInv
<1> QED BY <1>2, FeedsAreInOrder, PTL
-----------------------------------------------------------------------------
(***************************************************************************)
(* Every feed keeps one history a ticker (BarHistory).                     *)
(***************************************************************************)
LEMMA HistoryTables ==
  /\ History!Day = Day /\ History!Prices = Prices /\ History!NoPrices = NoPrices
  /\ \A p, t : History!Stored(p, t) = Stored(p, t)
  BY DEF History!Day, History!Prices, History!NoPrices, History!Stored, History!NoRow,
         Day, Prices, NoPrices, Stored, NoRow

(* The row days of t in q are those of prices, with its end written.       *)
Ended(q, t) ==
  \E from, to \in Day :
    /\ Reaches(prices, t, from)
    /\ \A d \in Stored(prices, t) : d <= to
    /\ q[t] = [d \in Day |-> IF d \in from..to THEN basis[t] ELSE prices[t][d]]

(* A step that writes ends, or nothing, is one of the history.             *)
LEMMA WriteIs ==
  ASSUME prices' \in Prices, UNCHANGED basis,
         \A t \in Ticker : prices'[t] = prices[t] \/ Ended(prices', t)
  PROVE  History!HNext
<1>1. ASSUME NEW t \in Ticker, NEW from \in Day, NEW to \in Day,
             Reaches(prices, t, from), \A d \in Stored(prices, t) : d <= to,
             prices'[t] = [d \in Day |-> IF d \in from..to THEN basis[t] ELSE prices[t][d]]
      PROVE  History!EndWritten(t)
  <2>1. /\ History!Stored(prices, t) # {} =>
             \E d \in History!Stored(prices, t) : from <= d + 1
        /\ \A d \in History!Stored(prices, t) : d <= to
    BY <1>1, HistoryTables DEF Reaches
  <2> QED BY <1>1, <2>1, HistoryTables, Zenon DEF History!EndWritten
<1>2. \A t \in Ticker : Ended(prices', t) => History!EndWritten(t)
  BY <1>1, Zenon DEF Ended
<1>3. History!Write
  BY <1>2, HistoryTables DEF History!Write
<1> QED BY <1>3 DEF History!HNext

(* A finite history has a first and a last day.                            *)
LEMMA EndsOfDays ==
  ASSUME NEW A \in SUBSET Day, A # {}
  PROVE  \E from, to \in A : \A d \in A : from <= d /\ d <= to
<1>1. A \in SUBSET Nat
  BY DayIs
<1>2. PICK from \in A : \A d \in A : from <= d
  BY <1>1, LeastNat
<1> DEFINE T == {LastDay - d : d \in A}
<1>3. T \in SUBSET Nat /\ T # {}
  BY DayIs
<1>4. PICK x \in T : \A y \in T : x <= y
  <2> HIDE DEF T
  <2> QED BY <1>3, LeastNat
<1>5. PICK to \in A : x = LastDay - to
  BY <1>4
<1>6. ASSUME NEW d \in A PROVE d <= to
  <2>1. x <= LastDay - d
    BY <1>4
  <2>2. d \in Nat /\ to \in Nat /\ LastDay \in Nat
    BY <1>1, DayIs
  <2> QED BY <1>5, <2>1, <2>2
<1> QED BY <1>2, <1>6

(* Feeds that pay no heed to dividends write bars of one basis.            *)
Flat ==
  /\ basis = [t \in Ticker |-> 1]
  /\ \A t \in Ticker : \A d \in Day : prices[t][d] \in {NoRow, 1}

(* Rows that are added only where there are none, and leave no hole, are   *)
(* the end of a history, or all of it.                                     *)
LEMMA FlatWrites ==
  ASSUME Flat, prices \in Prices, prices' \in Prices, NoHoles', UNCHANGED basis,
         \A t \in Ticker : \A d \in Day : \/ prices'[t][d] = prices[t][d]
                                          \/ prices[t][d] = NoRow /\ prices'[t][d] = 1
  PROVE  Flat' /\ History!HNext
<1>1. Flat'
  BY DEF Flat
<1>2. ASSUME NEW t \in Ticker PROVE prices'[t] = prices[t] \/ Ended(prices', t)
  <2> DEFINE A == Stored(prices, t)
             B == Stored(prices', t)
  <2>1. /\ A \subseteq B /\ B \subseteq Day /\ basis[t] = 1
        /\ prices[t] \in [Day -> Nat] /\ prices'[t] \in [Day -> Nat]
    BY DEF Stored, Flat, Prices, NoRow
  <2>2. Whole(B)
    BY ContiguousIsWhole DEF NoHoles
  <2>3. \A d \in Day : prices'[t][d] = IF d \in B THEN 1 ELSE prices[t][d]
    BY DEF Flat, Stored, NoRow
  <2>4. CASE B = {}
    BY <2>1, <2>3, <2>4
  <2>5. CASE B # {}
    <3> HIDE DEF A, B
    <3>1. PICK from, to \in B : \A d \in B : from <= d /\ d <= to
      BY <2>1, <2>5, EndsOfDays
    <3>2. from \in Day /\ to \in Day /\ Day \subseteq Nat
      BY <2>1, DayIs
    <3>3. \A d \in Day : d \in B <=> d \in from..to
      BY <2>2, <3>1, <3>2 DEF Whole
    <3>4. prices'[t] = [d \in Day |-> IF d \in from..to THEN basis[t] ELSE prices[t][d]]
      <4> DEFINE S == from..to
      <4> HIDE DEF S
      <4>1. \A d \in Day : prices'[t][d] = IF d \in S THEN basis[t] ELSE prices[t][d]
        BY <2>1, <2>3, <3>3 DEF S
      <4>2. prices'[t] = [d \in Day |-> IF d \in S THEN basis[t] ELSE prices[t][d]]
        BY <2>1, <4>1
      <4> QED BY <4>2 DEF S
    <3>5. Reaches(prices, t, from) /\ \A d \in Stored(prices, t) : d <= to
      <4>1. \A d \in A : d \in Nat /\ from <= d /\ d <= to
        BY <2>1, <3>1, <3>2
      <4>2. \A d \in A : from <= d + 1
        BY <3>2, <4>1
      <4> QED BY <4>1, <4>2 DEF Reaches, A
    <3> QED BY <3>2, <3>4, <3>5, Zenon DEF Ended
  <2> QED BY <2>4, <2>5
<1> QED BY <1>1, <1>2, WriteIs

(* One ticker's rows are written with INSERT IGNORE, or none.              *)
LEMMA InsertAdds ==
  ASSUME prices \in Prices,
         prices' = prices \/ \E t, S : prices' = InsertIgnore(prices, t, S, 1)
  PROVE  \A t \in Ticker : \A d \in Day : \/ prices'[t][d] = prices[t][d]
                                          \/ prices[t][d] = NoRow /\ prices'[t][d] = 1
  BY DEF InsertIgnore, Prices

LEMMA IndexWrites ==
  ASSUME IndexInv, IndexInv', Flat, NEW etf \in BOOLEAN, Index(etf)!Next, UNCHANGED basis
  PROVE  Flat' /\ History!HNext
<1>1. prices' = prices \/ \E t, S : prices' = InsertIgnore(prices, t, S, 1)
  <2>1. ASSUME NEW t, NEW l, Index(etf)!Save(t, l)
        PROVE  \E u, S : prices' = InsertIgnore(prices, u, S, 1)
    <3>1. \E S : prices' = Index(etf)!InsertIgnore(prices, t, S, 1)
      BY <2>1, Zenon DEF Index!Save
    <3>2. \A S : Index(etf)!InsertIgnore(prices, t, S, 1) = InsertIgnore(prices, t, S, 1)
      BY IndexTables
    <3> QED BY <3>1, <3>2, Zenon
  <2>2. (\E t, l : Index(etf)!Save(t, l)) \/ prices' = prices
    BY Zenon DEF Index!Next, Index!NextDay, Index!StartRun, Index!Skipped, Index!Abort,
       Index!EndRun
  <2> QED BY <2>1, <2>2, Zenon
<1> QED BY <1>1, InsertAdds, FlatWrites DEF IndexInv, Tables

LEMMA IntradayWrites ==
  ASSUME IntradayInv, IntradayInv', Flat, Intraday!Next, UNCHANGED basis
  PROVE  Flat' /\ History!HNext
<1>1. prices' = prices \/ \E t, S : prices' = InsertIgnore(prices, t, S, 1)
  <2>1. \A t, S : Intraday!InsertIgnore(prices, t, S, 1) = InsertIgnore(prices, t, S, 1)
    BY IntradayTables, Zenon
  <2>2. prices' = prices \/ \E t, S : prices' = Intraday!InsertIgnore(prices, t, S, 1)
    BY Zenon DEF Intraday!Next, Intraday!NextDay, Intraday!StartRun, Intraday!Take,
       Intraday!Downloaded, Intraday!DownloadFails, Intraday!Turn, Intraday!Save,
       Intraday!Fails, Intraday!Abort, Intraday!EndRun
  <2> QED BY <2>1, <2>2, Zenon
<1> QED BY <1>1, InsertAdds, FlatWrites DEF IntradayInv, Tables

LEMMA DailyWrites ==
  ASSUME UsD!HistoryInv, UsD!HistoryInv', Flat, UsD!Next, UNCHANGED basis
  PROVE  Flat' /\ History!HNext
<1>1. UsD!TypeOK /\ UsD!TypeOK' /\ UsD!NoHoles'
  BY DEF UsD!HistoryInv
<1>2. prices \in Prices /\ prices' \in Prices /\ NoHoles'
  BY <1>1 DEF UsD!TypeOK, UsD!Prices, UsD!Day, UsD!NoHoles, UsD!Contiguous, UsD!Stored,
     UsD!NoRow, Prices, Day, NoHoles, Contiguous, Stored, NoRow
<1>3. \A t \in Ticker : \A d \in UsD!Day :
        \/ prices'[t][d] = prices[t][d]
        \/ prices[t][d] = UsD!NoRow /\ prices'[t][d] = 1
  BY <1>1, UsD!StepAdds, LastDayAssumption
<1>4. UsD!Day = Day /\ UsD!NoRow = NoRow
  BY DEF UsD!Day, UsD!NoRow, Day, NoRow
<1> QED BY <1>2, <1>3, <1>4, FlatWrites

LEMMA WeeklyWrites ==
  ASSUME UsW!HistoryInv, UsW!HistoryInv', Flat, UsW!Next, UNCHANGED basis
  PROVE  Flat' /\ History!HNext
<1>1. UsW!TypeOK /\ UsW!TypeOK' /\ UsW!NoHoles'
  BY DEF UsW!HistoryInv
<1>2. prices \in Prices /\ prices' \in Prices /\ NoHoles'
  BY <1>1 DEF UsW!TypeOK, UsW!Prices, UsW!Day, UsW!NoHoles, UsW!Contiguous, UsW!Stored,
     UsW!NoRow, Prices, Day, NoHoles, Contiguous, Stored, NoRow
<1>3. \A t \in Ticker : \A d \in UsW!Day :
        \/ prices'[t][d] = prices[t][d]
        \/ prices[t][d] = UsW!NoRow /\ prices'[t][d] = 1
  BY <1>1, UsW!StepAdds, LastDayAssumption
<1>4. UsW!Day = Day /\ UsW!NoRow = NoRow
  BY DEF UsW!Day, UsW!NoRow, Day, NoRow
<1> QED BY <1>2, <1>3, <1>4, FlatWrites

(* A dividend is one of the history.                                       *)
LEMMA PaidIs ==
  ASSUME UNCHANGED prices, NEW paid \in SUBSET Ticker,
         basis' = [t \in Ticker |-> IF t \in paid THEN basis[t] + 1 ELSE basis[t]]
  PROVE  History!HNext
  BY Zenon DEF History!HNext, History!Pay

LEMMA HkWrites ==
  ASSUME HkInv, HkInv', Hk!Next
  PROVE  [History!HNext]_(History!historyVars)
<1>1. CASE Hk!NextDay
  <2>1. PICK paid \in SUBSET {t \in Ticker : basis[t] <= Dividends[t]} :
          basis' = [t \in Ticker |-> IF t \in paid THEN basis[t] + 1 ELSE basis[t]]
    BY <1>1 DEF Hk!NextDay
  <2>2. paid \in SUBSET Ticker /\ prices' = prices
    BY <1>1 DEF Hk!NextDay
  <2> QED BY <2>1, <2>2, PaidIs
<1>2. ASSUME NEW t \in Ticker, NEW l \in Day, Hk!Save(t, l) \/ Hk!MarkFails(t, l)
      PROVE  History!HNext
  <2>1. /\ t \in todo /\ UNCHANGED basis
        /\ l \in start[t]..today /\ \A d \in Stored(prices, t) : d <= l
        /\ prices' = Upsert(prices, t, start[t]..l, basis[t])
    BY <1>2, HkTables DEF Hk!Save, Hk!MarkFails, Hk!Take, Hk!Answered, Hk!Written
  <2>2. /\ start[t] \in Day /\ Reaches(prices, t, start[t])
        /\ prices \in Prices /\ prices' \in Prices
    BY <2>1 DEF HkInv, Tables
  <2>3. /\ \A u \in Ticker \ {t} : prices'[u] = prices[u]
        /\ prices'[t] = [d \in Day |-> IF d \in start[t]..l THEN basis[t] ELSE prices[t][d]]
    <3> DEFINE S == start[t]..l
    <3> HIDE DEF S
    <3>1. prices' = Upsert(prices, t, S, basis[t])
      BY <2>1 DEF S
    <3>2. /\ \A u \in Ticker \ {t} : prices'[u] = prices[u]
          /\ prices'[t] = [d \in Day |-> IF d \in S THEN basis[t] ELSE prices[t][d]]
      BY <2>2, <3>1 DEF Upsert, Prices
    <3> QED BY <3>2 DEF S
  <2>4. Ended(prices', t)
    BY <2>1, <2>2, <2>3, Zenon DEF Ended
  <2> QED BY <2>1, <2>2, <2>3, <2>4, WriteIs
<1>3. \/ Hk!NextDay
      \/ \E t \in Ticker : \E l \in Day : Hk!Save(t, l) \/ Hk!MarkFails(t, l)
      \/ prices' = prices /\ basis' = basis
  BY HkTables, Zenon DEF Hk!Next, Hk!StartRun, Hk!StartRebase, Hk!Begin, Hk!Fails,
     Hk!Take, Hk!Abort, Hk!EndRun
<1>4. ASSUME prices' = prices, basis' = basis PROVE UNCHANGED History!historyVars
  BY <1>4 DEF History!historyVars
<1> QED BY <1>1, <1>2, <1>3, <1>4

(* A flush of buffers that fit the tables writes the ends of histories.    *)
LEMMA FlushWrites ==
  ASSUME Tables, Tables', BasesOK, NEW b, Buffer(b, prices), Cn!Flush(b), UNCHANGED basis
  PROVE  History!HNext
<1>1. ASSUME NEW u \in Ticker PROVE prices'[u] = prices[u] \/ Ended(prices', u)
  <2>1. CASE \A e \in b : e.ticker = u => e.status # "ok"
    BY <2>1, FlushOne
  <2>2. ASSUME NEW e \in b, e.ticker = u, e.status = "ok" PROVE Ended(prices', u)
    <3>1. /\ e.start \in Day /\ e.last \in Day
          /\ Reaches(prices, u, e.start) /\ \A d \in Stored(prices, u) : d <= e.last
      BY <2>2, EntryIs DEF Buffer, Fits
    <3>2. prices'[u] = [d \in Day |-> IF d \in e.start..e.last THEN basis[u] ELSE prices[u][d]]
      BY <2>2, FlushOne
    <3> QED BY <3>1, <3>2, Zenon DEF Ended
  <2> QED BY <2>1, <2>2
<1> QED BY <1>1, WriteIs DEF Tables

LEMMA CnWrites ==
  ASSUME CnInv, CnInv', Cn!Next
  PROVE  [History!HNext]_(History!historyVars)
<1>1. Tables /\ Tables' /\ BasesOK /\ Buffer(buf, prices)
  BY DEF CnInv
<1>2. CASE Cn!NextDay
  <2>1. PICK paid \in SUBSET {t \in Ticker : basis[t] <= Dividends[t]} :
          basis' = [t \in Ticker |-> IF t \in paid THEN basis[t] + 1 ELSE basis[t]]
    BY <1>2 DEF Cn!NextDay
  <2>2. paid \in SUBSET Ticker /\ prices' = prices
    BY <1>2 DEF Cn!NextDay
  <2> QED BY <2>1, <2>2, PaidIs
<1>3. ASSUME basis' = basis, prices' = prices \/ Cn!Flush(buf)
      PROVE  [History!HNext]_(History!historyVars)
  BY <1>1, <1>3, FlushWrites DEF History!historyVars
<1>4. ASSUME NEW t \in Ticker, NEW e \in Cn!Outcome(t), Cn!Fetched(e) \/ Cn!FlushFails(e)
      PROVE  [History!HNext]_(History!historyVars)
  <2>1. e.ticker = t /\ Cn!Take(t)
    <3>1. e.ticker = t
      BY DEF Cn!Outcome
    <3> QED BY <1>4, <3>1, Zenon DEF Cn!Fetched, Cn!FlushFails
  <2>2. Buffer(buf \cup {e}, prices) /\ UNCHANGED basis
    BY <2>1, CnTakes, CnAnswers
  <2>3. prices' = prices \/ Cn!Flush(buf \cup {e})
    BY <1>4, Zenon DEF Cn!Fetched, Cn!FlushFails, Cn!Handler
  <2> QED BY <1>1, <1>3, <2>2, <2>3, FlushWrites
<1>5. \/ Cn!NextDay
      \/ \E t \in Ticker : \E e \in Cn!Outcome(t) : Cn!Fetched(e) \/ Cn!FlushFails(e)
      \/ basis' = basis /\ (prices' = prices \/ Cn!Flush(buf))
  BY Zenon DEF Cn!Next, Cn!StartRun, Cn!StartRebase, Cn!Begin, Cn!Skipped, Cn!FetchFails,
     Cn!Handler, Cn!Take, Cn!EndGroup, Cn!Abort
<1> QED BY <1>2, <1>3, <1>4, <1>5

(* Only CN and HK prices are adjusted.                                     *)
HistoriesInv == FeedInv /\ (feed \notin {"cn daily", "hk daily"} => Flat)

LEMMA FeedWrites ==
  ASSUME HistoriesInv, Next
  PROVE  HistoriesInv' /\ [History!HNext]_(History!historyVars)
<1>1. feed' = feed /\ FeedInv /\ FeedInv'
  BY FeedStep DEF Next, Step, HistoriesInv
<1>2. CASE feed = "us daily"
  <2>1. UsD!HistoryInv /\ UsD!HistoryInv' /\ Flat /\ UsD!Next /\ UNCHANGED basis
    BY <1>1, <1>2, DailyNext DEF FeedInv, HistoriesInv, Next, Step
  <2> QED BY <1>1, <2>1, DailyWrites DEF HistoriesInv
<1>3. CASE feed = "us weekly"
  <2>1. UsW!HistoryInv /\ UsW!HistoryInv' /\ Flat /\ UsW!Next /\ UNCHANGED basis
    BY <1>1, <1>3, WeeklyNext DEF FeedInv, HistoriesInv, Next, Step
  <2> QED BY <1>1, <2>1, WeeklyWrites DEF HistoriesInv
<1>4. CASE feed = "cn daily"
  <2>1. CnInv /\ CnInv' /\ Cn!Next
    BY <1>1, <1>4 DEF FeedInv, Next, Step
  <2> QED BY <1>1, <1>4, <2>1, CnWrites DEF HistoriesInv
<1>5. CASE feed = "hk daily"
  <2>1. HkInv /\ HkInv' /\ Hk!Next
    BY <1>1, <1>5 DEF FeedInv, Next, Step
  <2> QED BY <1>1, <1>5, <2>1, HkWrites DEF HistoriesInv
<1>6. CASE feed = "us intraday"
  <2>1. IntradayInv /\ IntradayInv' /\ Flat /\ Intraday!Next /\ UNCHANGED basis
    BY <1>1, <1>6 DEF FeedInv, HistoriesInv, Next, Step
  <2> QED BY <1>1, <2>1, IntradayWrites DEF HistoriesInv
<1>7. CASE feed = "us index"
  <2>1. IndexInv /\ IndexInv' /\ Flat /\ Index(FALSE)!Next /\ UNCHANGED basis
    BY <1>1, <1>7 DEF FeedInv, HistoriesInv, Next, Step
  <2> QED BY <1>1, <2>1, IndexWrites DEF HistoriesInv
<1>8. CASE feed = "cn etf"
  <2>1. IndexInv /\ IndexInv' /\ Flat /\ Index(TRUE)!Next /\ UNCHANGED basis
    BY <1>1, <1>8 DEF FeedInv, HistoriesInv, Next, Step
  <2> QED BY <1>1, <2>1, IndexWrites DEF HistoriesInv
<1> QED BY <1>2, <1>3, <1>4, <1>5, <1>6, <1>7, <1>8 DEF HistoriesInv, FeedInv

LEMMA HistoriesStart == Init => HistoriesInv /\ History!HInit
<1> SUFFICES ASSUME Init PROVE HistoriesInv /\ History!HInit
  OBVIOUS
<1>1. basis = [t \in Ticker |-> 1] /\ prices = NoPrices
  <2>1. /\ Us(TRUE)!Init \/ Us(FALSE)!Init \/ Cn!Init \/ Hk!Init \/ Intraday!Init
           \/ Index(FALSE)!Init \/ Index(TRUE)!Init
        /\ basis = [t \in Ticker |-> 1]
    BY Zenon DEF Init
  <2>2. Us(TRUE)!Init \/ Us(FALSE)!Init => prices = NoPrices
    BY DEF Us!Init, Us!NoPrices, Us!Day, Us!NoRow, NoPrices, Day, NoRow
  <2>3. Cn!Init \/ Hk!Init \/ Intraday!Init => prices = NoPrices
    BY CnTables, HkTables, IntradayTables DEF Cn!Init, Hk!Init, Intraday!Init
  <2>4. Index(FALSE)!Init \/ Index(TRUE)!Init => prices = NoPrices
    BY IndexTables DEF Index!Init
  <2> QED BY <2>1, <2>2, <2>3, <2>4
<1>2. Flat
  BY <1>1 DEF Flat, NoPrices
<1> QED BY <1>1, <1>2, FeedStarts, HistoryTables DEF HistoriesInv, History!HInit

(* Every feed keeps one history a ticker: whatever is committed together,  *)
(* in which groups and batches, and whatever fails, a step loses no bar,   *)
(* leaves none out, and writes again nothing but the end of a history;     *)
(* under the same conditions as HistoriesWhole.                            *)
THEOREM FeedsKeepHistory == Spec => KeepsHistory
<1>1. ASSUME HistoriesInv, [Next]_vars
      PROVE  HistoriesInv' /\ [History!HNext]_(History!historyVars)
  <2>1. CASE UNCHANGED vars
    <3>1. feed' = feed /\ basis' = basis /\ prices' = prices
      BY <2>1 DEF vars
    <3>2. Flat => Flat'
      BY <3>1 DEF Flat
    <3> QED BY <1>1, <2>1, <3>1, <3>2, FeedStutters DEF HistoriesInv, History!historyVars
  <2> QED BY <1>1, <2>1, FeedWrites
<1> QED BY <1>1, HistoriesStart, PTL DEF Spec, KeepsHistory, History!HSpec

(* No bar of a ticker is on an older basis than one of an earlier day, and *)
(* none on a newer one than the source answers.                            *)
Ascending ==
  \A t \in Ticker : \A c, d \in Stored(prices, t) :
    c <= d => prices[t][c] <= prices[t][d] /\ prices[t][d] <= basis[t]

LEMMA HistoryAscends ==
  ASSUME basis \in [Ticker -> Nat], prices \in Prices, Ascending, History!HNext
  PROVE  basis' \in [Ticker -> Nat] /\ prices' \in Prices /\ Ascending'
<1>1. ASSUME NEW paid \in SUBSET Ticker, History!Pay(paid)
      PROVE  basis' \in [Ticker -> Nat] /\ prices' \in Prices /\ Ascending'
  <2>1. /\ prices' = prices
        /\ basis' = [t \in Ticker |-> IF t \in paid THEN basis[t] + 1 ELSE basis[t]]
    BY <1>1 DEF History!Pay
  <2>2. \A t \in Ticker : basis'[t] \in Nat /\ basis[t] <= basis'[t]
    BY <2>1
  <2>3. basis' \in [Ticker -> Nat]
    BY <2>1, <2>2
  <2>4. ASSUME NEW t \in Ticker, NEW c \in Stored(prices, t), NEW d \in Stored(prices, t), c <= d
        PROVE  prices[t][c] <= prices[t][d] /\ prices[t][d] <= basis'[t]
    <3>1. prices[t][c] <= prices[t][d] /\ prices[t][d] <= basis[t]
      BY <2>4 DEF Ascending
    <3>2. prices[t][d] \in Nat /\ basis[t] \in Nat
      BY DEF Stored, Prices
    <3> QED BY <2>2, <3>1, <3>2
  <2> QED BY <2>1, <2>3, <2>4 DEF Ascending
<1>2. CASE History!Write
  <2>1. prices' \in Prices /\ basis' = basis
    BY <1>2, HistoryTables DEF History!Write
  <2>2. ASSUME NEW t \in Ticker, NEW c \in Stored(prices', t), NEW d \in Stored(prices', t),
               c <= d
        PROVE  prices'[t][c] <= prices'[t][d] /\ prices'[t][d] <= basis[t]
    <3>1. CASE prices'[t] = prices[t]
      BY <2>2, <3>1 DEF Ascending, Stored
    <3>2. CASE History!EndWritten(t)
      <4>1. PICK from, to \in Day :
              /\ \A e \in Stored(prices, t) : e <= to
              /\ prices'[t] = [e \in Day |-> IF e \in from..to THEN basis[t] ELSE prices[t][e]]
        BY <3>2, HistoryTables, Zenon DEF History!EndWritten
      <4>2. /\ c \in Day /\ d \in Day /\ c \in Nat /\ d \in Nat /\ from \in Nat /\ to \in Nat
            /\ basis[t] \in Nat
        BY DayIs DEF Stored
      <4>3. \A e \in Day : e \in Stored(prices', t) /\ e \notin from..to
                           => e \in Stored(prices, t) /\ e <= to /\ prices'[t][e] = prices[t][e]
        BY <4>1 DEF Stored
      <4>4. CASE d \in from..to
        <5>1. prices'[t][d] = basis[t]
          BY <4>1, <4>2, <4>4
        <5>2. CASE c \in from..to
          <6>1. prices'[t][c] = basis[t]
            BY <4>1, <4>2, <5>2
          <6> QED BY <4>2, <5>1, <6>1
        <5>3. CASE c \notin from..to
          <6>1. c \in Stored(prices, t) /\ prices'[t][c] = prices[t][c]
            BY <2>2, <4>2, <4>3, <5>3
          <6>2. prices[t][c] <= basis[t]
            BY <4>2, <6>1 DEF Ascending
          <6> QED BY <4>2, <5>1, <6>1, <6>2
        <5> QED BY <5>2, <5>3
      <4>5. CASE d \notin from..to
        <5>1. d \in Stored(prices, t) /\ d <= to /\ prices'[t][d] = prices[t][d]
          BY <2>2, <4>2, <4>3, <4>5
        <5>2. c \notin from..to
          BY <2>2, <4>2, <4>5, <5>1
        <5>3. c \in Stored(prices, t) /\ prices'[t][c] = prices[t][c]
          BY <2>2, <4>2, <4>3, <5>2
        <5> QED BY <2>2, <5>1, <5>3 DEF Ascending
      <4> QED BY <4>4, <4>5
    <3> QED BY <1>2, <3>1, <3>2, Zenon DEF History!Write
  <2> QED BY <2>1, <2>2 DEF Ascending
<1> QED BY <1>1, <1>2 DEF History!HNext

(* The bases of the bars of a ticker ascend: an updater that resumes after *)
(* a failure, or rebases some years only, never leaves an old bar behind a *)
(* newer one.                                                              *)
THEOREM BasesAscend == Spec => []Ascending
<1> DEFINE Inv == basis \in [Ticker -> Nat] /\ prices \in Prices /\ Ascending
<1>1. History!HInit => Inv
  <2> SUFFICES ASSUME History!HInit PROVE Inv
    OBVIOUS
  <2>1. basis = [t \in Ticker |-> 1] /\ prices = NoPrices
    BY HistoryTables DEF History!HInit
  <2>2. \A t \in Ticker : Stored(prices, t) = {}
    BY <2>1 DEF NoPrices, Stored
  <2>3. prices \in Prices
    BY <2>1 DEF NoPrices, Prices, NoRow
  <2> QED BY <2>1, <2>2, <2>3 DEF Ascending
<1>2. Inv /\ [History!HNext]_(History!historyVars) => Inv'
  <2>1. UNCHANGED History!historyVars /\ Inv => Inv'
    BY DEF History!historyVars, Ascending
  <2> QED BY <2>1, HistoryAscends
<1>3. Inv => Ascending
  OBVIOUS
<1> HIDE DEF Inv
<1> QED BY <1>1, <1>2, <1>3, FeedsKeepHistory, PTL DEF KeepsHistory, History!HSpec
=============================================================================
