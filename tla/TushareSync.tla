---------------------------- MODULE TushareSync -----------------------------
(***************************************************************************)
(* tushare sync, full and flush (apis/tushare/orchestrator.py): phases     *)
(* that read the NAS and write to a buffer file, which is delivered after  *)
(* the run, or by a later command.  Meanwhile the daily and weekly runs of *)
(* the A-share market write to the same tables.  The buffer is a queue,    *)
(* which is what LocalBuffer implements.  The sessions 1..LastDay are one  *)
(* week, and the last of them is the Friday that dates its derived bar.    *)
(***************************************************************************)
EXTENDS PriceStore, SequencesExt

CONSTANTS
  Announced,      \* bound: the days with announcements of shareholder returns
  WindowDays,     \* window_days of their requests
  Mixes,          \* bound: the sets of phases that the runs of a behaviour have
  Starts,         \* bound: the starts that runs are given
  Faults          \* bound: the requests, runs and flushes that fail

ASSUME DaysAssumption      == Announced \subseteq Day /\ Starts \subseteq Day
ASSUME WindowAssumption    == WindowDays \in Nat \ {0} /\ Faults \in Nat

Scopes == {"lists", "prices", "derive", "valuation", "returns"}

ASSUME MixesAssumption == Mixes \subseteq SUBSET Scopes

VARIABLES
  scopes,         \* the phases of this behaviour
  today,          \* the last closed session
  stocks,         \* the table stocks, with and without list_date
  prices, log,    \* the tables prices and sync_log
  weekly,         \* prices_weekly: the days that the bar of the week covers
  series,         \* cn_valuation_snapshot and cn_repurchase: the days stored
  buffer,         \* pending_writes
  phase,          \* "idle", "next" (between two phases), a phase, or a flush
  plan,           \* the phases of the run that are left
  start,          \* the start that the run was given, or NoStart
  tickers, days,  \* what the phase has left
  faults,         \* how many of them there were
  failed,         \* the days of each series that were asked for in vain (history)
  starts,         \* the starts that its requests were given (history)
  covered,        \* the tickers listed by runs that then issued list_date (history)
  derived         \* the tickers whose weekly bar is a derived one (history)

nasVars == <<stocks, prices, log, weekly, series>>
runVars == <<scopes, phase, plan, start, tickers, days>>
history == <<failed, starts, covered, derived>>
vars    == <<today, nasVars, buffer, runVars, faults, history>>

Series == {"valuation", "returns"}
Flush  == {"flush", "parallel flush"}

NoStart == 0

(* A buffered statement.                                                   *)
Row ==
  [table : {"stocks", "dates"}, set : SUBSET Ticker]
    \cup [table : {"prices", "ok"}, ticker : Ticker, last : Day]
    \cup [table : {"error"}, ticker : Ticker]
    \cup [table : {"weekly"}, ticker : Ticker, from : SUBSET Day]
    \cup [table : Series, set : SUBSET Day]

TypeOK ==
  /\ scopes   \in Mixes
  /\ today    \in Day
  /\ stocks   \in [Ticker -> {"absent", "listed", "dated"}]
  /\ prices   \in Prices /\ log \in [Ticker -> SyncRow]
  /\ weekly   \in [Ticker -> SUBSET Day]
  /\ series   \in [Series -> SUBSET Day]
  /\ \A i \in 1..Len(buffer) : buffer[i] \in Row
  /\ phase    \in {"idle", "next"} \cup Scopes \cup Flush
  /\ plan     \subseteq Scopes
  /\ start    \in {NoStart} \cup Day
  /\ tickers  \subseteq Ticker /\ days \subseteq 1..today
  /\ faults   \in 0..Faults
  /\ failed   \in [Series -> SUBSET Day] /\ starts \in [Series -> SUBSET Day]
  /\ covered  \subseteq Ticker /\ derived \subseteq Ticker

Init ==
  /\ scopes \in Mixes
  /\ today = 1
  /\ stocks = [t \in Ticker |-> "absent"]
  /\ prices = NoPrices /\ log = NoLog
  /\ weekly = [t \in Ticker |-> {}] /\ series = [s \in Series |-> {}]
  /\ buffer = <<>>
  /\ phase = "idle" /\ plan = {} /\ start = NoStart
  /\ tickers = {} /\ days = {}
  /\ faults = 0
  /\ failed = [s \in Series |-> {}] /\ starts = [s \in Series |-> {}]
  /\ covered = {} /\ derived = {}

(* A session closes.                                                       *)
NextDay ==
  /\ phase = "idle" /\ today < LastDay
  /\ today' = today + 1
  /\ UNCHANGED <<nasVars, buffer, runVars, faults, history>>

(* prices daily --market cn, for what concerns these tables: the list of   *)
(* the stocks, and the bars and the mark of each that is active.           *)
DailyRun ==
  /\ \E S \in SUBSET Ticker :
       LET active == S \cup {t \in Ticker : stocks[t] # "absent"} IN
       /\ stocks' = [t \in Ticker |->
            IF t \in active /\ stocks[t] = "absent" THEN "listed" ELSE stocks[t]]
       /\ prices' = [t \in Ticker |->
            IF t \in active THEN Upsert(prices, t, 1..today, 1)[t] ELSE prices[t]]
       /\ log' = [t \in Ticker |-> IF t \in active THEN SyncOk(log, t, today)[t] ELSE log[t]]
  /\ UNCHANGED <<today, weekly, series, buffer, runVars, faults, history>>

(* prices weekly --market cn, for a ticker: the bar of a week that is over *)
(* is dated by its last session, and upserts the row of the derived bar.   *)
WeeklyRun(t) ==
  /\ today = LastDay /\ stocks[t] # "absent"
  /\ weekly' = [weekly EXCEPT ![t] = Day] /\ derived' = derived \ {t}
  /\ UNCHANGED <<today, stocks, prices, log, series, buffer, runVars, faults,
                 failed, starts, covered>>
-----------------------------------------------------------------------------
(***************************************************************************)
(* The run.                                                                *)
(***************************************************************************)

Start(scope, from) ==
  /\ phase = "idle" /\ phase' = "next"
  /\ plan' = {p \in scopes : scope \in {"all", p}}
  /\ start' = from
  /\ UNCHANGED <<scopes, today, nasVars, buffer, tickers, days, faults, history>>

\* Mutation of Wanted: no end.
MutWanted(s) ==
  {d \in Day : IF start = NoStart THEN \A e \in series[s] : e < d ELSE start <= d}

(* The days that a series is asked for: those from a start on, or without  *)
(* one after the last day stored.  Valuations only on days with prices.    *)
Wanted(s) ==
  {d \in 1..today :
     /\ IF start = NoStart THEN \A e \in series[s] : e < d ELSE start <= d
     /\ s = "valuation" => \E t \in Ticker : d \in Stored(prices, t)}

(* p is the phase that cmd_full runs next.                                 *)
IsNext(p) ==
  LET order == <<"lists", "prices", "derive", "valuation", "returns">> IN
  \E i \in 1..Len(order) :
    /\ p = order[i] /\ p \in plan
    /\ \A j \in 1..i - 1 : order[j] \notin plan

(* A phase begins: it reads from the NAS what it has to do.                *)
Enter(p) ==
  /\ phase = "next" /\ IsNext(p)
  /\ phase' = p /\ plan' = plan \ {p}
  /\ tickers' = IF p \in {"prices", "derive"} THEN {t \in Ticker : stocks[t] # "absent"} ELSE {}
  /\ days' = IF p \in Series THEN Wanted(p) ELSE {}
  /\ starts' = [s \in Series |-> IF s = p THEN starts[s] \cup ({start} \cap Day) ELSE starts[s]]
  /\ UNCHANGED <<scopes, today, nasVars, buffer, start, faults, failed, covered, derived>>

Write(rows) == buffer' = buffer \o rows

Turn(p, rows) ==
  /\ phase = p /\ Write(rows)
  /\ UNCHANGED <<scopes, today, nasVars, plan, start>>

Fault == faults < Faults /\ faults' = faults + 1

\* Mutation of ListRows: the dates go first.
MutListRows(S) == <<[table |-> "dates", set |-> Ticker], [table |-> "stocks", set |-> S]>>

(* backfill_stocks_a for the stocks that Shanghai and Shenzhen list now,   *)
(* then backfill_stock_dates for every exchange and for delisted ones too. *)
ListRows(S) == <<[table |-> "stocks", set |-> S], [table |-> "dates", set |-> Ticker]>>

Lists ==
  /\ \E S \in SUBSET Ticker : Turn("lists", ListRows(S)) /\ covered' = covered \cup S
  /\ phase' = "next"
  /\ UNCHANGED <<tickers, days, faults, failed, starts, derived>>

Ticked(t) ==
  /\ t \in tickers /\ tickers' = tickers \ {t}
  /\ UNCHANGED <<phase, days, history>>

\* Mutation of Bars: the mark goes first.
MutBars(t, last) == <<[table |-> "ok", ticker |-> t, last |-> last],
                      [table |-> "prices", ticker |-> t, last |-> last]>>

(* backfill_one: the whole history up to last, then the mark.              *)
Bars(t, last) == <<[table |-> "prices", ticker |-> t, last |-> last],
                   [table |-> "ok", ticker |-> t, last |-> last]>>

(* One ticker of backfill_market: bars, no bars, or an exception of the    *)
(* request or between the two writes.  It leaves a mark of error, unless   *)
(* that fails too.                                                         *)
PricesOf(t) ==
  /\ Ticked(t)
  /\ \E last \in {today - 1, today} \ {0} :
       \/ Turn("prices", Bars(t, last)) /\ UNCHANGED faults
       \/ Turn("prices", <<>>) /\ UNCHANGED faults
       \/ \E rows \in {<<>>, <<Bars(t, last)[1]>>} :
            /\ \/ Turn("prices", Append(rows, [table |-> "error", ticker |-> t]))
               \/ Turn("prices", rows)
            /\ Fault

Derived(t) == <<[table |-> "weekly", ticker |-> t, from |-> Stored(prices, t)]>>

(* One ticker of derive_all: its bars from the daily ones on the NAS.  It  *)
(* is passed over when there are none, or on an exception.                 *)
DeriveOf(t) ==
  /\ Ticked(t)
  /\ \/ Turn("derive", IF Stored(prices, t) = {} THEN <<>> ELSE Derived(t)) /\ UNCHANGED faults
     \/ Turn("derive", <<>>) /\ Fault

\* Mutation of Window: the latest days come first.
MutWindow(s) == {d \in days : \A e \in days : e <= d}

(* The next request of a series: one day, or a window of them.             *)
Window(s) ==
  {d \in days : Cardinality({e \in days : e < d}) < (IF s = "valuation" THEN 1 ELSE WindowDays)}

(* What the source has of it; valuations of today may not be out yet.      *)
Answers(s) ==
  IF s = "returns" THEN {Window(s) \cap Announced} ELSE {Window(s), Window(s) \ {today}}

SeriesOf(s) ==
  /\ days # {} /\ days' = days \ Window(s)
  /\ \/ /\ \E set \in Answers(s) : Turn(s, IF set = {} THEN <<>> ELSE <<[table |-> s, set |-> set]>>)
        /\ UNCHANGED <<faults, failed>>
     \/ /\ Turn(s, <<>>) /\ Fault
        /\ failed' = [failed EXCEPT ![s] = @ \cup Window(s)]
  /\ UNCHANGED <<phase, tickers, starts, covered, derived>>

PhaseEnds ==
  /\ phase \in Scopes \ {"lists"} /\ tickers = {} /\ days = {}
  /\ phase' = "next"
  /\ UNCHANGED <<scopes, today, nasVars, buffer, plan, start, tickers, days, faults, history>>

Idle ==
  /\ phase' = "idle" /\ plan' = {} /\ start' = NoStart /\ tickers' = {} /\ days' = {}
  /\ UNCHANGED scopes

(* An exception outside the loops, or a crash: no flush.  The lists may    *)
(* have got half way, and a ticker.                                        *)
Raises ==
  /\ phase \in {"next"} \cup Scopes /\ Idle /\ Fault
  /\ \/ UNCHANGED buffer
     \/ phase = "lists" /\ \E S \in SUBSET Ticker : Write(<<ListRows(S)[1]>>)
     \/ phase = "prices" /\ \E t \in tickers : Write(<<Bars(t, today)[1]>>)
  /\ UNCHANGED <<today, nasVars, history>>
-----------------------------------------------------------------------------
(***************************************************************************)
(* The flush.                                                              *)
(***************************************************************************)

(* _run_buffered flushes what the run, and runs before it, have left.      *)
FetchEnds ==
  /\ phase = "next" /\ plan = {}
  /\ phase' = "flush" /\ start' = NoStart
  /\ UNCHANGED <<scopes, today, nasVars, buffer, plan, tickers, days, faults, history>>

(* tushare flush.  Scope: with several workers only for rows of one table  *)
(* that do not depend on each other, as its help says.                     *)
FlushCommand(f) ==
  /\ phase = "idle" /\ buffer # <<>> /\ phase' = f
  /\ f = "parallel flush" => \A i \in 1..Len(buffer) : buffer[i].table = "valuation"
  /\ UNCHANGED <<scopes, today, nasVars, buffer, plan, start, tickers, days, faults, history>>

\* Mutation of Weekly: INSERT IGNORE.
MutWeekly(r) == [weekly EXCEPT ![r.ticker] = IF @ = {} THEN r.from ELSE @]

(* An upsert: the bars are those that the row has.                         *)
Weekly(r) == [weekly EXCEPT ![r.ticker] = r.from]

(* The effect of a row on the NAS.                                         *)
Execute(r) ==
  /\ stocks' = [t \in Ticker |->
       IF r.table = "stocks" /\ t \in r.set /\ stocks[t] = "absent" THEN "listed"
       ELSE IF r.table = "dates" /\ t \in r.set /\ stocks[t] = "listed" THEN "dated"
       ELSE stocks[t]]
  /\ prices' = IF r.table = "prices" THEN Upsert(prices, r.ticker, 1..r.last, 1) ELSE prices
  /\ log' = IF r.table = "ok" THEN SyncOk(log, r.ticker, r.last)
            ELSE IF r.table = "error" THEN SyncError(log, r.ticker, today) ELSE log
  /\ weekly' = IF r.table = "weekly" THEN Weekly(r) ELSE weekly
  /\ derived' = IF r.table = "weekly" THEN derived \cup {r.ticker} ELSE derived
  /\ series' = IF r.table \in Series THEN [series EXCEPT ![r.table] = @ \cup r.set] ELSE series

\* Mutation of Deliver: the last row first.
MutDeliver ==
  /\ phase \in Flush /\ buffer # <<>>
  /\ Execute(Last(buffer)) /\ buffer' = Front(buffer)
  /\ UNCHANGED <<today, runVars, faults, failed, starts, covered>>

(* The first row is executed and deleted; with several workers, any row.   *)
Deliver ==
  /\ phase \in Flush
  /\ \E i \in 1..Len(buffer) :
       /\ phase = "flush" => i = 1
       /\ Execute(buffer[i]) /\ buffer' = RemoveAt(buffer, i)
  /\ UNCHANGED <<today, runVars, faults, failed, starts, covered>>

FlushEnds ==
  /\ phase \in Flush /\ buffer = <<>>
  /\ Idle
  /\ UNCHANGED <<today, nasVars, buffer, faults, history>>

(* A row fails, is executed and not deleted, or the process dies.          *)
FlushFails ==
  /\ phase \in Flush /\ buffer # <<>>
  /\ Idle /\ Fault
  /\ \/ UNCHANGED <<nasVars, derived>>
     \/ \E i \in 1..Len(buffer) : (phase = "flush" => i = 1) /\ Execute(buffer[i])
  /\ UNCHANGED <<today, buffer, failed, starts, covered>>

Proceeds ==
  \/ \E p \in Scopes : Enter(p)
  \/ Lists \/ PhaseEnds \/ FetchEnds \/ FlushEnds
  \/ \E t \in Ticker : PricesOf(t) \/ DeriveOf(t)
  \/ \E s \in Series : SeriesOf(s)

Next ==
  \/ NextDay \/ DailyRun \/ \E t \in Ticker : WeeklyRun(t)
  \/ \E scope \in scopes \cup {"all"}, from \in {NoStart} \cup Starts :
       (from # NoStart => scopes \cap Series # {}) /\ Start(scope, from)
  \/ Proceeds \/ Raises
  \/ \E f \in Flush : FlushCommand(f)
  \/ Deliver \/ FlushFails

Spec == Init /\ [][Next]_vars

(* The daily run and tushare sync are run again and again and go on.       *)
Fairness ==
  /\ SF_vars(DailyRun) /\ SF_vars(Start("all", NoStart)) /\ WF_vars(Proceeds)
  /\ WF_vars(Deliver)

FairSpec == Spec /\ Fairness
-----------------------------------------------------------------------------
(***************************************************************************)
(* Properties.                                                             *)
(***************************************************************************)

(* A ticker that sync_log calls ok has the bar of its last_date, although  *)
(* the flush that has brought the mark may have been cut off anywhere, and *)
(* a mark may arrive after the daily run's.                                *)
OkMeansStored ==
  \A t \in Ticker : log[t].status = "ok" => prices[t][log[t].last] # NoRow

(* An increment starts after the last day stored ("cron 每日跑安全").  A    *)
(* day that is missing before it has failed, is in the buffer, or was left *)
(* out by a run with a later start.                                        *)
HolesAreFailures ==
  \A s \in Series : \A e \in series[s] : \A d \in 1..e :
    \/ s = "returns" /\ d \notin Announced
    \/ d \in series[s] \cup failed[s]
    \/ \E i \in 1..Len(buffer) : buffer[i].table = s /\ d \in buffer[i].set
    \/ \E from \in starts[s] : d < from /\ from <= e

(* The UPDATE of list_date changes nothing without its stock, and no row   *)
(* says so.  For a stock of the run's own list it has worked, or waits     *)
(* behind that list ("跑在 stocks_a/hk/us 之后").                           *)
DatesFollowStocks ==
  \A t \in covered :
    \/ stocks[t] = "dated"
    \/ \E i \in 1..Len(buffer) : buffer[i].table = "dates" /\ t \in buffer[i].set

(* A derived weekly bar never goes back to one derived from fewer days,    *)
(* whenever and by whom the buffer is flushed.  The bar of the weekly run  *)
(* may be taken back: an older derivation can still wait in the buffer.    *)
DerivedGrows ==
  [][\A t \in derived : weekly[t] \subseteq weekly'[t]]_vars

(* The derivation does not see the bars that its own run has written; it   *)
(* catches up all the same.                                                *)
EventuallyDerived ==
  \A t \in Ticker :
    "derive" \in scopes /\ today = LastDay /\ stocks[t] # "absent" ~> weekly[t] = Day
=============================================================================
