# StockPull in TLA+

StockPull collects stock data of three markets (US, CN, HK) from yfinance,
Tushare, Futu OpenD and index providers into a MariaDB on a NAS. It is a command
line program, run by hand and by cron; it has no server, but several commands may
run at once, the Futu collection runs a thread per interface, everything it talks
to fails now and then, and what a run does depends on what the runs before it
left in the database. These modules say what the parts that are hard to test
promise, check it with TLC on small instances and prove some of it with TLAPS
for every instance.

The first half of this file is the inventory of the code, the second the
modules, the runs, the proofs, and the plan for what is missing. Numbers after a
file name are lines of the repository.

## The system

### Parts, their state and their operations

| part | code | state it keeps | operations |
|---|---|---|---|
| local-first write buffer | `core/local_buffer.py`, `cli/commands_common.py`, `cli/commands_futu.py`, `cli/commands_tushare.py` | rows of `pending_writes` in a SQLite file, one file for Futu and one for Tushare | buffer a write, `flush`, `flush_parallel` |
| NAS connections | `core/db_client.py` | a pool, the local-first switch | `get_conn` (pool, or a buffering connection), `query`, `execute` |
| Futu client | `apis/futu/client.py`, `core/http_utils.py` (`RateLimiter`), `core/retry_utils.py` | one context, one limiter for each API method | `call`: open the context, wait for a permit, request, retry |
| Futu collection | `apis/futu/orchestrator.py`, `concurrency.py`, `sync.py`, `snapshot_*.py`, `backfill_*.py`, `write_utils.py` | `sync_log` by interface and ticker, the collected tables | `run_sync`, `run_full`: phases, in each a stream for each interface; a turn of a stream for each ticker, with its page, table, period or batch loop |
| US daily and weekly prices | `apis/yfinance/prices_batch.py`, `modules/price_write.py`, `modules/sync_log.py` | `prices`, `prices_weekly`, `sync_log` | increment, rebase |
| HK prices | `apis/yfinance/prices_hk.py` | the same tables | increment, rebase |
| CN daily and weekly prices | `apis/tushare/prices_cn_batch.py`, `backfill_prices.py` | the same tables | increment, rebase, backfill |
| index and ETF prices | `apis/yfinance/prices_index.py`, `apis/tushare/etf_cn.py` | `index_prices` | increment from `MAX(date)`, rebase |
| intraday prices | `apis/yfinance/prices_intraday_batch.py` | `prices_intraday`, `sync_log` | increment, rebase |
| target dates | `core/trading_calendar.py`, `prices_us_weekly.py` | none | the last session a run asks for |
| index constituents | `modules/index_base.py`, `apis/static/*`, `modules/db_admin.py` | `index_constituents`, `constituent_changes`, `stocks`, `index_sync_log` | an updater for each index, `purge_index` |
| Tushare backfill | `apis/tushare/orchestrator.py`, `backfill_*.py`, `derive_periodic.py` | lists, statements, valuation, dividends, derived weekly and monthly bars | phases, each reading the NAS and writing through the buffer |
| pipelines and CLI | `jobs/`, `cli/`, `main.py` | none | `prices daily`: index, prices, index prices, one market after the other; `prices weekly`, `prices intraday`, `prices rebase` |
| probe | `apis/yfinance/probe.py` | none | whether the bar of the target date can be downloaded yet |

`PROJECT.json` lists these and the smaller ones under "components", with what is
modelled of each and why the rest is not.

### How they interact

* **Through the NAS.** The price updaters read `sync_log` and the tables to find
  out where to go on, and the index snapshot to find out for whom. The Futu
  streams read `sync_log` to find out what they need not ask for again.
* **Through the buffer file.** While local-first mode is on, `get_conn` hands out
  connections whose writes go to `pending_writes` and whose reads go to the NAS.
  At the end of the fetch the mode is switched off and the file is replayed. The
  fetches of later runs and flushes by hand use the same file.
* **Through shared objects.** The stream threads of a Futu run share the client,
  its context and its limiters, and write to the buffer file, each with a
  connection of its own.

### What is hard

1. Two databases. A flush commits on the NAS and then deletes the row locally;
   there is no transaction over both, and a process may die between them.
2. Nothing locks the buffer file: two commands may buffer and flush at once.
3. `flush_parallel` executes rows in no order.
4. Threads share limiters that sleep while they hold a lock, in a retry loop.
5. What is fresh is decided by a time stamp taken at the flush and compared at
   the start of a run.
6. Batches in which a ticker is absent, the download fails, or the write fails
   halfway; error marks that share the connection with an open transaction.
7. `INSERT IGNORE` keeps what was stored first, so a bar stored too early stays.
8. Updaters of indices that commit three or four times.
9. Incremental starts computed from the largest date stored, although days in
   between may have failed.
10. Loops that stop by the size of a page or by a cursor, on answers of several
   shapes, in which a request may fail or be repeated.
11. A command that runs for hours and takes its target date from the clock at every
   step, and leaves out all later steps when one raises.
12. Phases that are written to the buffer and read from the NAS, an `UPDATE` of
   rows that other runs have written, batches under a sentinel.
13. `purge_index` while an updater of the index is between its transactions.

### What makes the parts correct

| part | properties |
|---|---|
| buffer | nothing issued is lost; the NAS is what a prefix of the writes leaves; a flush that returns has delivered what it read; a rejected statement blocks what follows and nothing else; everything else arrives in the end; parallel flushes of independent rows end the same |
| Futu client | permits of a method are its interval apart, for all threads together; every call returns or raises |
| turns of the streams | a turn marked ok has written everything the server has, and a table is written whole or not at all (both but for what failed periods and answers of an unexpected type leave out); every turn ends (one loop does not) |
| Futu collection | a mark of success never arrives before its rows; what failed is asked for again; what the runs get to is asked for within its period, or twice it after a forced run that raised; announcement dates are filled in, whichever runs were cut off; daily interfaces are collected daily (they are not) |
| prices, of every feed | one history a ticker, of which nothing but the end is written again; no holes (a torn write makes one); a ticker marked ok has the bar of its last date; what a run reports as ok is stored; a rebase leaves one basis; every ticker becomes current |
| Tushare backfill | marks have their bars whoever flushes them; a day that is missing before a stored one has failed, or lies before a start that was given; the list dates of listed stocks find them; derived bars are not replaced by older ones and catch up |
| target dates and commands | the CN target is the last session that is over; only finished sessions are stored (not always); a command that ends without an error has stored all that was over when it began; none is missed for ever |
| constituents | a recorded change is one; the universe is one whole list (with overlapping runs, the union of theirs); ok means written; a stock for each constituent (that every change is recorded does not hold, see below) |

## The modules

| module | what it is |
|---|---|
| `NasTable` | the statements that reach the NAS and what they do to the rows they address |
| `WriteQueue` | abstract: a queue of statements, delivered in order |
| `LocalBuffer` | the buffer, the two-phase commands, sequential and parallel flushes, failures, crashes |
| `FutuClient` | the shared client: context, limiters, retries |
| `FutuTurn` | the turns of the streams, request by request, on `FutuClient` |
| `FutuSync` | the collection, `sync_log`, and the buffer as the queue that `LocalBuffer` implements |
| `PriceStore` | the tables `prices` and `sync_log` and the operations on them |
| `BarHistory` | abstract: the history of a ticker, which is written at its end only |
| `UsPrices`, `CnPrices`, `HkPrices`, `IntradayPrices`, `IndexPrices` | one updater each, on `PriceStore` |
| `PriceRuns` | their composition: instances for each feed, and the properties all feeds share |
| `TushareSync` | the Tushare phases over the buffer, beside the daily and weekly runs |
| `TradingCalendar` | the clock of Beijing, the sessions, and the target dates |
| `DailyCommand` | the price commands on that clock, step by step |
| `IndexSnapshot` | the updaters of the index constituents, and `purge_index` |
| `...Proofs` | theorems about the module of that name |
| `MC...` | instances for TLC |

A definition whose name begins with `Mut` is a mutation of the one after it: the
bug that the properties have to catch. No action uses it.

`FutuTurn` extends `FutuClient`, `DailyCommand` extends `TradingCalendar`, and `PriceRuns`
instantiates the updaters. `FutuSync` and `TushareSync` take the buffer for a queue, which
`LocalBuffer` refines; a turn of `FutuSync` writes what a turn of `FutuTurn` ends with.
`PriceRuns` knows sessions and no hours; `DailyCommand` knows the hours and follows
the bars of one feed.

### LocalBuffer

A *process* is a command. `StartFetch` is `set_local_first(True)`; `BufferWrite`
is `BufferingConnection._append`, which commits every statement by itself, so a
statement is one step whichever thread issues it; `FetchFails` is an exception of
the fetch (the flush is skipped, the rows stay); `FetchDone` is the end of the
fetch, which begins the flush: the rows are read *once*. `NasCommit` executes a
row's statement and commits; `LocalDelete` deletes the row by its key and goes on
to the next one. `WorkerFails` is any exception, before or after the commit;
`FlushEnds` returns or re-raises; `Crash` may come anywhere. A flush of one worker
is `flush`, one of several is `flush_parallel`; the rows are cut into contiguous
chunks as `chunked` does.

SQLite keys are kept as they are (`AUTOINCREMENT`: `lastSeq` never goes back), because
deletion is by key from a list that was read earlier. The contents of the NAS are
abstracted to which write a key's value comes from, with the four shapes of
statement the writers use (module `NasTable`). `written`, `prefix` and `applied`
are history: what was issued, what the NAS would be after each prefix of it, and
what was committed.

`Disciplined` says that several workers are used on independent rows only, which is
what the docstring of `flush_parallel` asks for and nothing checks.

### FutuClient

A thread is one of `run_streams`. Time is discrete; `since` is what a limiter's
`_last_call` says, as an age capped at the interval, and `pause` what a sleeping
thread has left. `Acquire` is `RateLimiter.wait` up to the sleep: the lock is taken
and either a permit is given at once or the thread sleeps *in* the lock (`doze`);
`Permit` is the rest. `Answer` and `Refuse` end a request; `Refuse` is the retry loop
with its attempts and its growing sleeps. `EnsureCtx`, `OpenCtx` and `OpenFails` are
`_ensure_ctx` as it is, without a lock: in the model, as in the code, two threads
that begin together both open a context, and the first is never closed. No property
forbids it, since no data depends on it.

### FutuTurn

What `ticker_stream` does for a ticker, and `sync_shares` for its batches, between two calls
of the client. A job says which loop a turn has, on which method, and what the server has
for it; `asks` are the requests that are left. `Ask` is `FutuClient.call`, `Within` its inner
steps, and each way a loop goes on is an action that takes the answer:

* `Whole`: one request (most functions).
* `PageBySize`: `snapshot_short_interest` and `snapshot_short_volume`, which stop at a page
  that is not full.
* `PageByKey`, `PlainList`, `NotPages`: `paginate_call`, which stops at the cursor `"-1"`, takes
  a list for everything and raises for anything else; once, or for each statement table
  (`fin_sync_one`) with an upsert after each. `snapshot_rating` has a loop of its own that reads
  dicts only.
* `Period`: `backfill_revenue`, which lists the periods and asks for each of the recent ones;
  `Swallow` is its `except`, which leaves a period out.
* `Chunk`, `Bisect`: `snapshot_shares`, which halves a chunk with an unknown ticker until that one
  is alone.

`Unexpected` is an answer of a type that the loop does not read. Only `paginate_call` raises for it;
all others take it as empty (`if not isinstance(...)`: `return 0`, `break` or `continue`), and the turn goes
on to its ok mark: a single request has brought nothing, pages end with those that came before,
a period or a chunk is left out. `missed` is history: what such answers and the failed
periods would have brought (`LeftOut`).

`Unsupported` is a permanent error (marked as a skip), `Raises` the exception of a call whose
attempts are used up: an error mark, or for a batch no mark at all. What the server does with
the cursor `"-1"` is not known from the code; in the model it has nothing or begins again.

### FutuSync

One run at a time, with its streams interleaved. A run has a scope (phases) and a force;
cron starts one a day. `ReadFresh` reads `sync_log` once for a stream; `Collect` is one turn:
the rows and then the mark, into the buffer, and for the financial tables possibly some rows and an
error (`part`). `PhaseEnds` is the end of `run_streams`; after the earnings phase the `UPDATE` of
`run_pit_backfill` is buffered as well (`dates`). `BatchRaises` is the exception of a batch
stream: the other streams of the phase finish, then `RunRaises`: the later phases are left out
and nothing is flushed. `Killed` stops the process anywhere between the writes of a
ticker; `MissRun` is a run that fails before it has read anything. `Deliver` takes the oldest
buffered write to the NAS: a mark gets the time of *that* moment as `last_run`, the
`UPDATE` dates the financial rows whose announcement is there (`WithDates`). `FlushFails`
leaves the rest to the next flush, or to `FlushCommand`.

`called`, `missed`, `cut` and `erred` are history: when a ticker was asked for, when a run last did
not get to a stream, when a forced run last raised, and whose last mark was an error. The
assumptions say of the interfaces what the orchestrator does: each is collected in one place,
the statements not after the announcements, and a batch is logged under one sentinel. The clock has `Day` ticks a day; cron
starts a run at tick 0, and a run takes no time or some, within its day: rows and marks that are
dated on both sides of midnight are outside the model.

### PriceStore and the updaters

A price row is kept as the version of the source's history it was read from (its
*basis*: adjusted prices all change when a dividend is paid), or `NoRow`. `IsLast` is
`get_last_sync_map`: the mark's date if it is ok, otherwise, for daily prices, the
largest date stored. In every module `StartRun` reads it and sorts the tickers, and
`NextDay` is a session that closes between two runs.

* `UsPrices`. New and pending tickers are two groups, and the pending ones have one
  common start, bounded by the lookback. A batch either fails to download
  (`DownloadFails`), is answered and written in one transaction with its marks (`Save`),
  or is answered and fails in the write (`SaveFails`): the rows of the statements that
  were executed are committed by the `set_sync_error` that follows, since the handler
  does not roll back. `Abort` is a lost connection or a crash. `Torn` lets such a
  statement fail after others of its transaction; `Regular` says that the runs and their
  answers are frequent enough for no ticker to fall behind by more than the lookback.
  The code ensures neither that this is so nor that writes are whole; `UsAssumption` of `PriceRuns`
  asks for both, and `us_torn` runs without it. `Daily` tells the daily from the weekly run.
* `CnPrices`. One request a ticker; rows and marks collect in `buf` and are committed when
  it is full and at the end of a group. `Handler` is the `except` clause, which flushes
  the same buffers again (`FlushFails` is the case in which that very flush has
  failed), and `Abort` the case in which it fails too. Upserts.
* `HkPrices`. One ticker at a time from some days before its last one, current or not;
  upserts; `MarkFails` is a mark that fails after its rows, which the error then commits.
* `IntradayPrices`. The source has a window of days that moves; a batch is downloaded from
  the earliest of its starts, then the rows and the mark of a ticker are two commits.
* `IndexPrices`. No `sync_log`; an increment starts after `MAX(date)`.

`PriceRuns` runs one feed in a behaviour, chosen at the beginning: the feeds share no
rows, so their interleaving would say nothing more. Its step is the `Next` of the
feed's instance.

`BarHistory` is what they all promise, without runs, requests, marks, groups or buffers: dividends
are paid (`Pay`), and a commit writes the ends of some histories (`Write`), each from no later than the day
after a stored one, up to the last stored one or a later one, on the source's basis (`EndWritten`). The
mapping is the identity on `basis` and `prices`; all other variables are hidden.

### TushareSync

`Start` is `tushare sync` or `full`, of all scopes or one, and perhaps with a start day; `Enter` begins a
phase and takes from the NAS what it has to do (tickers of `stocks`, days after the largest one
stored, or from the start on). `Lists` buffers the stocks that Shanghai and Shenzhen list now, which
may be any, and then the list dates of every exchange and of delisted stocks, so that some of the
updates have no stock to find; `covered` is history: whom the lists of complete runs have named. `PricesOf`, `DeriveOf` and `SeriesOf` are one turn of a phase's loop, which writes to the buffer;
`FetchEnds` is the automatic flush, `FlushCommand` one by hand, `Deliver` one row of it.
`DailyRun` is `prices daily --market cn` in one step, at any time: the list of the stocks, then the bars and the
mark of each. `WeeklyRun` is `prices weekly --market cn` for a ticker, at the end of the week: it upserts
the row of `prices_weekly` that derivations write, since both date it with the week's last
session (a Friday, the label of `W-FRI`; in a week without a session on Friday they have different
keys, and do not meet). `derived` tells whose bar on the NAS is a derived one. `failed` and `starts` say for
which days requests of a series were made in vain, and from which starts. `Raises` and `FlushFails` may leave rows
in the buffer for any later command, and execute a row twice. The buffer is a queue here, as
in `FutuSync`.

### TradingCalendar and DailyCommand

`TradingCalendar` has the three functions, translated, and when the sessions begin and end:
New York at 5:00 in Beijing, as the code assumes, and weekends but no holidays.

`DailyCommand` runs commands on that clock. `Begin` starts a daily command with some of its nine
steps (all markets, one, or tickers of one); every step takes its target date from
the clock when it is taken, and `Tick` may come between any two. A behaviour follows the bars of
one feed, chosen at the beginning: `Probe` and `DownloadUs` read the clock separately, as the
code does (again for each batch, but the ticker that is followed is in one of them);
`DownloadIndex`, `DownloadCn`, `DownloadEtf` and `DownloadHk` are the steps of the other feeds, with what each of them writes
(`INSERT IGNORE`, or an upsert) and how far it asks; `Passes` is any other step. `Fails` is an
error that is logged, `Raises` an exception, which ends the command. `Weekly` and `Intraday` are the
commands of that name. A bar is `open` if it was read before its session, or its week, was over,
and `final` afterwards.

### IndexSnapshot

A run is one call of an updater: `Start` reads the last snapshot's date (and stops
if it is today's), `Fetch` has the list, then `Save`, `Detect`, `Register` and `LogOk`
are one commit each (SP500, HSI), or `SaveOneTx` is the one commit of RUSSELL1000. `Fails`
is an exception anywhere, which SP500 and HSI log; `Crash` leaves nothing. `Purge` is
`purge_index`, at any time: while a list is fetched it does no harm, between two transactions of a
run it leaves remains of that run, and the history variable `torn` names the indices of which
this is so. `Fetch` may bring any of the lists that the constant `Listed` has for the index, a
different one each time: SP500 has two addresses, tried in turn, and a source may change at any
hour. `lists` has the lists that runs have written into a snapshot, and `overlaps` the days on which
two runs of an index were under way together; where they were, `INSERT IGNORE` leaves the union.
Scope: runs overlap within a day; a run that is alone and has its list may go on after
midnight, and no other begins before it has ended.

## The runs

| run | instance | what it shows |
|---|---|---|
| `buffer_sequential` | 1 process, 1 worker, 4 writes, all statements, one always rejected | `PrefixConsistent`, `PoisonNotSkipped`, refinement of `WriteQueue` |
| `buffer_concurrent` | 2 processes, 2 workers, 3 upserts | `NoLostWrite`, `OkMeansDelivered` |
| `buffer_fair` | 1 process, 1 or 2 workers, 3 writes, fair | `DrainedIsCurrent`, `EventuallyDelivered` |
| `client_calls` | 2 threads on one method with interval 2, one with turns of every loop, 2 attempts, pages of 2, answers of any type, fair | `LimiterInv`, `PermitsSpaced`, `OkMeansWhole`, `AllOrNothing`, `TurnEnds` (with `EveryCallEnds`) |
| `sync` | 5 streams in 4 phases, 1 ticker and a sentinel, 3 days of 2 ticks, periods 1 and 2, whole runs and forced ones of the daily phases, 1 failure | `AttemptedInTime`, `MarkedHasRows`, `DatesFilled`, `FailedIsRetried` |
| `sync_daily` | the same streams, 2 days, period 1, nothing fails | **violated**: `DailyCollected` |
| `prices` | each of 7 feeds, 2 tickers, 3 sessions, batches and commits of 2, fair | `OkMeansStored`, `NoHoles`, `ReportedIsSaved`, `RebaseFixesDrift`, `EventuallyCurrent`, refinement of `BarHistory` |
| `us_torn` | 1 ticker, a write may fail halfway | **violated**: `NoHoles` |
| `calendar` | nine days at the turning hours, commands of all markets, of one and of a ticker, each of 7 feeds, 1 failure, fair | `CnTargetClosed`, `CaughtUp`, `UnfinishedOnlyAtNight`, `EventuallyStored` |
| `calendar_sessions` | the same | **violated**: `SessionsFinal` |
| `index` | 2 runs, 2 indices (one of each kind), 2 tickers, 3 days, two lists that may be fetched at any time, one day with overlapping runs, purges of one | `ChangesSound`, `UniverseWhole`, `OkMeansWritten`, `OneTxRegistered` |
| `tushare` | 1 ticker, 3 sessions, three mixes of phases, starts on the second day or none, 1 fault, fair | `OkMeansStored`, `HolesAreFailures`, `DatesFollowStocks`, `DerivedGrows`, `EventuallyDerived` |

The type invariant is part of `buffer_sequential`, `sync`, `prices` (that of the feed),
`calendar`, `tushare` and, in `LimiterInv`, of `client_calls`. That of `IndexSnapshot` is proved,
and left out of its run because only the other properties can tell a plausible mistake.

### Bounds, and why they are enough

* *Writes.* Three or four statements on two keys: two of one key, one of another, and
  one that joins them is the smallest case in which order, overwriting, rejection and
  dependence can all show; a flush of three rows with two workers has chunks of
  different lengths.
* *Processes and workers.* Two flushes meet in one row or do not; the third behaves
  as one of the two. The theorems below hold for any number.
* *Client and turns.* Backoffs of 1 and 2 and an interval of 2 let a backoff be shorter than
  and equal to it; the second thread is there for the lock. Sizes are around one and two
  pages of two: 0, 1, 2 and 3 items, in dicts and in lists; a batch of three is a full and a
  short chunk, with the unknown ticker in either; any answer may be of an unexpected type; of three periods one is not recent. Two
  tables are one after which a later one fails.
* *Days of the collection.* The longest period is 2 days, so three days are collection,
  skip and collection. `Day` = 2 separates a flush at the time of the run from one after it.
  One ticker: tickers share nothing but the order of the buffer, and the theorems hold for
  any number. `Failures` bounds missed, killed and failed runs and flushes. The third case of
`AttemptedInTime`, two periods after a forced run that raised, needs a fifth day; TLC found it
on a larger instance, and the theorem covers it.
* *Hours.* Code and exchanges change something at 0, 5, 16 and 21 o'clock, and the clock stops
  there. A week that is past, then nine days: every weekday, the next Monday and Tuesday. A command may
  take up to 16 hours (`Longest`), so that any of its steps may be on the other side of one
  of these hours, or of two.
* *Sessions.* With a lookback of one day and three sessions a ticker can be new, stored,
  behind by as much as the lookback, and (which `Regular` forbids) by more; `us_torn` needs
  four. Two tickers are one batch or two, in one group or in both; a commit of two is
  full, or is flushed with one entry in it. One of the tickers pays a dividend, so that
  two bases can be in a table, and in a commit. A window of two days moves once.
* *Tushare.* One ticker: the loops over tickers share nothing but the order of the buffer,
  in which the rows of one ticker and of two days already follow one another. Announcements
  on the first and the last day, in windows of two days, give a window with an answer,
  one without and one that ends at today. A start on the second of three days has days before
  it and after it (`Starts`). The three mixes are the sets of phases that
  read one another's tables; the fault is a request, a run or a flush.
* *Indices.* Three days are needed for a snapshot before, between and after. In the run SP500 may answer with any
  list of the two tickers, and RUSSELL1000, whose filing is cached, with one (`Listed`, given by
  `MCIndexSnapshot`). `MaxOverlaps` bounds the days on which runs of an index overlap; the theorems
  hold for any number.

Deadlock is checked for the buffer and the turns on the client. The others stop at the bound of
their clocks (`CHECK_DEADLOCK FALSE`).

### Fairness

* `LocalBuffer!Fairness`: somebody flushes again while rows are waiting (the next run
  ends in a flush; the message of a failed one asks for it), a worker does not stop
  without raising, and neither database fails for ever (strong fairness of the two
  commits). `EventuallyDelivered` says nothing of what comes after a rejected statement.
* `FutuTurn!TurnSpec`: time passes, threads run, a turn goes on when its call has returned, and a
  lock that becomes free again and again is got by each thread that waits for it (strong fairness
  of `Acquire`). Requests may be refused for ever.
* `DailyCommand!FairSpec`: time passes (strongly fair, since a command holds it up only when it has
  taken too long), a command goes on, and the whole daily command, or the command of the feed,
  is given again and again; `Failures` bounds what fails. `FutuSync` has no liveness
  property: `AttemptedInTime` says by when something has to have happened.
* `PriceRuns!Fairness`: the owner keeps starting runs of the whole universe, a run goes on,
  not all runs are cut off, and a ticker is not left without its newest bar for ever. Downloads
  and writes may fail any number of times in between.
* `TushareSync!Fairness`: the daily run and `tushare sync` are started again and again, and a run and
  a flush go on; `Faults` bounds what fails.

## What the violated runs show

* `sync_daily`. `last_run` is set when the mark is flushed, after the start of the run.
  The next day's run starts less than 24 hours later, finds the mark fresh and skips the
  interface. With cron at a fixed hour an interface with a period of one day is collected
  every other day, although `config.py` says of these: "每日（只返当前值，漏采=永久空洞）".
* `us_torn`. `_download_and_save` does not roll back when the write fails. The first
  `set_sync_error` commits the statements that were executed; a ticker that got a part of
  its history that way is not new any more, and the next increment starts at the floor of
  the lookback: the days between are missing.
* `calendar_sessions`. From Tuesday to Saturday between 0:00 and 5:00 the target is a
  session that is still open, which the probe finds. Its bar is inserted with `INSERT IGNORE` and
  stays, although the README of the program speaks of the last day that has closed, and of 5:00.
  `UnfinishedOnlyAtNight` says that it can happen at no other time.

More facts came up that have no run of their own. Some are visible in a definition of a module:

* A list that `FutuClient.call` returns has lost the third value of the answer
  (`client.py:116`), so the loops by size have no cursor to go on with: a full first page in a
  list is asked for again for ever, and so may be a last page that is exactly full in a dict, if
  the server begins again at the cursor `"-1"` (`StartsOver` in `FutuTurn`).
* A period of `backfill_revenue` whose request fails is left out with a warning, and the ticker is
  marked ok.
* An answer of an unexpected type is taken as empty nearly everywhere: the ticker is marked ok, with
  nothing, with the pages before, or without a period or a chunk, and nobody is told. The comment
  at `write_utils.py:56` names this danger ("avoids silent empty results"), and `paginate_call` raises for that reason; the loops that
  do not use it do not. `OkMeansWhole` and `AllOrNothing` except what failed periods and such
  answers would have brought (`missed`), and nothing else.
* Two overlapping runs of an index may fetch different lists, from two addresses or before and after
  a change. The snapshot of the day is then the union of both, and the changes recorded are those of
  both lists (`UniverseWhole`, `ChangesSound`).
* A batch of `sync_shares` that raises is not marked, and the phases after it are not collected
  that day, nor on any other day on which it raises (`missed` in `AttemptedInTime`).
* On a Monday from 5:00 the US target is Sunday. The probe finds no bar, every ticker gets a
  `no_data` result, and nothing is downloaded before Tuesday.
* A command that is not given for longer than the lookback leaves a hole in the US tables; HK bars
  arrive a day late; a steady rhythm of runs during the session stores partial intraday days that
  are never completed, since the next start is the day after.
* A failure of SP500's or HSI's updater after the snapshot's commit and before that of the
  changes loses the changes: later runs of the day stop at the snapshot, the next day's
  compares with it.
* Purging an index between the transactions of one of its updaters leaves changes, stocks and an ok
  entry without a snapshot, until the next purge.
* Two flushes of one buffer file replay each other's rows: the NAS may go back to an older
  value of a key although each statement is idempotent (the design document of the buffer
  calls repeated replay harmless). Nothing is lost (`NoLostWrite`), and the next
  collection of the key repairs it.
* The marks of a forced run (`futu full`) that raises stay in the buffer and get the time of the
  next run's flush. What was asked for again while its mark was still fresh is stamped a
  day or more late, and is next asked for up to two periods after (`cut` in `AttemptedInTime`).
* `_ensure_ctx` may open two contexts (above).
* A US ticker whose first download is `prices rebase` without `--years` has five years of
  history, and no increment fetches the years before, while the README says "2010年起".
* The rebase of the CN ETFs writes with `INSERT IGNORE`: a row that is there stays, also one that
  was stored without adjustment because the factors were missing that day.
* Prices and marks that `tushare` has buffered and that are flushed days later take `last_date` back,
  and overwrite rows of a newer basis; `OkMeansStored` holds all the same, and the next
  daily run asks again from there.
* The first `tushare sync` derives nothing and asks for no valuations, since its phases do not see the
  rows that it has buffered itself; the second one does (`EventuallyDerived`).
* Announcements that are published on the day of `MAX(ann_date)`, after the run, are not
  asked for again, nor are days and windows that failed before a later one succeeded, nor, after a
  `--start`, the days before it (`HolesAreFailures` says that nothing else is missing). A first
  `tushare sync --scope valuation --start 20200101` leaves everything before 2020 out for good, until somebody
  gives an earlier start.
* The bar of the CN weekly run and the derived one have the same key when the week ends on a Friday
  (`2026-05-21-cn-weekly-design.md:64`). A derivation that is buffered before the end of the week and
  flushed after the weekly run takes the complete bar back to fewer days. The next derivation
  repairs it (`EventuallyDerived`); among derived bars alone it cannot happen (`DerivedGrows`).
* List dates are issued for BJ stocks and for delisted ones, which the lists never insert: these
  updates change nothing, as the docstring of `backfill_stock_dates` says.

## The proofs

| theorem | says | module |
|---|---|---|
| `TypeCorrect` | `Spec => []TypeOK` | `LocalBufferProofs` |
| `NothingLost` | `Spec => []NoLostWrite` | `LocalBufferProofs` |
| `OkIsDelivered` | `Spec => []OkMeansDelivered` | `LocalBufferProofs` |
| `NasIsPrefix` | with one process and one worker `Spec => []PrefixConsistent` | `LocalBufferProofs` |
| `RejectedStops` | with one process and one worker `Spec => []PoisonNotSkipped` | `LocalBufferProofs` |
| `BufferIsQueue` | with one process and one worker `Spec => ImplementsQueue` | `LocalBufferProofs` |
| `DrainedLeavesAll` | with one process, and several workers on independent rows only, `Spec => []DrainedIsCurrent` | `LocalBufferProofs` |
| `LimiterSafe` | `Spec => []LimiterInv` | `FutuTurnProofs` |
| `LimitsKept` | `Spec => PermitsSpaced` | `FutuTurnProofs` |
| `TurnsUseClient` | the turns implement the client, `TurnSpec => Spec` | `FutuTurnProofs` |
| `TurnsLimiterSafe`, `TurnsLimitsKept` | `LimiterInv` and `PermitsSpaced` under all turns | `FutuTurnProofs` |
| `OkTurnsWhole`, `TablesWhole` | `TurnSpec => []OkMeansWhole`, `TurnSpec => []AllOrNothing` | `FutuTurnProofs` |
| `SyncTypeOK` | `Spec => []TypeOK` | `FutuSyncProofs` |
| `DatesAreFilled` | `Spec => []DatesFilled` | `FutuSyncProofs` |
| `EverythingIsAttempted` | `Spec => []AttemptedInTime` | `FutuSyncProofs` |
| `RowsBeforeMarks` | `Spec => []MarkedHasRows` | `FutuSyncProofs` |
| `FailedIsAskedAgain` | `Spec => FailedIsRetried` | `FutuSyncProofs` |
| `DailyTypeOK` | `Spec => []TypeOK` | `DailyCommandProofs` |
| `CnTargetIsClosed` | `Spec => []CnTargetClosed` | `DailyCommandProofs` |
| `FinishedByDay` | `Spec => UnfinishedOnlyAtNight` | `DailyCommandProofs` |
| `CatchesUp` | with `Punctual` in every state `[]CaughtUp` | `DailyCommandProofs` |
| `OtherFeedsCatchUp` | with `feed # "us"` in every state `[]CaughtUp` | `DailyCommandProofs` |
| `SoonCatchesUp` | on clocks that end within the lookback `Spec => []CaughtUp` | `DailyCommandProofs` |
| `UsTypeCorrect`, `UsMarksStored` | for natural depths `Spec => []TypeOK`, `Spec => []MarksStored` | `UsPricesProofs` |
| `UsHistoryWhole` | with `Depths`, `Regular` and `~ Torn`, `Spec => []NoHoles` | `UsPricesProofs` |
| `PriceTypeOK`, `FeedsAreInOrder` | `Spec => []TypeOK`, `Spec => []FeedInv` | `PriceRunsProofs` |
| `MarksHaveBars`, `HistoriesWhole` | `Spec => []OkMeansStored`, and under `UsAssumption` (and the intraday window) `Spec => []NoHoles`, in every feed | `PriceRunsProofs` |
| `ReportsAreTrue`, `RebasesFixDrift` | `Spec => []ReportedIsSaved`, `Spec => []RebaseFixesDrift` | `PriceRunsProofs` |
| `FeedsKeepHistory` | under the same conditions every feed refines the abstract history, `Spec => KeepsHistory` | `PriceRunsProofs` |
| `BasesAscend` | no bar on an older basis than one of an earlier day, `Spec => []Ascending` | `PriceRunsProofs` |
| `RunsConsistent` | `Spec => []RunsInv` | `IndexSnapshotProofs` |
| `ChangesAreSound`, `UniverseIsWhole`, `OkIsWritten`, `OneTxAlwaysRegistered` | `Spec => []` of `ChangesSound`, `UniverseWhole`, `OkMeansWritten`, `OneTxRegistered` | `IndexSnapshotProofs` |
| `TushareTypeOK`, `TushareMarksStored` | `Spec => []TypeOK`, `Spec => []OkMeansStored` | `TushareSyncProofs` |
| `HolesHaveFailed`, `DatesReachStocks` | `Spec => []HolesAreFailures`, `Spec => []DatesFollowStocks` | `TushareSyncProofs` |
| `DerivedBarsGrow` | `Spec => DerivedGrows` | `TushareSyncProofs` |

They hold for every value of the constants, under the assumptions named in the modules
that declare them (any number of processes, workers, statements, threads, methods, intervals,
streams, tickers, indices, and any length of the clocks; the sets need not be finite but where an
assumption says so, as `TickerAssumption` does for the batches of `PriceRuns`). Where a theorem
needs more, its `ASSUME` or its hypothesis says so.

*Nothing is lost.* `NoLostWrite` is not inductive: a worker deletes by key from a list it read
earlier. `BufferInv` adds that a key names one row among those in the file and those any
flush still remembers (`OneRowPerKey`, which needs `AUTOINCREMENT`: with "largest key plus
one" it fails, and so does the property), and that the row a worker is about to delete has
been committed (`CommittedIsApplied`). For `OkMeansDelivered`, `FlushInv` says that a row that a flush has
read, unless a worker of it has failed, is delivered and gone or still to do by one of its
workers; that the chunks cover all rows (`ChunksCover`) is a lemma about `Chunks`, whose arithmetic
is `ChunkOf`.

*The NAS is a prefix.* `SequentialInv` says where a single sequential flush can be: keys are
the positions of the writes, the rows it has left begin where the file begins, the applied
writes are `1..n`, and at most the last of them is still in the file. The only replay is
then that of the last write, and `ApplyTwice` (a lemma over the four statements) makes it a
stutter. The refinement follows: a commit is the queue's `Deliver` or changes nothing.
`FirstChunk` is the lemma about `Chunks` it needs. `RejectedStops` combines the prefix with
`AppliedIsAccepted`: what was applied is never a rejected statement.

*Any order ends the same.* For parallel flushes no prefix is on the NAS. `ReplayInv` says instead what
the waiting rows would still do: `Replays(f)` has for each position the tables `f[i]` that come of executing
the waiting rows before it, from the NAS (`f[1]`) to what all writes leave (the last one). A commit ahead
of its turn changes every table before its row by that row, which is possible since the rows before it
are independent of it (`ApplyCommutes`) and a second execution changes nothing (`ApplyTwice`); a
row that has been committed and is deleted had nothing left to change. Either the rows of a flush are all
independent or it has one worker and takes them from the first one (`NextIsFree`). No induction is
needed, as the tables are carried along; with an empty buffer they are all the same.

*The limits are kept.* `LimiterInv`: whoever sleeps in a limiter holds its lock, so `since` is
not reset behind his back, and what he has left to sleep covers what is missing of the
interval; `Tick` changes both by one. `JobsInv` (a turn's method is one of the client's) is all
that is needed to show that every step of a turn is a step of the client or leaves it alone; the
two theorems carry over.

*Turns.* `TurnInv` has for each turn the `Stage` of its loop, on the values of one thread: with pages, the
tables before the current one are written and everything before the cursor has been read
(`PagesInv`); with periods, each one before the next request was got or is missed (`PeriodsInv`);
with batches, each ticker that the server knows was got or is in a chunk still to be asked for
(`BatchInv`, with `ChunksCover` for the first chunks and `ChunkHalved` for the halves). A loop that has nothing
left to ask has then read all that is wanted (`TableEnds`, `PeriodGot`, `ChunkDone`), or all but what it has missed (`PagesCut`,
`PeriodsUnread`, `PeriodMissed`, `ChunkPassed`).
The lemmas about loops speak of values, not of states, and `GoesKeeps` and `LeavesKeeps` carry them
over to the thread.

*Rows before marks.* `MarkedHasRows` is not inductive, since marks wait in the buffer. `Backed(buffer)`
adds that the rows of every buffered ok mark are on the NAS or before it in the buffer. A turn
appends rows and mark in that order, a kill any prefix of them, a delivery takes the
first write: each keeps it (`PrefixOwnRows`, `ConcatBacked` and the lemma about the first write). For
`FailedIsRetried`, `MarksOfErred` says that the last mark of what has failed is an error mark, in
the buffer or, when none is buffered, in `sync_log`.

*Dates.* `DatesFilled` speaks of the end of a flush, when the buffer is empty. `DatesInv` says it for
every state in which the run is past the earnings phase (`PastEarnings`): after each row of a
statement or an announcement in the buffer there still comes an `UPDATE`, or there is no such row
left and what is on the NAS has its date. Leftovers of runs that were killed are in it as well:
the `UPDATE` at the end of the phase is buffered after all of them, which is why the last run need
not have collected anything.

*In time.* `AttemptedInTime` compares days on which something was asked for with a test that reads
the stamps of marks, which are made later. `TimeInv` (of the states in which nothing has failed)
has `StampsInv`, that a stamp is no later than the end of the day of the last call, or of the last
run that left the stream out, or a period more after a forced run that raised; `MarksInv`, that a
ticker with a mark in the buffer is not fresh unless it was asked for by force; and `OverInv`, that
a ticker whose period is over has no mark in the buffer, or waits for its turn in the run.
The third case of the property was missing before the proof was tried: `OverInv` was not
inductive, and the state that showed it is reachable.

*Tushare.* A row of the buffer may be executed long after what it was computed from has
changed, and twice. `OrderInv` is stated for the buffer as a list: what a row needs on the NAS (the
stock of a list date, the bar of a mark, the days before a day, unless one of them failed or comes
before a start) is there or in a row before it (`DatesBacked`, `MarksBacked`, `DaysInOrder` with
`Asked`), derived rows of one ticker never shrink, from the one on the NAS to the last that waits
(`WeeklyRises`; a bar of the weekly run is not in this order), and
what a run has still to do follows all of it. Every step either adds rows, or removes
one, or repeats one, or is a daily or a weekly run (lemma `StepKinds`), and each part of the
invariant is shown for these kinds.

*Hours.* `CnTargetIsClosed` is arithmetic over the weeks, with the past first week. `FinishedByDay`
shows for every step that the days it asks for are over unless the hour is before 5:00, or the
feed is the intraday one.

*No holes.* `NoHoles` depends on how far back an answer reaches. `HistoryInv` has `Recent`, that the last
bar of a ticker lags by no more than the lookback and a session (what `Regular` asks for); `Early`,
that its history begins with the first day or so early that every later download begins
within it; and `FirstStart` and `SecondStart`, that a run still begins early enough for the tickers
it has left. With `Torn` writes it is false, which is what `us_torn` shows.
`Regular` is an assumption about the operator, and whole writes are one about the NAS; nothing in the code
ensures either. In `UsHistoryWhole` both are hypotheses, in `PriceRuns` they are `UsAssumption`.

*All feeds.* `FeedInv` of `PriceRuns` has a case for each feed. They share `Tables`: every ok mark has
its bar and no history a hole. What a step adds is an interval, and `GrownIsWhole` says when it
leaves no hole: when it begins no later than the day after a stored one (`Reaches`) and ends with or after
the last. That no ticker still to be downloaded has fallen behind its start is the rest of
each case. HK and CN start within the history of a ticker, since `IsLast` finds a stored day
(`LastIsStored`, which needs the marks). CN has its buffers besides: every entry fits the table
(`Buffer`, with one entry for a ticker at most), the groups and the buffers have no ticker in
common, and who was reported is marked or has an ok entry (`Told`), which a flush of all
entries turns into marks (`CnCommitted`). An intraday batch starts with the earliest of its starts, and
no ticker has fallen out of the window (`InWindow`, the scope of the module). For the rebases
`OneBasis` must hold while later increments overwrite a part: they are all of the basis that the
source has now, and a dividend takes a ticker out of `rebased` (`RowsOnBasis`, `DividendsPaid`). The
two US feeds take over the proofs of `UsPrices`, by instances of its proof module.

*One history.* That every feed refines `BarHistory` needs `FeedInv` and, for the feeds that `INSERT IGNORE`,
`Flat`: all their bars are of the first basis, so that a row that stays is what a row written again would
be. Their steps add rows where there are none (`StepAdds`, `InsertAdds`), and what they add leaves no hole;
all of a history without holes is an end of it (`FlatWrites`, with the first and last day of `EndsOfDays`).
An answer of HK, and the entry of a ticker in a flush of CN, write an end because the start
reaches the history and the answer passes it (`HkWrites`, `FlushWrites`). `BasesAscend` is proved of
`BarHistory` alone (`HistoryAscends`) and holds of every feed by the refinement.

*Caught up.* `CaughtUp` follows what one command after the other has downloaded of a feed.
`CaughtInv` adds that what is stored has no gaps, that the day the probe has found is not before
anything that was over when the command began, and that what a step has downloaded covers it. A
US command that begins more than the lookback after the last stored bar leaves a hole, so the theorem
needs `Punctual` (the target is within the lookback of the last bar, weekends apart); the other
feeds need nothing of the kind, and `SoonCatchesUp` says the same of any clock short enough, such
as that of the run.

*Indices.* `RunsInv` says what every run knows: `RunDates` (a run dates its work after the last snapshot,
and two runs at a time are of today), `SnapshotDates` and `ListsOfSnapshot` (a snapshot is the union of
the lists it was written from), `SnapshotSaved`, `ChangesRecorded` and `StocksRegistered` (what a run's earlier
transactions have left, while it is not `torn`), and `PrevIsLast`, the heart of it: nothing
lies between the snapshot that a run read as the last and its own, although other runs may have
written meanwhile and purges may have come between. `OverlapInv` is for the one
list of a day: on a day of an index without overlap, whoever has not saved yet finds no snapshot
of his day, and nobody else is at work on it. The facts about a largest date, here
and for the prices, come from the well-foundedness of the naturals.

Every invariant that a passing run checks is proved, and the action properties and the two refinements
with them. Only model-checked is everything about liveness (`EventuallyDelivered`,
`TurnEnds` with `EveryCallEnds`, `EventuallyCurrent`, `EventuallyStored`, `EventuallyDerived`), which TLAPS does
not prove, as it does not prove anything about ENABLED or about data by induction.

## What is not modelled

The contents of rows (fields, conversions, adjusted prices), the parsing of lists and
answers, HTTP, logging and progress bars, the connection pool, and the parts marked
`not_modelled` in `PROJECT.json`. Public holidays and daylight-saving time (in
summer New York closes at 4:00 in Beijing) are unknown to the code and to the model. The weekly CN run is a step of `TushareSync`, and no feed of `PriceRuns` or
`DailyCommand`; the Tushare phases of the financial statements and of the dividends, which ask for
everything each time, are left out.

Outside the models' scope: overlapping runs of the Futu collection, overlapping price runs of
one market, index runs that overlap across midnight, and `tushare full` at the same
time as another command of its kind. `DailyRun` in `TushareSync` is one step, and its week has no holiday.

## The plan

Done so far, in this order: the buffer and its theorems, the Futu client and its theorems, the
collection, the price store with its updaters, the target dates, the index constituents, the
Tushare backfill; then the turns of the streams, the phases of the collection, the commands by the
hour, purges, and theorems for parallel flushes, the turns, the collection, the commands, the prices of all feeds,
the indices and the Tushare backfill, and the history that all feeds refine. What is left, in order of weight:

1. The weekly CN run as a feed of `PriceRuns`; both intraday intervals in one command.
2. The remaining Tushare phases, with the budget of calls.
3. Two daily price runs of one market at a time, and a `DailyRun` of many steps in `TushareSync`.
