------------------------------ MODULE FutuSync ------------------------------
(***************************************************************************)
(* The Futu collection (apis/futu/orchestrator.py, concurrency.py,         *)
(* sync.py, snapshot_daily.py) and the throttle it runs by: a stream skips *)
(* the tickers whose last successful collection is younger than the        *)
(* stream's refresh period.                                                *)
(*                                                                         *)
(* A run is one "futu sync" of a scope, or "futu full" with force.  Its    *)
(* phases follow one another; the streams of a phase run concurrently.  A  *)
(* stream first reads the fresh tickers from sync_log on the NAS, then     *)
(* calls the API for the others, one after the other, and writes the rows  *)
(* and a mark for each.  The earnings phase ends with the UPDATE that puts *)
(* the announcement dates into the financial rows.  All writes go to the   *)
(* buffer, as a queue (module WriteQueue, which LocalBuffer implements),   *)
(* and reach the NAS when the buffer is flushed after the fetch; the NAS   *)
(* stamps a mark with its own clock at that moment.                        *)
(*                                                                         *)
(* The clock counts Day ticks to the day; cron starts a run at tick 0.     *)
(***************************************************************************)
EXTENDS Naturals, Sequences, FiniteSetsExt

CONSTANTS
  Ticker,         \* the tickers, and "__ALL__" for the streams of batches
  Stream,         \* the interfaces (data_type)
  BatchStream,    \* those that are one batch under a sentinel (sync_shares)
  Financial,      \* the stream of the four financial tables
  Earnings,       \* the stream of the announcement dates
  Phases,         \* the order in which run_sync goes through the streams
  Runs,           \* the runs that are started: a set of phases, and force
  Tickers,        \* the tickers of each stream
  Refresh,        \* FUTU_REFRESH_DAYS of each stream
  Results,        \* what a turn of each stream may end with
  Failures,       \* bound: how often a run is missed or killed, or a flush fails
  Day,            \* ticks of a day
  LastDay         \* bound: the last day of the clock

ASSUME StreamAssumption ==
  /\ Ticker # {} /\ BatchStream \subseteq Stream
  /\ Tickers \in [Stream -> SUBSET Ticker]
  /\ Refresh \in [Stream -> Nat \ {0}]
  /\ {Financial, Earnings} \subseteq Stream
  /\ \A s \in BatchStream : \E t \in Ticker : Tickers[s] = {t}
  /\ Phases \in Seq(SUBSET Stream)
  /\ Runs \subseteq ((SUBSET (1..Len(Phases))) \ {{}}) \X BOOLEAN
(* A stream belongs to one phase, and the earnings do not come before the  *)
(* financial statements.                                                   *)
ASSUME PhaseAssumption ==
  /\ \A s \in Stream : \E p \in DOMAIN Phases :
       \A q \in DOMAIN Phases : s \in Phases[q] <=> q = p
  /\ \A p, q \in DOMAIN Phases : Financial \in Phases[p] /\ Earnings \in Phases[q] => p <= q
ASSUME ResultAssumption ==
  \A s \in Stream :
    Results[s] \subseteq IF s = Financial THEN {"rows", "nothing", "error", "part"}
                        ELSE {"rows", "nothing", "error"}
ASSUME TimeAssumption == Day \in Nat \ {0} /\ LastDay \in Nat /\ Failures \in Nat

VARIABLES
  now,        \* the clock
  syncLog,    \* sync_log on the NAS, by stream and ticker
  rows,       \* the dates for which the NAS has rows, by stream and ticker
  dated,      \* the dates of the financial rows that have an ann_date
  buffer,     \* the buffered writes
  phase,      \* of the run: "idle", "fetch", "flush"
  scope,      \* its phases; {} in a flush by hand
  at,         \* the phase it is in
  forced,     \* its force
  started,    \* the day of the last run
  unread,     \* the streams that have not read sync_log yet
  todo,       \* by stream: the tickers it still has to collect
  raised,     \* whether a batch stream raised an exception
  called,     \* history: the day of the last call, by stream and ticker
  missed,     \* history: the day of the last run that did not get to a stream
  cut,        \* history: the day of the last forced run that raised
  erred,      \* history: the streams and tickers whose last mark is an error
  failures    \* history: how often a run was missed or killed or a flush failed

nasVars  == <<syncLog, rows, dated>>
runVars  == <<phase, scope, at, forced, started, unread, todo, raised>>
histVars == <<called, missed, cut, erred, failures>>
vars     == <<now, nasVars, buffer, runVars, histVars>>

today == now \div Day

PerTicker(S) == [Stream -> [Ticker -> S]]

Never == [status |-> "none", date |-> 0, added |-> 0, run |-> 0]

LogEntry == [status : {"none", "ok", "error"}, date : Nat, added : 0..1, run : Nat]

(* A buffered write: the rows of a day for a ticker, a mark, or the UPDATE *)
(* of the announcement dates.                                              *)
Write == [kind : {"rows", "ok", "error", "dates"}, stream : Stream, ticker : Ticker,
          date : Nat, added : 0..1]

TypeOK ==
  /\ now     \in Nat
  /\ syncLog \in PerTicker(LogEntry)
  /\ rows    \in PerTicker(SUBSET Nat)
  /\ dated   \in [Ticker -> SUBSET Nat]
  /\ buffer  \in Seq(Write)
  /\ phase   \in {"idle", "fetch", "flush"} /\ forced \in BOOLEAN
  /\ scope   \subseteq 1..Len(Phases) /\ at \in Nat
  /\ started \in Nat /\ unread \subseteq Stream
  /\ todo    \in [Stream -> SUBSET Ticker] /\ raised \in BOOLEAN
  /\ called  \in PerTicker(Nat) /\ missed \in [Stream -> Nat] /\ cut \in Nat
  /\ erred   \subseteq Stream \X Ticker
  /\ failures \in Nat

(* Day 0 is the day before the first run.                                  *)
Init ==
  /\ now = 0
  /\ syncLog = [s \in Stream |-> [t \in Ticker |-> Never]]
  /\ rows = [s \in Stream |-> [t \in Ticker |-> {}]]
  /\ dated = [t \in Ticker |-> {}]
  /\ buffer = <<>>
  /\ phase = "idle" /\ scope = {} /\ at = 0 /\ forced = FALSE /\ started = 0
  /\ unread = {} /\ todo = [s \in Stream |-> {}] /\ raised = FALSE
  /\ called = [s \in Stream |-> [t \in Ticker |-> 0]]
  /\ missed = [s \in Stream |-> 0] /\ cut = 0
  /\ erred = {}
  /\ failures = 0
-----------------------------------------------------------------------------
(***************************************************************************)
(* The clock and cron.                                                     *)
(***************************************************************************)
CronDue == now % Day = 0 /\ started < today

(* Time passes, but not past a run that is due, and a run that started on  *)
(* a day is over when the day is.                                          *)
Tick ==
  /\ ~ CronDue
  /\ (now + 1) % Day = 0 => phase = "idle" /\ today < LastDay
  /\ now' = now + 1
  /\ UNCHANGED <<nasVars, buffer, runVars, histVars>>

(* The streams of the phases that no run of the day will get to.           *)
PassedBy(phases) ==
  [s \in Stream |-> IF \E p \in phases : s \in Phases[p] THEN today ELSE missed[s]]

(* Cron starts the run of the day.                                         *)
StartRun(wanted, force) ==
  /\ CronDue /\ phase = "idle"
  /\ phase' = "fetch" /\ scope' = wanted /\ at' = Min(wanted)
  /\ forced' = force /\ started' = today
  /\ unread' = Phases[at'] /\ todo' = [s \in Stream |-> {}] /\ raised' = FALSE
  /\ missed' = PassedBy(DOMAIN Phases \ wanted)
  /\ UNCHANGED <<now, nasVars, buffer, called, cut, erred, failures>>

(* The NAS cannot be reached at the start: run_sync raises in              *)
(* list_us_tickers, before anything is collected.                          *)
MissRun ==
  /\ CronDue /\ phase = "idle" /\ failures < Failures
  /\ started' = today /\ failures' = failures + 1
  /\ UNCHANGED <<now, nasVars, buffer, phase, scope, at, forced, unread, todo,
                 raised, called, missed, cut, erred>>
-----------------------------------------------------------------------------
(***************************************************************************)
(* The streams.                                                            *)
(***************************************************************************)

\* Mutation of Fresh: the status is not looked at.
MutFresh(s, t) ==
  syncLog[s][t].status # "none" /\ syncLog[s][t].run + Refresh[s] * Day > now

\* Mutation of Fresh: what was collected or skipped once stays fresh.
MutFreshForever(s, t) == syncLog[s][t].status = "ok"

(* fresh_tickers: status='ok' AND last_run > NOW() - INTERVAL n DAY.       *)
Fresh(s, t) ==
  syncLog[s][t].status = "ok" /\ syncLog[s][t].run + Refresh[s] * Day > now

(* The stream reads sync_log, once.                                        *)
ReadFresh(s) ==
  /\ phase = "fetch" /\ s \in unread
  /\ unread' = unread \ {s}
  /\ todo' = [todo EXCEPT ![s] = {t \in Tickers[s] : forced \/ ~ Fresh(s, t)}]
  /\ UNCHANGED <<now, nasVars, buffer, phase, scope, at, forced, started, raised,
                 histVars>>

RowsOf(s, t) ==
  [kind |-> "rows", stream |-> s, ticker |-> t, date |-> today, added |-> 0]

(* mark_ok, with the number of rows; mark_ok or mark_skip, for an empty    *)
(* answer or a ticker the API does not support: ok with no rows;           *)
(* mark_error.                                                             *)
MarkOf(s, t, r) ==
  [kind |-> IF r \in {"error", "part"} THEN "error" ELSE "ok",
   stream |-> s, ticker |-> t, date |-> today,
   added |-> IF r = "rows" THEN 1 ELSE 0]

RowsIn(s, t, r) == IF r \in {"rows", "part"} THEN <<RowsOf(s, t)>> ELSE <<>>

\* Mutation of Writes: marked before the rows are written.
MutWrites(s, t, r) == <<MarkOf(s, t, r)>> \o RowsIn(s, t, r)

(* What a turn writes (module FutuTurn has it in detail): rows and mark;   *)
(* an error after some of the financial tables leaves their rows.          *)
Writes(s, t, r) == RowsIn(s, t, r) \o <<MarkOf(s, t, r)>>

(* The history after the mark of a result.                                 *)
Marked(s, t, r) ==
  IF r \in {"error", "part"} THEN erred \cup {<<s, t>>} ELSE erred \ {<<s, t>>}

CallApi(s, t) ==
  /\ phase = "fetch" /\ s \notin unread /\ t \in todo[s]
  /\ called' = [called EXCEPT ![s][t] = today]

(* One turn of ticker_stream: the result is written and marked.  A batch   *)
(* in which only unsupported codes fail is isolated by bisection and ends  *)
(* with rows or nothing.                                                   *)
Collect(s, t, r) ==
  /\ CallApi(s, t)
  /\ erred' = Marked(s, t, r)
  /\ s \in BatchStream => r \in {"rows", "nothing"}
  /\ buffer' = buffer \o Writes(s, t, r)
  /\ todo' = [todo EXCEPT ![s] = @ \ {t}]
  /\ UNCHANGED <<now, nasVars, phase, scope, at, forced, started, unread, raised,
                 missed, cut, failures>>

(* Any other error of a batch leaves sync_shares as an exception: no mark. *)
BatchRaises(s, t) ==
  /\ s \in BatchStream /\ "error" \in Results[s]
  /\ CallApi(s, t)
  /\ raised' = TRUE
  /\ todo' = [todo EXCEPT ![s] = {}]
  /\ UNCHANGED <<now, nasVars, buffer, phase, scope, at, forced, started, unread,
                 missed, cut, erred, failures>>

StreamsDone ==
  phase = "fetch" /\ unread = {} /\ \A s \in Stream : todo[s] = {}

Later == {p \in scope : p > at}

Dates == [kind |-> "dates", stream |-> Earnings, ticker |-> CHOOSE t \in Ticker : TRUE,
          date |-> 0, added |-> 0]

\* Mutation of PhaseWrites: the dates are only updated if any were collected.
MutPhaseWrites ==
  IF Earnings \in Phases[at] /\ \E i \in DOMAIN buffer : buffer[i].stream = Earnings
  THEN <<Dates>> ELSE <<>>

(* run_pit_backfill follows the earnings stream, whatever it has collected.*)
PhaseWrites == IF Earnings \in Phases[at] THEN <<Dates>> ELSE <<>>

(* run_streams waits for every stream; the next phase of the scope begins. *)
PhaseEnds ==
  /\ StreamsDone /\ ~ raised /\ Later # {}
  /\ at' = Min(Later) /\ unread' = Phases[at']
  /\ buffer' = buffer \o PhaseWrites
  /\ UNCHANGED <<now, nasVars, phase, scope, forced, started, todo, raised, histVars>>

(* run_sync returns, and the flush follows.                                *)
FetchEnds ==
  /\ StreamsDone /\ ~ raised /\ Later = {}
  /\ buffer' = buffer \o PhaseWrites
  /\ phase' = "flush" /\ at' = 0 /\ forced' = FALSE
  /\ UNCHANGED <<now, nasVars, scope, started, unread, todo, raised, histVars>>

(* It raises when the streams of the phase are done: the later phases are  *)
(* left out, and the flush is left to the next run or to "futu flush".     *)
RunRaises ==
  /\ StreamsDone /\ raised
  /\ phase' = "idle" /\ scope' = {} /\ at' = 0 /\ raised' = FALSE /\ forced' = FALSE
  /\ missed' = PassedBy(Later) /\ cut' = IF forced THEN today ELSE cut
  /\ UNCHANGED <<now, nasVars, buffer, started, unread, todo, called, erred, failures>>

(* The process is killed while it collects a ticker, after a part of what  *)
(* it has to write for it.                                                 *)
Killed(s, t, r) ==
  /\ failures < Failures
  /\ CallApi(s, t)
  /\ \E n \in 0..Len(Writes(s, t, r)) :
       /\ buffer' = buffer \o SubSeq(Writes(s, t, r), 1, n)
       /\ erred' = IF n < Len(Writes(s, t, r)) THEN erred ELSE Marked(s, t, r)
  /\ phase' = "idle" /\ scope' = {} /\ at' = 0 /\ forced' = FALSE
  /\ unread' = {} /\ todo' = [u \in Stream |-> {}] /\ raised' = FALSE
  /\ failures' = failures + 1
  /\ UNCHANGED <<now, nasVars, started, missed, cut>>
-----------------------------------------------------------------------------
(***************************************************************************)
(* The flush.                                                              *)
(***************************************************************************)
FlushCommand ==
  /\ phase = "idle" /\ buffer # <<>>
  /\ phase' = "flush"
  /\ UNCHANGED <<now, nasVars, buffer, scope, at, forced, started, unread, todo, raised,
                 histVars>>

\* Mutation of Stamp: rows_added adds up while there are rows.
MutStamp(w, old) ==
  [status |-> w.kind,
   date   |-> IF w.kind = "ok" \/ old.status = "none" THEN w.date ELSE old.date,
   added  |-> IF w.added = 0 THEN 0 ELSE old.added + w.added, run |-> now]

(* The sync_log row a mark leaves: last_date is only replaced by an ok     *)
(* mark or in a new row, last_run is the time of the NAS.                  *)
Stamp(w, old) ==
  [status |-> w.kind,
   date   |-> IF w.kind = "ok" \/ old.status = "none" THEN w.date ELSE old.date,
   added  |-> w.added, run |-> now]

(* The UPDATE ... JOIN: a financial row gets its date if the announcements *)
(* collected on that day or later are there.                               *)
WithDates(t) ==
  {d \in rows[Financial][t] : \E e \in rows[Earnings][t] : e >= d}

Deliver ==
  /\ phase = "flush" /\ buffer # <<>>
  /\ LET w == Head(buffer)
     IN  \/ /\ w.kind = "rows"
            /\ rows' = [rows EXCEPT ![w.stream][w.ticker] = @ \cup {w.date}]
            /\ UNCHANGED <<syncLog, dated>>
         \/ /\ w.kind \in {"ok", "error"}
            /\ syncLog' = [syncLog EXCEPT ![w.stream][w.ticker] = Stamp(w, @)]
            /\ UNCHANGED <<rows, dated>>
         \/ /\ w.kind = "dates"
            /\ dated' = [t \in Ticker |-> dated[t] \cup WithDates(t)]
            /\ UNCHANGED <<syncLog, rows>>
  /\ buffer' = Tail(buffer)
  /\ UNCHANGED <<now, runVars, histVars>>

FlushEnds ==
  /\ phase = "flush" /\ buffer = <<>>
  /\ phase' = "idle" /\ scope' = {}
  /\ UNCHANGED <<now, nasVars, buffer, at, forced, started, unread, todo, raised,
                 histVars>>

(* An exception, or the process is killed: what is left stays buffered.    *)
FlushFails ==
  /\ phase = "flush" /\ failures < Failures
  /\ phase' = "idle" /\ scope' = {} /\ failures' = failures + 1
  /\ UNCHANGED <<now, nasVars, buffer, at, forced, started, unread, todo, raised,
                 called, missed, cut, erred>>
-----------------------------------------------------------------------------
Next ==
  \/ Tick \/ MissRun \/ \E run \in Runs : StartRun(run[1], run[2])
  \/ \E s \in Stream : ReadFresh(s)
  \/ \E s \in Stream, t \in Ticker :
       \/ \E r \in Results[s] : Collect(s, t, r) \/ Killed(s, t, r)
       \/ BatchRaises(s, t)
  \/ PhaseEnds \/ FetchEnds \/ RunRaises \/ FlushCommand \/ Deliver \/ FlushEnds \/ FlushFails

Spec == Init /\ [][Next]_vars
-----------------------------------------------------------------------------
(***************************************************************************)
(* Properties.                                                             *)
(***************************************************************************)

(* What sync_log calls ok with rows is there: the rows of last_date are on *)
(* the NAS before the mark is, across runs killed between the two and      *)
(* flushes cut off anywhere.                                               *)
MarkedHasRows ==
  \A s \in Stream, t \in Ticker :
    syncLog[s][t].status = "ok" /\ syncLog[s][t].added > 0 =>
      syncLog[s][t].date \in rows[s][t]

(* A ticker whose last collection failed is not skipped by the next run,   *)
(* once the mark is delivered, however fresh an earlier success is.        *)
FailedIsRetried ==
  [][\A s \in Stream : ReadFresh(s) /\ buffer = <<>> =>
       \A t \in Tickers[s] : <<s, t>> \in erred => t \in todo'[s]]_vars

(* While no run is missed and no flush fails, every ticker was asked for   *)
(* within the refresh period once the run of a day is over, whatever the   *)
(* answers were, unless a run of that time did not get to the stream: its  *)
(* scope leaves it out, or a batch of an earlier phase raised.  What is    *)
(* not supported is tried again when the period is over.  Marks that wait  *)
(* for a later flush look younger than they are.  They do not where the    *)
(* stream is called until then; but a forced run calls what is still       *)
(* fresh, and when it raises, its marks may wait for as long as that stays *)
(* so: it may then be another period before the next call.                 *)
AttemptedInTime ==
  failures = 0 /\ phase # "fetch" /\ started = today /\ today > 0 =>
    \A s \in Stream : \A t \in Tickers[s] :
      \/ called[s][t] + Refresh[s] >= today
      \/ missed[s] > 0 /\ missed[s] + Refresh[s] >= today
      \/ called[s][t] \in 1..cut /\ called[s][t] + 2 * Refresh[s] >= today

(* When a run with the earnings phase has been flushed, every financial    *)
(* row whose announcement is there has its date: those of earlier runs     *)
(* that were killed, raised or had another scope too, and also when the    *)
(* earnings themselves were fresh and not collected.                       *)
DatesFilled ==
  phase = "flush" /\ buffer = <<>> /\ (\E p \in scope : Earnings \in Phases[p]) =>
    \A t \in Ticker : WithDates(t) \subseteq dated[t]

(* The interfaces that only return current values are collected every day: *)
(* what is not taken on a day is missing for ever.                         *)
DailyCollected ==
  phase = "flush" /\ started = today /\ buffer = <<>> =>
    \A s \in Stream : Refresh[s] = 1 => \A t \in Tickers[s] : today \in rows[s][t]
=============================================================================
