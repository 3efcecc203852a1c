------------------------------ MODULE CnPrices ------------------------------
(***************************************************************************)
(* A-share prices (apis/tushare/prices_cn_batch.py): one request a ticker, *)
(* rows and marks collected and committed together, upserts of adjusted    *)
(* prices.  A dividend changes all prices of a ticker; what the source     *)
(* answers from then on is of a new basis.                                 *)
(***************************************************************************)
EXTENDS PriceStore

CONSTANTS
  CommitSize,     \* BATCH_COMMIT_SIZE
  RebaseDays,     \* --years, in days
  Dividends       \* bound: the dividends that each ticker pays

VARIABLES
  today,          \* the last closed session
  basis,          \* of what the source answers
  prices, log,    \* the tables
  phase,          \* "idle", or the group of the run: "new", then "pending"
  todo, start,    \* the tickers left in each group, and where each starts
  buf,            \* prices_buf and sync_buf
  reported,       \* the tickers whose result is "ok" (history)
  rebased         \* the tickers wholly downloaded since their last dividend (history)

vars == <<today, basis, prices, log, phase, todo, start, buf, reported, rebased>>

Group == {"new", "pending"}

(* What one ticker leaves in the buffers: its mark, and the rows from      *)
(* start to last if the mark is ok.                                        *)
Entry == [ticker : Ticker, start : Day, last : Day, status : {"ok", "error"}]

TypeOK ==
  /\ today    \in Day
  /\ basis    \in [Ticker -> Nat] /\ \A t \in Ticker : basis[t] \in 1..(1 + Dividends[t])
  /\ prices   \in Prices /\ log \in [Ticker -> SyncRow]
  /\ phase    \in {"idle"} \cup Group
  /\ todo     \in [Group -> SUBSET Ticker] /\ start \in [Ticker -> Day]
  /\ buf      \subseteq Entry /\ Cardinality(buf) < CommitSize
  /\ {reported, rebased} \subseteq SUBSET Ticker

Init ==
  /\ today = 1
  /\ basis = [t \in Ticker |-> 1]
  /\ prices = NoPrices /\ log = NoLog
  /\ phase = "idle"
  /\ todo = [g \in Group |-> {}] /\ start = [t \in Ticker |-> 1]
  /\ buf = {} /\ reported = {} /\ rebased = {}

(* A session closes, with or without dividends.                            *)
NextDay ==
  /\ phase = "idle" /\ today < LastDay
  /\ today' = today + 1
  /\ \E paid \in SUBSET {t \in Ticker : basis[t] <= Dividends[t]} :
       /\ basis' = [t \in Ticker |-> IF t \in paid THEN basis[t] + 1 ELSE basis[t]]
       /\ rebased' = rebased \ paid
  /\ reported' = {}
  /\ UNCHANGED <<prices, log, phase, todo, start, buf>>
-----------------------------------------------------------------------------
Begin(new, pending, from) ==
  /\ phase = "idle"
  /\ phase' = IF new # {} THEN "new" ELSE IF pending # {} THEN "pending" ELSE "idle"
  /\ todo' = [g \in Group |-> IF g = "new" THEN new ELSE pending]
  /\ start' = from
  /\ buf' = {} /\ reported' = {}
  /\ UNCHANGED <<today, basis, prices, log, rebased>>

(* An increment: the new tickers from the beginning, then the pending ones *)
(* each from the day after its last one.                                   *)
StartRun(tickers) ==
  \E last \in [Ticker -> 0..LastDay] :
    /\ \A t \in Ticker : IsLast(last[t], prices, log, t, TRUE)
    /\ Begin({t \in tickers : last[t] = 0},
             {t \in tickers : last[t] # 0 /\ last[t] < today},
             [t \in Ticker |-> IF t \in tickers /\ last[t] \in 1..(today - 1)
                               THEN last[t] + 1 ELSE 1])

(* A rebase: every ticker is pending, from the beginning or from a number  *)
(* of years ago.  Scope: the years reach back to the rows that are there.  *)
StartRebase(tickers) ==
  \E from \in {1} \cup {d \in Day : d + RebaseDays = today} :
    /\ \A t \in tickers : Stored(prices, t) # {} =>
         \E d \in Stored(prices, t) : d >= from - 1
    /\ Begin({}, tickers, [t \in Ticker |-> IF t \in tickers THEN from ELSE 1])
-----------------------------------------------------------------------------
(* What flush_prices_and_sync of the entries of b makes of the tables: one *)
(* transaction, upserts.                                                   *)
FlushedPrices(b) ==
  [t \in Ticker |->
     LET rows == {e \in b : e.ticker = t /\ e.status = "ok"}
     IN  Upsert(prices, t, UNION {e.start..e.last : e \in rows}, basis[t])[t]]

FlushedLog(b) ==
  [t \in Ticker |->
     IF \A e \in b : e.ticker # t THEN log[t]
     ELSE LET e == CHOOSE e \in b : e.ticker = t
          IN  IF e.status = "ok" THEN SyncOk(log, t, e.last)[t]
              ELSE SyncError(log, t, today)[t]]

Flush(b) ==
  /\ prices' = FlushedPrices(b)
  /\ rebased' = rebased \cup {e.ticker : e \in {f \in b : f.status = "ok" /\ f.start = 1}}

Take(t) ==
  /\ phase \in Group /\ t \in todo[phase]
  /\ todo' = [todo EXCEPT ![phase] = @ \ {t}]
  /\ UNCHANGED <<today, basis, phase, start>>

(* What a request for t may put into the buffers: bars up to a day, or an  *)
(* error, if there is no bar and the target is the day of the run.         *)
Outcome(t) ==
  {e \in Entry : /\ e.ticker = t /\ e.start = start[t]
                 /\ e.last \in start[t]..today
                 /\ \/ e.status = "ok" /\ \A d \in Stored(prices, t) : d <= e.last
                    \/ e.status = "error" /\ e.last = today}

(* The entry joins the buffers, which are committed when they are full.    *)
Fetched(e) ==
  /\ Take(e.ticker) /\ e \in Outcome(e.ticker)
  /\ IF Cardinality(buf \cup {e}) >= CommitSize
     THEN Flush(buf \cup {e}) /\ log' = FlushedLog(buf \cup {e}) /\ buf' = {}
     ELSE buf' = buf \cup {e} /\ UNCHANGED <<prices, log, rebased>>
  /\ reported' = IF e.status = "ok" THEN reported \cup {e.ticker} ELSE reported

(* No bar, and the target is an earlier day.                               *)
Skipped(t) == Take(t) /\ UNCHANGED <<prices, log, buf, reported, rebased>>

\* Mutation of Handler: the buffers are cleared before they are flushed.
MutHandler(t, b) ==
  /\ log' = SyncError(log, t, today) /\ buf' = {}
  /\ UNCHANGED <<prices, reported, rebased>>

(* The handler of an exception flushes the buffers, then the error of t.   *)
Handler(t, b) ==
  /\ Flush(b) /\ log' = SyncError(FlushedLog(b), t, today) /\ buf' = {}
  /\ UNCHANGED reported

FetchFails(t) == Take(t) /\ Handler(t, buf)

(* The flush of full buffers fails; the handler's succeeds.                *)
FlushFails(e) ==
  /\ Take(e.ticker) /\ e \in Outcome(e.ticker)
  /\ Cardinality(buf \cup {e}) >= CommitSize
  /\ Handler(e.ticker, buf \cup {e})

(* The rest of a group is flushed.                                         *)
EndGroup ==
  /\ phase \in Group /\ todo[phase] = {}
  /\ Flush(buf) /\ log' = FlushedLog(buf) /\ buf' = {}
  /\ phase' = IF phase = "new" /\ todo["pending"] # {} THEN "pending" ELSE "idle"
  /\ start' = IF phase' = "pending" THEN start ELSE [t \in Ticker |-> 1]
  /\ UNCHANGED <<today, basis, todo, reported>>

(* An exception of a last flush or of the handler, or a crash, ends the    *)
(* run.  What is not committed is rolled back; the handler may have        *)
(* committed the buffers before its second flush fails.                    *)
Abort ==
  /\ phase \in Group
  /\ \/ UNCHANGED <<prices, log, rebased>>
     \/ todo[phase] # {} /\ Flush(buf) /\ log' = FlushedLog(buf)
  /\ phase' = "idle"
  /\ todo' = [g \in Group |-> {}] /\ start' = [t \in Ticker |-> 1]
  /\ buf' = {} /\ reported' = {}
  /\ UNCHANGED <<today, basis>>

Next ==
  \/ NextDay
  \/ \E tickers \in (SUBSET Ticker) \ {{}} : StartRun(tickers) \/ StartRebase(tickers)
  \/ \E t \in Ticker : Skipped(t) \/ FetchFails(t)
  \/ \E t \in Ticker : \E e \in Outcome(t) : Fetched(e) \/ FlushFails(e)
  \/ EndGroup
  \/ Abort

Spec == Init /\ [][Next]_vars

(* For fairness: a run goes on; the newest bar of t is downloaded.         *)
Proceeds == EndGroup \/ \E t \in Ticker : \E e \in Outcome(t) : Fetched(e)

Arrives(t) == \E e \in Outcome(t) : e.status = "ok" /\ e.last = today /\ Fetched(e)
-----------------------------------------------------------------------------
(* A result of the run is true: a ticker it calls ok has its bars and its  *)
(* mark in the tables, or still in the buffers.                            *)
ReportedIsSaved ==
  \A t \in reported :
    \/ log[t].status = "ok" /\ prices[t][log[t].last] # NoRow
    \/ \E e \in buf : e.ticker = t /\ e.status = "ok"
=============================================================================
