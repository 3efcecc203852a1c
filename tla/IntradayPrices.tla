--------------------------- MODULE IntradayPrices ---------------------------
(***************************************************************************)
(* US intraday prices (apis/yfinance/prices_intraday_batch.py), one        *)
(* interval.  The source keeps a window of days that moves with the clock. *)
(* A batch is downloaded from the earliest start in it; then the rows and  *)
(* the mark of each ticker are written in two commits, with INSERT IGNORE. *)
(* A day stands for its bars.                                              *)
(***************************************************************************)
EXTENDS PriceStore, FiniteSetsExt

CONSTANTS
  BatchSize,      \* YF_BATCH_SIZE
  Window          \* lookback_days

VARIABLES
  today,          \* the last day of the source
  prices, log,    \* the tables prices_intraday, sync_log
  phase,          \* "idle", or "run"
  todo, start,    \* the tickers not yet downloaded, and where each starts
  batch           \* the tickers downloaded and not yet written

vars == <<today, prices, log, phase, todo, start, batch>>

TypeOK ==
  /\ today  \in Day
  /\ prices \in Prices /\ log \in [Ticker -> SyncRow]
  /\ phase  \in {"idle", "run"}
  /\ todo   \subseteq Ticker /\ start \in [Ticker -> Day]
  /\ batch  \subseteq Ticker /\ Cardinality(batch) <= BatchSize

Init ==
  /\ today = 1
  /\ prices = NoPrices /\ log = NoLog
  /\ phase = "idle"
  /\ todo = {} /\ start = [t \in Ticker |-> 1] /\ batch = {}

(* The next day.  Scope: no ticker that has rows falls out of the window.  *)
NextDay ==
  /\ phase = "idle" /\ today < LastDay
  /\ \A t \in Ticker : Stored(prices, t) # {} =>
       \E d \in Stored(prices, t) : today + 1 - d <= Window
  /\ today' = today + 1
  /\ UNCHANGED <<prices, log, phase, todo, start, batch>>
-----------------------------------------------------------------------------
(* The first day of the source's window.                                   *)
Floor == Max({1, today - Window + 1})

(* The probe has answered with its last day: the tickers whose mark is     *)
(* not of that day, each from the day after its mark, or from the floor.   *)
StartRun(tickers, rebase) ==
  /\ phase = "idle" /\ phase' = "run"
  /\ \E last \in [Ticker -> 0..LastDay] :
       /\ \A t \in Ticker : IsLast(last[t], prices, log, t, FALSE)
       /\ todo' = {t \in tickers : rebase \/ last[t] < today}
       /\ start' = [t \in Ticker |->
                      IF t \notin todo' THEN 1
                      ELSE IF rebase THEN Floor ELSE Max({last[t] + 1, Floor})]
  /\ UNCHANGED <<today, prices, log, batch>>

(* The next batch, in the order of the starts.                             *)
Batch ==
  {B \in SUBSET todo :
     /\ Cardinality(B) = Min({BatchSize, Cardinality(todo)}) /\ B # {}
     /\ \A t \in B, u \in todo \ B : start[t] <= start[u]}

Take(B) ==
  /\ phase = "run" /\ batch = {} /\ B \in Batch
  /\ todo' = todo \ B
  /\ UNCHANGED <<today, prices, phase>>

Downloaded(B) ==
  /\ Take(B)
  /\ batch' = B
  /\ start' = [t \in Ticker |-> IF t \in B THEN Min({start[u] : u \in B}) ELSE start[t]]
  /\ UNCHANGED log

DownloadFails(B) ==
  /\ Take(B)
  /\ log' = [t \in Ticker |-> IF t \in B THEN SyncError(log, t, today)[t] ELSE log[t]]
  /\ UNCHANGED <<start, batch>>

(* What is left of t after its turn, whether its bars came with the batch  *)
(* or from a download of its own: the rows up to last, and a mark.         *)
Turn(t, last) ==
  /\ phase = "run" /\ t \in batch
  /\ batch' = batch \ {t}
  /\ prices' = InsertIgnore(prices, t, start[t]..last, 1)
  /\ UNCHANGED <<today, phase, todo, start>>

Bars(t) == {d \in start[t]..today : \A e \in Stored(prices, t) : e <= d}

Save(t, last) ==
  /\ last \in Bars(t) /\ Turn(t, last)
  /\ log' = SyncOk(log, t, last)

(* No bar, no write (last is 0), or no mark: an error, which is left out   *)
(* if it cannot be written either.                                         *)
Fails(t, last) ==
  /\ last \in Bars(t) \cup {0} /\ Turn(t, last)
  /\ \/ log' = SyncError(log, t, today)
     \/ UNCHANGED log

(* A lost connection or a crash ends the run, before or after a commit of  *)
(* the rows.                                                               *)
Abort ==
  /\ phase = "run" /\ phase' = "idle"
  /\ \/ UNCHANGED prices
     \/ \E t \in batch : \E last \in Bars(t) :
          prices' = InsertIgnore(prices, t, start[t]..last, 1)
  /\ todo' = {} /\ batch' = {} /\ start' = [t \in Ticker |-> 1]
  /\ UNCHANGED <<today, log>>

EndRun ==
  /\ phase = "run" /\ todo = {} /\ batch = {}
  /\ phase' = "idle" /\ start' = [t \in Ticker |-> 1]
  /\ UNCHANGED <<today, prices, log, todo, batch>>

Next ==
  \/ NextDay
  \/ \E tickers \in (SUBSET Ticker) \ {{}} : \E rebase \in BOOLEAN : StartRun(tickers, rebase)
  \/ \E B \in Batch : Downloaded(B) \/ DownloadFails(B)
  \/ \E t \in batch : \E last \in 0..today : Save(t, last) \/ Fails(t, last)
  \/ Abort
  \/ EndRun

Spec == Init /\ [][Next]_vars

(* For fairness: a run goes on; the newest bar of t arrives.               *)
Proceeds ==
  \/ EndRun
  \/ \E B \in Batch : Downloaded(B)
  \/ \E t \in batch : \E last \in Day : Save(t, last)

Arrives(t) == Save(t, today)
=============================================================================
