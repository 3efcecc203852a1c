------------------------------ MODULE UsPrices ------------------------------
(***************************************************************************)
(* US equity prices (apis/yfinance/prices_batch.py): incremental runs from *)
(* sync_log, and rebases.  A day is a closed session; today is the target  *)
(* of a run.  The runs write with INSERT IGNORE.                           *)
(***************************************************************************)
EXTENDS PriceStore, FiniteSetsExt

CONSTANTS
  BatchSize,      \* YF_BATCH_SIZE
  Lookback,       \* YF_LOOKBACK_DAYS
  RebaseDays,     \* HISTORY_YEARS_US, in days
  Regular,        \* whether the runs are often enough, and answered well
                  \* enough, that no ticker lags by more than Lookback days
  Daily,          \* data_type is "price"; otherwise "price_weekly"
  Torn            \* whether a write may fail after a part of its statements

VARIABLES
  today,          \* the last closed session
  prices, log,    \* the tables
  phase,          \* "idle", or "run"
  todo,           \* the tickers that the run still has to download ...
  start           \* ... and from which day: new ones, then pending ones

vars == <<today, prices, log, phase, todo, start>>

Group == {"new", "pending"}

TypeOK ==
  /\ today  \in Day
  /\ prices \in Prices /\ log \in [Ticker -> SyncRow]
  /\ phase  \in {"idle", "run"}
  /\ todo   \in [Group -> SUBSET Ticker] /\ start \in [Group -> Day]

Init ==
  /\ today = 1
  /\ prices = NoPrices /\ log = NoLog
  /\ phase = "idle"
  /\ todo = [g \in Group |-> {}] /\ start = [g \in Group |-> 1]

(* A session closes.                                                       *)
NextDay ==
  /\ phase = "idle" /\ today < LastDay
  /\ Regular => \A t \in Ticker : Stored(prices, t) # {} =>
                  \E d \in Stored(prices, t) : today - d <= Lookback
  /\ today' = today + 1
  /\ UNCHANGED <<prices, log, phase, todo, start>>
-----------------------------------------------------------------------------
\* Mutation of StartDay: without the day after, and without the floor's max.
MutStartDay(last) == Max({last + 1, (today + 1) - Lookback})

(* Where an increment starts: the day after the last one, but not earlier  *)
(* than Lookback days before the target.                                   *)
StartDay(last) == Max({last + 1, today - Lookback, 1})

\* Mutation of Pending: also the ones that have the target's bar.
MutPending(tickers, last) == {t \in tickers : last[t] # 0 /\ last[t] <= today}

Pending(tickers, last) == {t \in tickers : last[t] # 0 /\ last[t] < today}

(* The probe has found the target's bar; run_us_equity_batch sorts the     *)
(* tickers by sync_log.  All pending tickers start on the same day.        *)
StartRun(tickers) ==
  /\ phase = "idle"
  /\ \E last \in [Ticker -> 0..LastDay] :
       /\ \A t \in Ticker : IsLast(last[t], prices, log, t, Daily)
       /\ LET fresh   == {t \in tickers : last[t] = 0}
              pending == Pending(tickers, last)
          IN  /\ todo' = [g \in Group |-> IF g = "new" THEN fresh ELSE pending]
              /\ start' = [g \in Group |-> IF g = "new" \/ pending = {} THEN 1
                             ELSE Min({StartDay(last[t]) : t \in pending})]
  /\ phase' = "run"
  /\ UNCHANGED <<today, prices, log>>

(* full_rebase: sync_log is ignored.  The rebase's tickers are downloaded  *)
(* as a first group, from RebaseDays before the target.                    *)
StartRebase(tickers) ==
  /\ phase = "idle"
  /\ todo' = [g \in Group |-> IF g = "new" THEN tickers ELSE {}]
  /\ start' = [g \in Group |-> IF g = "new" /\ today > RebaseDays
                               THEN today - RebaseDays ELSE 1]
  /\ phase' = "run"
  /\ UNCHANGED <<today, prices, log>>

(* The next batch of a group; new tickers come first.                      *)
Batch(g) ==
  {B \in SUBSET todo[g] :
     /\ Cardinality(B) = Min({BatchSize, Cardinality(todo[g])}) /\ B # {}
     /\ g = "pending" => todo["new"] = {}}

Done(g, B) == todo' = [todo EXCEPT ![g] = @ \ B]

(* The log after set_sync_error for every ticker of E.                     *)
Failed(E) == [t \in Ticker |-> IF t \in E THEN SyncError(log, t, today)[t] ELSE log[t]]

(* The download fails after its retries: every ticker of the batch is      *)
(* marked.                                                                 *)
DownloadFails(g, B) ==
  /\ phase = "run" /\ B \in Batch(g)
  /\ log' = Failed(B)
  /\ Done(g, B)
  /\ UNCHANGED <<today, prices, phase, start>>

(* The answer: for each ticker of the batch the last day of its bars, or 0 *)
(* if it is not in the response or its frame is empty.                     *)
Answer(g, B) ==
  [B -> {0} \cup {d \in start[g]..today : Regular => today - d <= Lookback}]

Present(B, answer) == {t \in B : answer[t] # 0}

(* The rows of the batch up to cut, in the table.                          *)
Rows(g, B, cut) ==
  [t \in Ticker |-> IF t \in B
                    THEN InsertIgnore(prices, t, start[g]..cut[t], 1)[t]
                    ELSE prices[t]]

\* Mutation of Save: the log is committed on its own, and the prices fail.
MutSave(g, B, answer) ==
  /\ phase = "run" /\ B \in Batch(g)
  /\ \E written \in BOOLEAN :
       prices' = IF written THEN Rows(g, Present(B, answer), answer) ELSE prices
  /\ log' = [t \in Ticker |->
               IF t \in Present(B, answer) THEN SyncOk(log, t, answer[t])[t]
               ELSE Failed(B)[t]]
  /\ Done(g, B)
  /\ UNCHANGED <<today, phase, start>>

(* The absent tickers are marked, then flush_prices_and_sync writes the    *)
(* rows and the marks of the others in one transaction.                    *)
Save(g, B, answer) ==
  /\ phase = "run" /\ B \in Batch(g)
  /\ prices' = Rows(g, Present(B, answer), answer)
  /\ log' = [t \in Ticker |->
               IF t \in Present(B, answer) THEN SyncOk(log, t, answer[t])[t]
               ELSE Failed(B)[t]]
  /\ Done(g, B)
  /\ UNCHANGED <<today, phase, start>>

(* A statement of that transaction fails and the connection is usable:     *)
(* the first set_sync_error commits the rows of the statements before.     *)
SaveFails(g, B, answer) ==
  /\ phase = "run" /\ B \in Batch(g) /\ Present(B, answer) # {}
  /\ \E cut \in [Present(B, answer) -> 0..today] :
       /\ Torn \/ \A t \in Present(B, answer) : cut[t] = 0
       /\ \E torn \in Present(B, answer) :
            /\ cut[torn] <= answer[torn]
            /\ \A t \in Present(B, answer) \ {torn} : cut[t] \in {0, answer[t]}
       /\ prices' = Rows(g, Present(B, answer), cut)
  /\ log' = Failed(B)
  /\ Done(g, B)
  /\ UNCHANGED <<today, phase, start>>

(* The connection is lost in the transaction, which is rolled back; the    *)
(* set_sync_error that follows raises and ends the run.  So does a crash;  *)
(* only the marks of absent tickers are there.                             *)
Abort(g, B, absent) ==
  /\ phase = "run" /\ B \in Batch(g) /\ absent \subseteq B
  /\ log' = Failed(absent)
  /\ phase' = "idle"
  /\ todo' = [h \in Group |-> {}] /\ start' = [h \in Group |-> 1]
  /\ UNCHANGED <<today, prices>>

EndRun ==
  /\ phase = "run" /\ \A g \in Group : todo[g] = {}
  /\ phase' = "idle" /\ start' = [h \in Group |-> 1]
  /\ UNCHANGED <<today, prices, log, todo>>

Next ==
  \/ NextDay
  \/ \E tickers \in (SUBSET Ticker) \ {{}} : StartRun(tickers) \/ StartRebase(tickers)
  \/ \E g \in Group : \E B \in Batch(g) :
       \/ DownloadFails(g, B)
       \/ \E answer \in Answer(g, B) : Save(g, B, answer) \/ SaveFails(g, B, answer)
       \/ \E absent \in SUBSET B : Abort(g, B, absent)
  \/ EndRun

Spec == Init /\ [][Next]_vars

(* For fairness: a run goes on; the newest bar of t arrives.               *)
Proceeds ==
  \/ EndRun
  \/ \E g \in Group : \E B \in Batch(g) :
       DownloadFails(g, B) \/ \E answer \in Answer(g, B) : Save(g, B, answer)

Aborts == \E g \in Group : \E B \in Batch(g) : \E absent \in SUBSET B : Abort(g, B, absent)

Arrives(t) ==
  \E g \in Group : \E B \in Batch(g) : \E answer \in Answer(g, B) :
    t \in B /\ answer[t] = today /\ Save(g, B, answer)
-----------------------------------------------------------------------------
(* The history has no holes: whichever runs and batches fail, and in       *)
(* whatever groups the tickers are run or rebased, no day between two      *)
(* stored ones is missing ("用于 error 状态 ticker 恢复增量").               *)
NoHoles == \A t \in Ticker : Contiguous(prices, t)
=============================================================================
