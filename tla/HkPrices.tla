------------------------------ MODULE HkPrices ------------------------------
(***************************************************************************)
(* HK prices (apis/yfinance/prices_hk.py): one ticker at a time, from some *)
(* days before its last one, adjusted prices written with upserts, and one *)
(* commit for the rows and the mark.                                       *)
(***************************************************************************)
EXTENDS PriceStore

CONSTANTS
  Lookback,       \* YF_LOOKBACK_DAYS
  RebaseDays,     \* --years, in days
  Dividends       \* bound: the dividends that each ticker pays

VARIABLES
  today,          \* the last day that a run asks for
  basis,          \* of what the source answers
  prices, log,    \* the tables
  phase,          \* "idle", or "run"
  todo, start,    \* the tickers that the run has left, and where each starts
  rebased         \* the tickers wholly downloaded since their last dividend (history)

vars == <<today, basis, prices, log, phase, todo, start, rebased>>

TypeOK ==
  /\ today   \in Day
  /\ basis   \in [Ticker -> Nat] /\ \A t \in Ticker : basis[t] \in 1..(1 + Dividends[t])
  /\ prices  \in Prices /\ log \in [Ticker -> SyncRow]
  /\ phase   \in {"idle", "run"}
  /\ todo    \subseteq Ticker /\ start \in [Ticker -> Day]
  /\ rebased \subseteq Ticker

Init ==
  /\ today = 1
  /\ basis = [t \in Ticker |-> 1]
  /\ prices = NoPrices /\ log = NoLog
  /\ phase = "idle"
  /\ todo = {} /\ start = [t \in Ticker |-> 1]
  /\ rebased = {}

(* A session closes, with or without dividends.                            *)
NextDay ==
  /\ phase = "idle" /\ today < LastDay
  /\ today' = today + 1
  /\ \E paid \in SUBSET {t \in Ticker : basis[t] <= Dividends[t]} :
       /\ basis' = [t \in Ticker |-> IF t \in paid THEN basis[t] + 1 ELSE basis[t]]
       /\ rebased' = rebased \ paid
  /\ UNCHANGED <<prices, log, phase, todo, start>>
-----------------------------------------------------------------------------
Begin(tickers, from) ==
  /\ phase = "idle" /\ phase' = "run"
  /\ todo' = tickers
  /\ start' = [t \in Ticker |-> IF t \in tickers THEN from[t] ELSE 1]
  /\ UNCHANGED <<today, basis, prices, log, rebased>>

(* An increment asks for every ticker, current or not.                     *)
StartRun(tickers) ==
  \E last \in [Ticker -> 0..LastDay] :
    /\ \A t \in Ticker : IsLast(last[t], prices, log, t, TRUE)
    /\ Begin(tickers, [t \in Ticker |-> IF last[t] > Lookback THEN last[t] - Lookback ELSE 1])

(* A rebase, from the beginning or from a number of years ago.  Scope: the *)
(* years reach back to the rows that are there.                            *)
StartRebase(tickers) ==
  \E from \in {1} \cup {d \in Day : d + RebaseDays = today} :
    /\ \A t \in tickers : Stored(prices, t) # {} =>
         \E d \in Stored(prices, t) : d >= from - 1
    /\ Begin(tickers, [t \in Ticker |-> from])

Take(t) ==
  /\ phase = "run" /\ t \in todo
  /\ todo' = todo \ {t}
  /\ UNCHANGED <<today, basis, phase, start>>

Answered(t, last) ==
  last \in start[t]..today /\ \A d \in Stored(prices, t) : d <= last

(* The bars of t from its start to last are in the table.                  *)
Written(t, last) ==
  /\ prices' = Upsert(prices, t, start[t]..last, basis[t])
  /\ rebased' = IF start[t] = 1 THEN rebased \cup {t} ELSE rebased

Save(t, last) ==
  /\ Take(t) /\ Answered(t, last)
  /\ Written(t, last)
  /\ log' = SyncOk(log, t, last)

(* No bar, or an exception of the request or of the write's first          *)
(* statement.                                                              *)
Fails(t) ==
  /\ Take(t)
  /\ log' = SyncError(log, t, today)
  /\ UNCHANGED <<prices, rebased>>

(* The statement of the mark fails: the rows are committed by the error.   *)
MarkFails(t, last) ==
  /\ Take(t) /\ Answered(t, last)
  /\ Written(t, last)
  /\ log' = SyncError(log, t, today)

(* An error that cannot be written, or a crash, ends the run.              *)
Abort ==
  /\ phase = "run" /\ phase' = "idle"
  /\ todo' = {} /\ start' = [t \in Ticker |-> 1]
  /\ UNCHANGED <<today, basis, prices, log, rebased>>

EndRun ==
  /\ phase = "run" /\ todo = {}
  /\ phase' = "idle" /\ start' = [t \in Ticker |-> 1]
  /\ UNCHANGED <<today, basis, prices, log, todo, rebased>>

Next ==
  \/ NextDay
  \/ \E tickers \in (SUBSET Ticker) \ {{}} : StartRun(tickers) \/ StartRebase(tickers)
  \/ \E t \in Ticker : Fails(t) \/ \E last \in Day : Save(t, last) \/ MarkFails(t, last)
  \/ Abort
  \/ EndRun

Spec == Init /\ [][Next]_vars

(* For fairness: a run goes on; the newest bar of t arrives.               *)
Proceeds == EndRun \/ \E t \in Ticker : Fails(t) \/ \E last \in Day : Save(t, last)

Arrives(t) == Save(t, today)
-----------------------------------------------------------------------------
(* A download from the beginning leaves all prices of a ticker on one      *)
(* basis, until the next dividend.                                         *)
RebaseFixesDrift ==
  \A t \in rebased : \A d \in Stored(prices, t) : prices[t][d] = basis[t]
=============================================================================
