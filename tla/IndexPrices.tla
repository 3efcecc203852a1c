---------------------------- MODULE IndexPrices -----------------------------
(***************************************************************************)
(* index_prices: US indices and ETFs (apis/yfinance/prices_index.py), and  *)
(* CN ETFs (apis/tushare/etf_cn.py).  There is no sync_log: an increment   *)
(* starts from MAX(date).  Rows are written with INSERT IGNORE.            *)
(***************************************************************************)
EXTENDS PriceStore

CONSTANT Etf      \* the CN ETFs; otherwise the US indices

VARIABLES
  today,          \* the last closed session
  prices,         \* the table
  phase,          \* "idle", "run", or "rebase"
  todo            \* the symbols that the run has left

vars == <<today, prices, phase, todo>>

TypeOK ==
  /\ today   \in Day
  /\ prices  \in Prices
  /\ phase   \in {"idle", "run", "rebase"}
  /\ todo    \subseteq Ticker

Init ==
  /\ today = 1
  /\ prices = NoPrices
  /\ phase = "idle"
  /\ todo = {}

(* A session closes.                                                       *)
NextDay ==
  /\ phase = "idle" /\ today < LastDay
  /\ today' = today + 1
  /\ UNCHANGED <<prices, phase, todo>>
-----------------------------------------------------------------------------
(* update_index_prices, update_etf_prices; only the latter can rebase.     *)
StartRun(kind) ==
  /\ phase = "idle" /\ phase' = kind
  /\ kind = "rebase" => Etf
  /\ todo' = Ticker
  /\ UNCHANGED <<today, prices>>

Take(t) ==
  /\ phase # "idle" /\ t \in todo
  /\ todo' = todo \ {t}
  /\ UNCHANGED <<today, phase>>

(* The days of t after its last one, or all days of a rebase.              *)
Wanted(t) == IF phase = "rebase" THEN Day ELSE {d \in Day : \A e \in Stored(prices, t) : e < d}

(* The bars up to last; for a CN ETF with or without adjustment factors.   *)
Save(t, last) ==
  /\ Take(t)
  /\ last \in Wanted(t) /\ \A d \in Stored(prices, t) : d <= last
  /\ prices' = InsertIgnore(prices, t, Wanted(t) \cap 1..last, 1)

(* The symbol is current, there is no bar, or a request fails.  For CN     *)
(* also if the write fails.                                                *)
Skipped(t) == Take(t) /\ UNCHANGED prices

(* A query or a write that fails ends the US run; a crash any run.         *)
Abort ==
  /\ phase # "idle" /\ phase' = "idle"
  /\ todo' = {}
  /\ UNCHANGED <<today, prices>>

EndRun ==
  /\ phase # "idle" /\ todo = {}
  /\ phase' = "idle"
  /\ UNCHANGED <<today, prices, todo>>

Next ==
  \/ NextDay
  \/ \E kind \in {"run", "rebase"} : StartRun(kind)
  \/ \E t \in todo : Skipped(t) \/ \E last \in 1..today : Save(t, last)
  \/ Abort
  \/ EndRun

Spec == Init /\ [][Next]_vars

(* For fairness: a run goes on; the newest bar of t arrives.               *)
Proceeds ==
  EndRun \/ \E t \in todo : Skipped(t) \/ \E last \in 1..today : Save(t, last)

Arrives(t) == Save(t, today)
=============================================================================
