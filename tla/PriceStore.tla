----------------------------- MODULE PriceStore -----------------------------
(***************************************************************************)
(* The tables prices and sync_log (modules/price_write.py,                 *)
(* modules/sync_log.py) as data.  Days are numbered; the first one is the  *)
(* first day of the history.  Of a price row only the basis is kept: which *)
(* version of the source's history it was read from (adjusted prices are   *)
(* all replaced when a dividend is paid).                                  *)
(***************************************************************************)
EXTENDS Naturals, FiniteSets

CONSTANTS
  Ticker,
  LastDay         \* bound: the last day of the history

ASSUME LastDayAssumption == LastDay \in Nat \ {0}

Day   == 1..LastDay
NoRow == 0

Prices  == [Ticker -> [Day -> Nat]]
SyncRow == [status : {"none", "ok", "error"}, last : 0..LastDay]

NoPrices == [t \in Ticker |-> [d \in Day |-> NoRow]]
NoLog    == [t \in Ticker |-> [status |-> "none", last |-> 0]]

Stored(prices, t) == {d \in Day : prices[t][d] # NoRow}

(* INSERT IGNORE: a row that is there stays.                               *)
InsertIgnore(prices, t, days, basis) ==
  [prices EXCEPT ![t] = [d \in Day |-> IF d \in days /\ @[d] = NoRow
                                       THEN basis ELSE @[d]]]

\* Mutation of Upsert: INSERT IGNORE, as for US prices.
MutUpsert(prices, t, days, basis) == InsertIgnore(prices, t, days, basis)

\* Mutation of Upsert: the rows of the ticker are deleted first.
MutReplace(prices, t, days, basis) ==
  [prices EXCEPT ![t] = [d \in Day |-> IF d \in days THEN basis ELSE NoRow]]

(* INSERT ... ON DUPLICATE KEY UPDATE.                                     *)
Upsert(prices, t, days, basis) ==
  [prices EXCEPT ![t] = [d \in Day |-> IF d \in days THEN basis ELSE @[d]]]

(* set_sync_ok, and the ok rows of flush_prices_and_sync.                  *)
SyncOk(log, t, last) == [log EXCEPT ![t] = [status |-> "ok", last |-> last]]

(* set_sync_error: last_date is kept, or is today in a new row.            *)
SyncError(log, t, today) ==
  [log EXCEPT ![t] =
     [status |-> "error", last |-> IF @.status = "none" THEN today ELSE @.last]]

\* Mutation of IsLast: the date of a row counts whatever its status.
MutIsLast(d, prices, log, t, daily) ==
  IF log[t].status # "none" THEN d = log[t].last ELSE d = 0

(* d is get_last_sync_map's date for t: last_date if the status is ok;     *)
(* otherwise MAX(date) of the rows, if they are daily.  0 stands for None. *)
IsLast(d, prices, log, t, daily) ==
  IF log[t].status = "ok" THEN d = log[t].last
  ELSE IF daily THEN /\ d \in Stored(prices, t) \cup {0}
                     /\ \A e \in Stored(prices, t) : e <= d
  ELSE d = 0

(* No day is missing between two stored ones.                              *)
Contiguous(prices, t) ==
  \A c, d, e \in Day : c <= d /\ d <= e /\ {c, e} \subseteq Stored(prices, t)
                       => d \in Stored(prices, t)
=============================================================================
