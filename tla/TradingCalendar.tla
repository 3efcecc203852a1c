--------------------------- MODULE TradingCalendar ---------------------------
(***************************************************************************)
(* The trading-day arithmetic: core/trading_calendar.py, and               *)
(* _last_us_weekly_date of apis/yfinance/prices_us_weekly.py.  The clock   *)
(* counts the hours of Beijing from a Monday 00:00; a day is 24 of them,   *)
(* of which the clock stops at some.  Like the code, the calendar knows    *)
(* weekends and no holidays.                                               *)
(***************************************************************************)
EXTENDS Integers, FiniteSetsExt

CONSTANTS
  LastHour,     \* bound on the clock
  Hours         \* the hours of a day that the clock stops at

ASSUME ClockAssumption == LastHour \in Nat /\ 0 \in Hours /\ Hours \subseteq 0..23

VARIABLE now

DayOf(h) == h \div 24
Day      == DayOf(now)
Hour     == now % 24
Weekday  == Day % 7
Session  == {d \in 0..DayOf(LastHour) : d % 7 <= 4}
Monday   == {d \in Session : d % 7 = 0}

(* The hour after now at which the clock stops.                            *)
NextHour(h) ==
  /\ h % 24 \in Hours
  /\ \A g \in now + 1..h - 1 : g % 24 \notin Hours

(* When the sessions begin and are over, in Beijing: New York opens at     *)
(* 21:00 and closes at 5:00 of the next day; Shanghai and Hong Kong are    *)
(* over, and their bars there, at 16:00.                                   *)
UsOpened(h, d) == h >= 24 * d + 21
UsClosed(h, d) == h >= 24 * (d + 1) + 5
CnClosed(h, d) == h >= 24 * d + 16
-----------------------------------------------------------------------------
\* Mutation of LastUsTradingDate: weekends go back to Thursday.
MutLastUsTradingDate ==
  IF Weekday \in {5, 6} THEN Day - (Weekday - 3)
  ELSE IF Weekday = 0 /\ Hour < 5 THEN Day - 3
  ELSE Day - 1

(* last_us_trading_date.                                                   *)
LastUsTradingDate ==
  IF Weekday \in {5, 6} THEN Day - (Weekday - 4)
  ELSE IF Weekday = 0 /\ Hour < 5 THEN Day - 3
  ELSE Day - 1

\* Mutation of LastCnTradingDate: a Monday is like the other days.
MutLastCnTradingDate ==
  IF Weekday \in {5, 6} THEN Day - (Weekday - 4)
  ELSE IF Hour >= 16 THEN Day ELSE Day - 1

(* last_cn_trading_date.                                                   *)
LastCnTradingDate ==
  IF Weekday \in {5, 6} THEN Day - (Weekday - 4)
  ELSE IF Weekday = 0 /\ Hour < 16 THEN Day - 3
  ELSE IF Hour >= 16 THEN Day ELSE Day - 1

\* Mutation of LastUsWeeklyDate: the whole of Saturday counts.
MutLastUsWeeklyDate == IF Weekday \in {5, 6} THEN Day - Weekday ELSE Day - Weekday - 7

(* _last_us_weekly_date.                                                   *)
LastUsWeeklyDate ==
  IF Weekday = 6 \/ (Weekday = 5 /\ Hour >= 5)
  THEN Day - Weekday ELSE Day - Weekday - 7
-----------------------------------------------------------------------------
(***************************************************************************)
(* Properties.                                                             *)
(***************************************************************************)

(* The CN target is the last session that is over, at every hour of every  *)
(* day of the week, Mondays and weekends included.                         *)
CnTargetClosed ==
  LastCnTradingDate = Max({d \in Session : CnClosed(now, d)})
=============================================================================
