---------------------------- MODULE DailyCommand ----------------------------
(***************************************************************************)
(* The price commands (cli/commands_prices.py, jobs/pipeline.py and the    *)
(* market modules) on the clock of TradingCalendar.  "prices daily" goes   *)
(* through the markets, and in each through the list, the prices and the   *)
(* index prices; an exception of one step leaves the whole command.  It    *)
(* takes hours, is started by hand at any time, and every step takes its   *)
(* target date from the clock when it comes to it, the US prices twice:    *)
(* for the probe and for the download.  "prices weekly" and "prices        *)
(* intraday" are commands of their own.                                    *)
(*                                                                         *)
(* A behaviour follows the bars of one feed; the steps of the others only  *)
(* take their time.                                                        *)
(***************************************************************************)
EXTENDS TradingCalendar, TLC

CONSTANTS
  Commands,     \* sets of steps: the daily commands that are given
  Lookback,     \* YF_LOOKBACK_DAYS
  Longest,      \* bound: the hours a command may take
  Failures      \* bound on failed requests and exceptions in a behaviour

ASSUME CommandAssumption ==
  /\ Commands \subseteq (SUBSET (1..9)) \ {{}}
  /\ Lookback \in Nat /\ Longest \in Nat /\ Failures \in Nat
  /\ LastHour >= 7 * 24

VARIABLES
  feed,         \* the table and market that are followed
  bars,         \* by session: what its bar was read from
  left,         \* the steps that the daily command still has to take
  began,        \* when it began; 0 if there is none
  target,       \* the target of the US probe; NoTarget if it did not succeed
  covered,      \* whether the command comes to the feed and logs no error for it
  failures      \* how many requests and commands have failed

commandVars == <<left, began, target, covered>>
allVars     == <<now, feed, bars, commandVars, failures>>

(* The steps of "daily --market all", in order.                            *)
UsIndex       == 1
UsProbe       == 2
UsPrices      == 3
UsIndexPrices == 4
CnList        == 5
CnPrices      == 6
CnEtf         == 7
HkIndex       == 8
HkPrices      == 9

(* The US prices are updated after their probe, and not without it.        *)
ASSUME ProbeAssumption == \A steps \in Commands : UsPrices \in steps => UsProbe \in steps

(* The step that downloads the bars of a feed; 0: another command.         *)
StepOf ==
  [us |-> UsPrices, us_index |-> UsIndexPrices, cn |-> CnPrices, cn_etf |-> CnEtf,
   hk |-> HkPrices, us_weekly |-> 0, us_intraday |-> 0]

Feed == DOMAIN StepOf
Slot == IF feed = "us_weekly" THEN Monday ELSE Session

NoTarget == -1

TypeOK ==
  /\ now \in 0..LastHour /\ feed \in Feed
  /\ bars \in [Slot -> {"none", "open", "final"}]
  /\ left \subseteq 1..9 /\ began \in 0..now
  /\ target \in {NoTarget} \cup Session /\ covered \in BOOLEAN
  /\ failures \in 0..Failures

(* The clock starts in the second week: the first one is the past.         *)
Init ==
  /\ now = 7 * 24 /\ feed \in Feed
  /\ bars = [d \in Slot |-> IF d < 7 THEN "final" ELSE "none"]
  /\ left = {} /\ began = 0 /\ target = NoTarget /\ covered = FALSE
  /\ failures = 0

Stored == {d \in Slot : bars[d] # "none"}

(* MAX(date), and last_date of sync_log.                                   *)
Last == Max(Stored)
-----------------------------------------------------------------------------
Tick ==
  /\ \E h \in now + 1..now + 24 :
       /\ NextHour(h) /\ h <= LastHour
       /\ began > 0 => h <= began + Longest
       /\ now' = h
  /\ UNCHANGED <<feed, bars, commandVars, failures>>

Begin(steps) ==
  /\ began = 0 /\ feed \notin {"us_weekly", "us_intraday"}
  /\ left' = steps /\ began' = now /\ target' = NoTarget
  /\ covered' = (StepOf[feed] \in steps)
  /\ UNCHANGED <<now, feed, bars, failures>>

Step(p) ==
  /\ left # {} /\ p = Min(left)
  /\ left' = left \ {p}
  /\ UNCHANGED <<now, feed, began>>

(* A week is over with its Friday.                                         *)
WeekClosed(h, d) == UsClosed(h, d + 4)

(* The days whose bar is finished, if it is read now.                      *)
Finished ==
  {d \in Slot :
     \/ feed \in {"us", "us_index", "us_intraday"} /\ UsClosed(now, d)
     \/ feed = "us_weekly" /\ WeekClosed(now, d)
     \/ feed \in {"cn", "cn_etf", "hk"} /\ CnClosed(now, d)}

(* A bar that is read now.                                                 *)
BarOf(d) == IF d \in Finished THEN "final" ELSE "open"

(* What INSERT IGNORE makes of the bars of some days, read now.            *)
Inserted(days) == [d \in Slot |-> IF d \in days \ Stored THEN BarOf(d) ELSE bars[d]]

(* The same for ON DUPLICATE KEY UPDATE.                                   *)
Updated(days) == [d \in Slot |-> IF d \in days THEN BarOf(d) ELSE bars[d]]

(* Steps that write nothing to the feed: the lists of tickers, and those   *)
(* of the other feeds.                                                     *)
Passes(p) ==
  /\ Step(p) /\ p # StepOf[feed] /\ (p = UsProbe => feed # "us")
  /\ UNCHANGED <<bars, target, covered, failures>>

\* Mutation of Asked: the end of the request is not the day after.
MutAsked(d) == d - 5..d - 1

(* The days whose bars the probe asks for.                                 *)
Asked(d) == d - 5..d

(* The probe looks for the bar of the target in the answer, which is there *)
(* when its session has begun.  If it is not, all tickers get an error as  *)
(* their result and nothing is downloaded.                                 *)
Probe ==
  /\ feed = "us" /\ Step(UsProbe)
  /\ IF LastUsTradingDate \in {d \in Session \cap Asked(LastUsTradingDate) : UsOpened(now, d)}
     THEN target' = LastUsTradingDate /\ UNCHANGED covered
     ELSE target' = NoTarget /\ covered' = FALSE
  /\ UNCHANGED <<bars, failures>>

(* The pending tickers start after their last bar, within the lookback of  *)
(* the probe's target; the download reaches to the target of its own time. *)
DownloadUs ==
  /\ feed = "us" /\ Step(UsPrices)
  /\ bars' = IF Last < target
             THEN Inserted(Max({Last + 1, target - Lookback})..LastUsTradingDate)
             ELSE bars
  /\ UNCHANGED <<target, covered, failures>>

\* Mutation of DownloadIndex: days without a session are filled in.
MutDownloadIndex ==
  /\ feed = "us_index" /\ Step(UsIndexPrices)
  /\ bars' = bars @@ [d \in Last..LastUsTradingDate |-> "final"]
  /\ UNCHANGED <<target, covered, failures>>

(* Like the updates of one ticker, but without a probe.                    *)
DownloadIndex ==
  /\ feed = "us_index" /\ Step(UsIndexPrices)
  /\ bars' = Inserted(Last + 1..LastUsTradingDate)
  /\ UNCHANGED <<target, covered, failures>>

(* Upserts; the download ends with the target.                             *)
DownloadCn ==
  /\ feed = "cn" /\ Step(CnPrices)
  /\ bars' = Updated(Last + 1..LastCnTradingDate)
  /\ UNCHANGED <<target, covered, failures>>

(* No end is given: what the source has now.                               *)
DownloadEtf ==
  /\ feed = "cn_etf" /\ Step(CnEtf)
  /\ bars' = Inserted({d \in Session : d > Last /\ CnClosed(now, d)})
  /\ UNCHANGED <<target, covered, failures>>

(* Upserts of the days before today, with an overlap.                      *)
DownloadHk ==
  /\ feed = "hk" /\ Step(HkPrices)
  /\ bars' = Updated(Last - Lookback..Day - 1)
  /\ UNCHANGED <<target, covered, failures>>

(* The request of the feed's ticker fails, or the probe's is refused; it   *)
(* is logged, and the command goes on.                                     *)
Fails(p) ==
  /\ Step(p) /\ (p = StepOf[feed] \/ (p = UsProbe /\ feed = "us"))
  /\ failures < Failures /\ failures' = failures + 1
  /\ target' = NoTarget /\ covered' = FALSE
  /\ UNCHANGED bars

(* An exception: of the list's update, of the database, of a lost          *)
(* connection.  Nobody catches it, and the steps that are left are not     *)
(* taken.                                                                  *)
Raises ==
  /\ left # {}
  /\ failures < Failures /\ failures' = failures + 1
  /\ left' = {} /\ began' = 0 /\ target' = NoTarget /\ covered' = FALSE
  /\ UNCHANGED <<now, feed, bars>>

Returns ==
  /\ began > 0 /\ left = {}
  /\ began' = 0 /\ target' = NoTarget /\ covered' = FALSE
  /\ UNCHANGED <<now, feed, bars, left, failures>>

(* prices weekly: as UsPrices, with the Monday of a week; the probe asks   *)
(* for its bar.                                                            *)
Weekly ==
  /\ feed = "us_weekly" /\ LastUsWeeklyDate \in Monday
  /\ bars' = Inserted(Max({Last + 1, LastUsWeeklyDate - Lookback})..LastUsWeeklyDate)
  /\ UNCHANGED <<now, feed, commandVars, failures>>

(* prices intraday: up to the newest bar there is, that of a session which *)
(* may still go on, from the day after the last one.                       *)
Intraday ==
  /\ feed = "us_intraday"
  /\ bars' = Inserted({d \in Session : d > Last /\ UsOpened(now, d)})
  /\ UNCHANGED <<now, feed, commandVars, failures>>

Proceeds ==
  \/ \E p \in 1..9 : Passes(p)
  \/ Probe \/ DownloadUs \/ DownloadIndex \/ DownloadCn \/ DownloadEtf \/ DownloadHk
  \/ Returns

Next ==
  \/ Tick
  \/ \E steps \in Commands : Begin(steps)
  \/ Proceeds
  \/ \E p \in 1..9 : Fails(p)
  \/ Raises
  \/ Weekly \/ Intraday

Spec == Init /\ [][Next]_allVars

(* The whole daily command and the others are given again and again and go *)
(* on; their requests do not fail, nor they raise, for ever (Failures).    *)
Given == Begin(1..9) \/ Weekly \/ Intraday

FairSpec ==
  Spec /\ SF_allVars(Tick) /\ WF_allVars(Proceeds) /\ SF_allVars(Given)
-----------------------------------------------------------------------------
(***************************************************************************)
(* Properties.                                                             *)
(***************************************************************************)

(* What was over at hour h, for a command that began then: HK prices are   *)
(* only downloaded to the day before.                                      *)
Over(h, d) ==
  CASE feed \in {"cn", "cn_etf"} -> CnClosed(h, d)
    [] feed = "hk"               -> d < DayOf(h)
    [] feed = "us_weekly"        -> WeekClosed(h, d)
    [] OTHER                     -> UsClosed(h, d)

(* A daily command that comes to its end without having logged an error    *)
(* for a market it was given for has stored every session of it that was   *)
(* over when the command began, however long it took and whatever the      *)
(* hours at which its steps looked at the clock.                           *)
CaughtUp ==
  began > 0 /\ left = {} /\ covered => \A d \in Slot : Over(began, d) => d \in Stored

(* An unfinished bar, which INSERT IGNORE keeps, is only stored by US      *)
(* daily and index downloads between midnight and 5:00, and by intraday    *)
(* runs during the session: a command that downloads at other hours stores *)
(* finished bars only, whenever it began, and the feeds of the other       *)
(* markets and the weekly one do so at any hour.                           *)
UnfinishedOnlyAtNight ==
  [][\A d \in Slot : bars[d] # "open" /\ bars'[d] = "open" =>
       \/ feed \in {"us", "us_index"} /\ Hour < 5
       \/ feed = "us_intraday" /\ (Hour < 5 \/ Hour >= 21)]_allVars

(* Every session reaches the tables of every market, though an exception   *)
(* in one market takes the later ones with it, on some days the US target  *)
(* is no session, and commands are given at any hours.  (The clock's bound *)
(* keeps the commands within Lookback days of each other; a longer pause   *)
(* leaves a hole in the US tables.)                                        *)
EventuallyStored ==
  <>(\A d \in Slot : Over(LastHour, d) => d \in Stored)

(* The daily bars were read when their session was over: the target is     *)
(* "最近已收盘的交易日", and INSERT IGNORE never replaces a bar.              *)
SessionsFinal == feed = "us" => \A d \in Session : bars[d] # "open"
=============================================================================
