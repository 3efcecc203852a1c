------------------------- MODULE DailyCommandProofs -------------------------
(***************************************************************************)
(* The target dates and what the price commands store by them, proved for  *)
(* every hour of every week, for a clock that stops at any hours, and for  *)
(* commands of any steps, that take any time and fail at any place.        *)
(***************************************************************************)
EXTENDS DailyCommand, WellFoundedInduction, TLAPS

USE ClockAssumption, CommandAssumption DEF ClockAssumption, CommandAssumption

(* The greatest element of a set is its maximum.                           *)
LEMMA MaxIs ==
  ASSUME NEW S \in SUBSET Int, NEW m \in S, \A d \in S : d <= m
  PROVE  Max(S) = m
<1> DEFINE IsMax(x) == x \in S /\ \A y \in S : x >= y
<1>1. IsMax(m)
  OBVIOUS
<1>2. Max(S) = CHOOSE x : IsMax(x)
  BY DEF Max
<1>3. IsMax(CHOOSE x : IsMax(x))
  BY <1>1
<1> HIDE DEF IsMax
<1>4. \A x : IsMax(x) => x = m
  BY DEF IsMax
<1> QED BY <1>2, <1>3, <1>4

(* At every hour the CN target is a session that is over, and no later     *)
(* session is.                                                             *)
LEMMA CnTarget ==
  ASSUME now \in 7 * 24..LastHour
  PROVE  /\ CnTargetClosed
         /\ LastCnTradingDate \in Nat /\ CnClosed(now, LastCnTradingDate)
<1> DEFINE T == LastCnTradingDate
           closed == {d \in Session : CnClosed(now, d)}
<1>1. /\ Day \in Nat /\ Day >= 7 /\ Day <= DayOf(LastHour) /\ DayOf(LastHour) \in Nat
      /\ Hour \in 0..23 /\ now = 24 * Day + Hour
  BY DEF Day, DayOf, Hour
<1>2. PICK w \in Nat : Day = 7 * w + Weekday /\ Weekday \in 0..6 /\ w >= 1
  <2>1. Day = 7 * (Day \div 7) + Weekday /\ Weekday \in 0..6 /\ Day \div 7 \in Nat
    BY <1>1 DEF Weekday
  <2> QED BY <1>1, <2>1
<1> HIDE DEF T
<1>3. \/ Weekday \in {5, 6} /\ T = 7 * w + 4
      \/ Weekday = 0 /\ Hour < 16 /\ T = 7 * (w - 1) + 4
      \/ Weekday \in 1..4 /\ Hour < 16 /\ T = 7 * w + (Weekday - 1)
      \/ Weekday \in 0..4 /\ Hour >= 16 /\ T = 7 * w + Weekday
  BY <1>1, <1>2 DEF T, LastCnTradingDate
<1>4. T \in Nat /\ T <= Day /\ T % 7 <= 4
  BY <1>1, <1>2, <1>3
<1>5. T \in closed
  BY <1>1, <1>2, <1>3, <1>4 DEF Session, CnClosed
<1>6. \A d \in closed : d <= T
  BY <1>1, <1>2, <1>3 DEF Session, CnClosed
<1>7. closed \subseteq Int
  BY DEF Session
<1> QED BY <1>4, <1>5, <1>6, <1>7, MaxIs DEF T, CnTargetClosed

(* A US target before which New York has had its five o'clock is closed;   *)
(* so is the last day of a target week, at any hour.                       *)
LEMMA UsTargets ==
  ASSUME now \in Nat
  PROVE  /\ LastUsTradingDate \in Int /\ LastUsWeeklyDate \in Int
         /\ Hour >= 5 => \A d \in Nat : d <= LastUsTradingDate => UsClosed(now, d)
         /\ \A d \in Nat : d <= LastUsWeeklyDate => WeekClosed(now, d)
<1>1. Day \in Nat /\ Hour \in 0..23 /\ now = 24 * Day + Hour
  BY DEF Day, DayOf, Hour
<1>2. Weekday \in 0..6
  BY <1>1 DEF Weekday
<1>3. LastUsTradingDate \in Int /\ LastUsTradingDate <= Day - 1
  BY <1>1, <1>2 DEF LastUsTradingDate
<1>4. /\ LastUsWeeklyDate \in Int
      /\ LastUsWeeklyDate <= Day - 6 \/ (LastUsWeeklyDate = Day - 5 /\ Hour >= 5)
  BY <1>1, <1>2 DEF LastUsWeeklyDate
<1>5. ASSUME Hour >= 5, NEW d \in Nat, d <= LastUsTradingDate PROVE UsClosed(now, d)
  <2>1. now >= 24 * (d + 1) + 5
    BY <1>1, <1>3, <1>5
  <2> QED BY <2>1 DEF UsClosed
<1>6. ASSUME NEW d \in Nat, d <= LastUsWeeklyDate PROVE WeekClosed(now, d)
  <2>1. now >= 24 * (d + 5) + 5
    BY <1>1, <1>4, <1>6
  <2>2. (d + 4) + 1 = d + 5
    OBVIOUS
  <2> QED BY <2>1, <2>2 DEF WeekClosed, UsClosed
<1> QED BY <1>3, <1>4, <1>5, <1>6

(* The first state is one.                                                 *)
LEMMA DailyInit == Init => TypeOK
<1> SUFFICES ASSUME Init PROVE TypeOK
  OBVIOUS
<1>1. bars \in [Slot -> {"none", "open", "final"}]
  BY DEF Init
<1>2. now \in 0..LastHour /\ began \in 0..now /\ failures \in 0..Failures
  BY DEF Init
<1>3. covered \in BOOLEAN
  BY Zenon DEF Init
<1>4. feed \in Feed /\ left \subseteq 1..9 /\ target \in {NoTarget} \cup Session
  BY DEF Init
<1> QED BY <1>1, <1>2, <1>3, <1>4 DEF TypeOK

(* What TypeOK says of a command, apart from covered; the clock is named   *)
(* on its own.                                                             *)
CommandOK ==
  /\ bars \in [Slot -> {"none", "open", "final"}]
  /\ left \subseteq 1..9 /\ began \in 0..now
  /\ target \in {NoTarget} \cup Session
  /\ failures \in 0..Failures

(* Whether a command has covered its feed is a truth value.                *)
LEMMA CoveredStep ==
  ASSUME covered \in BOOLEAN, Next
  PROVE  covered' \in BOOLEAN
<1>1. \/ covered' = covered \/ covered' = FALSE
      \/ \E steps \in Commands : covered' = (StepOf[feed] \in steps)
  BY Zenon DEF Next, Proceeds, Tick, Begin, Passes, Probe, DownloadUs, DownloadIndex,
     DownloadCn, DownloadEtf, DownloadHk, Fails, Raises, Returns, Weekly, Intraday,
     commandVars
<1>2. ASSUME NEW S, covered' = (StepOf[feed] \in S) PROVE covered' \in BOOLEAN
  <2>1. (StepOf[feed] \in S) \in BOOLEAN
    OBVIOUS
  <2> QED BY <1>2, <2>1, Zenon
<1>3. CASE covered' = covered \/ covered' = FALSE
  BY <1>3, Zenon
<1> QED BY <1>1, <1>2, <1>3, Zenon

(* Most steps of a command leave the clock alone and finish one step.      *)
LEMMA CommandKept ==
  ASSUME CommandOK, now \in 0..LastHour, UNCHANGED <<now, feed>>,
         bars' \in [Slot -> {"none", "open", "final"}],
         left' \subseteq 1..9, began' \in {began, now, 0},
         target' \in {target, NoTarget} \cup Session,
         \/ failures' = failures
         \/ failures < Failures /\ failures' = failures + 1
  PROVE  CommandOK'
<1>1. target' \in {NoTarget} \cup Session
  BY DEF CommandOK
<1>2. failures' \in 0..Failures
  BY DEF CommandOK
<1>3. began' \in 0..now'
  BY DEF CommandOK
<1>4. bars' \in [Slot' -> {"none", "open", "final"}]
  BY DEF Slot
<1> QED BY <1>1, <1>2, <1>3, <1>4 DEF CommandOK

(* The steps of the daily command keep their state well formed.            *)
LEMMA ProceedsStep ==
  ASSUME CommandOK, now \in 0..LastHour, Proceeds
  PROVE  CommandOK' /\ UNCHANGED <<now, feed>>
<1> USE DEF CommandOK, Step, Slot, Inserted, Updated, BarOf
<1>1. ASSUME NEW p \in 1..9, Passes(p) PROVE CommandOK' /\ UNCHANGED <<now, feed>>
  BY <1>1 DEF Passes
<1>2. CASE Probe
  <2>1. /\ UNCHANGED <<now, feed, bars, began, failures>> /\ left' \subseteq left
        /\ target' \in {NoTarget} \cup Session
    BY <1>2, Zenon DEF Probe, Step
  <2> QED BY <2>1
<1>3. CASE DownloadUs
  BY <1>3 DEF DownloadUs
<1>4. CASE DownloadIndex
  BY <1>4 DEF DownloadIndex
<1>5. CASE DownloadCn
  BY <1>5 DEF DownloadCn
<1>6. CASE DownloadEtf
  BY <1>6 DEF DownloadEtf
<1>7. CASE DownloadHk
  BY <1>7 DEF DownloadHk
<1>8. CASE Returns
  <2>1. began' = 0 /\ target' = NoTarget /\ UNCHANGED <<now, feed, bars, left, failures>>
    BY <1>8, Zenon DEF Returns
  <2>2. left \subseteq 1..9 /\ bars \in [Slot -> {"none", "open", "final"}]
    BY DEF CommandOK
  <2> QED BY <2>1, <2>2, CommandKept
<1> QED BY <1>1, <1>2, <1>3, <1>4, <1>5, <1>6, <1>7, <1>8 DEF Proceeds

(* So do the others.                                                       *)
LEMMA OtherStep ==
  ASSUME CommandOK, now \in 0..LastHour, Next, ~ Proceeds
  PROVE  CommandOK' /\ now' \in 0..LastHour /\ UNCHANGED feed
<1> USE DEF CommandOK, Slot
<1>1. CASE Tick
  <2>1. PICK h \in now + 1..now + 24 : h <= LastHour /\ now' = h
    BY <1>1 DEF Tick
  <2>2. UNCHANGED <<feed, bars, left, began, target, failures>>
    BY <1>1 DEF Tick, commandVars
  <2>3. now \in Nat /\ h \in Int /\ h > now
    <3> HIDE DEF CommandOK
    <3> QED OBVIOUS
  <2>4. now' \in 0..LastHour /\ began' \in 0..now'
    <3>1. began \in 0..now
      BY DEF CommandOK
    <3> HIDE DEF CommandOK
    <3> QED BY <2>1, <2>2, <2>3, <3>1
  <2>5. bars' \in [Slot' -> {"none", "open", "final"}]
    BY <2>2
  <2> QED BY <2>2, <2>3, <2>4, <2>5
<1>2. ASSUME NEW steps \in Commands, Begin(steps)
      PROVE  CommandOK' /\ now' \in 0..LastHour /\ UNCHANGED feed
  <2>1. /\ left' = steps /\ began' = now /\ target' = NoTarget
        /\ UNCHANGED <<now, feed, bars, failures>>
    BY <1>2, Zenon DEF Begin
  <2>2. steps \subseteq 1..9 /\ bars \in [Slot -> {"none", "open", "final"}]
    BY DEF CommandOK
  <2> QED BY <2>1, <2>2, CommandKept
<1>3. ASSUME NEW p \in 1..9, Fails(p)
      PROVE  CommandOK' /\ now' \in 0..LastHour /\ UNCHANGED feed
  <2>1. /\ left' = left \ {p} /\ target' = NoTarget
        /\ failures < Failures /\ failures' = failures + 1
        /\ UNCHANGED <<now, feed, bars, began>>
    BY <1>3, Zenon DEF Fails, Step
  <2>2. left \subseteq 1..9 /\ bars \in [Slot -> {"none", "open", "final"}]
    BY DEF CommandOK
  <2> QED BY <2>1, <2>2, CommandKept
<1>4. CASE Raises
  <2>1. /\ left' = {} /\ began' = 0 /\ target' = NoTarget
        /\ failures < Failures /\ failures' = failures + 1
        /\ UNCHANGED <<now, feed, bars>>
    BY <1>4, Zenon DEF Raises
  <2>2. left \subseteq 1..9 /\ bars \in [Slot -> {"none", "open", "final"}]
    BY DEF CommandOK
  <2> QED BY <2>1, <2>2, CommandKept
<1>5. CASE Weekly
  BY <1>5 DEF Weekly, Inserted, BarOf, commandVars
<1>6. CASE Intraday
  BY <1>6 DEF Intraday, Inserted, BarOf, commandVars
<1> QED BY <1>1, <1>2, <1>3, <1>4, <1>5, <1>6 DEF Next

(* Every step leads from a well-formed state to one.                       *)
LEMMA DailyStep == TypeOK /\ [Next]_allVars => TypeOK'
<1> SUFFICES ASSUME TypeOK, [Next]_allVars PROVE TypeOK'
  OBVIOUS
<1>1. CASE Next
  <2>1. CommandOK' /\ now' \in 0..LastHour /\ UNCHANGED feed
    <3>1. CommandOK /\ now \in 0..LastHour
      BY DEF TypeOK, CommandOK
    <3> QED BY <1>1, <3>1, ProceedsStep, OtherStep
  <2>2. covered' \in BOOLEAN
    BY <1>1, CoveredStep DEF TypeOK
  <2> QED BY <2>1, <2>2 DEF TypeOK, CommandOK
<1>2. CASE UNCHANGED allVars
  BY <1>2 DEF allVars, commandVars, TypeOK, Slot
<1> QED BY <1>1, <1>2

(* A command's state is well formed and the clock within its bound.        *)
THEOREM DailyTypeOK == Spec => []TypeOK
  BY DailyInit, DailyStep, PTL DEF Spec

(* The clock is past its first week.                                       *)
LEMMA PastFirstWeek == Spec => [](now >= 7 * 24)
<1>1. Init => now >= 7 * 24
  BY DEF Init
<1>2. TypeOK /\ now >= 7 * 24 /\ [Next]_allVars => (now >= 7 * 24)'
  <2> SUFFICES ASSUME TypeOK, now >= 7 * 24, [Next]_allVars PROVE now' >= 7 * 24
    OBVIOUS
  <2>1. CASE Tick
    BY <2>1 DEF Tick, TypeOK
  <2>2. CASE UNCHANGED now
    BY <2>2
  <2>3. Tick \/ UNCHANGED now
    BY DEF Next, allVars, Proceeds, Begin, Passes, Probe, DownloadUs, DownloadIndex,
       DownloadCn, DownloadEtf, DownloadHk, Fails, Raises, Returns, Weekly, Intraday, Step
  <2> QED BY <2>1, <2>2, <2>3
<1> QED BY <1>1, <1>2, DailyTypeOK, PTL DEF Spec

(* The CN target is right at every hour.                                   *)
THEOREM CnTargetIsClosed == Spec => []CnTargetClosed
<1>1. TypeOK /\ now >= 7 * 24 => CnTargetClosed
  BY CnTarget DEF TypeOK
<1> QED BY <1>1, DailyTypeOK, PastFirstWeek, PTL

(* What UnfinishedOnlyAtNight says of one step.                            *)
NightOnly ==
  \A d \in Slot : bars[d] # "open" /\ bars'[d] = "open" =>
    \/ feed \in {"us", "us_index"} /\ Hour < 5
    \/ feed = "us_intraday" /\ (Hour < 5 \/ Hour >= 21)

(* A day that is stored unfinished is one of those asked for, and not over.*)
LEMMA StoresOpen ==
  ASSUME TypeOK, Proceeds \/ Weekly \/ Intraday,
         NEW d \in Slot, bars[d] # "open", bars'[d] = "open"
  PROVE  \/ /\ feed \in {"us", "us_index"} /\ d <= LastUsTradingDate
            /\ ~ UsClosed(now, d)
         \/ feed = "cn" /\ d <= LastCnTradingDate /\ ~ CnClosed(now, d)
         \/ feed = "hk" /\ d <= Day - 1 /\ ~ CnClosed(now, d)
         \/ feed = "us_weekly" /\ d <= LastUsWeeklyDate /\ ~ WeekClosed(now, d)
         \/ feed = "us_intraday" /\ UsOpened(now, d) /\ ~ UsClosed(now, d)
<1> USE DEF Inserted, Updated, BarOf, Finished
<1>1. CASE DownloadUs
  BY <1>1 DEF DownloadUs
<1>2. CASE DownloadIndex
  BY <1>2 DEF DownloadIndex
<1>3. CASE DownloadCn
  BY <1>3 DEF DownloadCn
<1>4. CASE DownloadEtf
  BY <1>4 DEF DownloadEtf
<1>5. CASE DownloadHk
  BY <1>5 DEF DownloadHk
<1>6. CASE Weekly
  BY <1>6 DEF Weekly
<1>7. CASE Intraday
  BY <1>7 DEF Intraday
<1>8. CASE Probe \/ Returns \/ \E p \in 1..9 : Passes(p)
  <2>1. UNCHANGED bars
    BY <1>8, Zenon DEF Probe, Returns, Passes
  <2> QED BY <2>1
<1> QED BY <1>1, <1>2, <1>3, <1>4, <1>5, <1>6, <1>7, <1>8 DEF Proceeds

(* At five o'clock New York is closed, and the targets of the other feeds  *)
(* are over at any hour.                                                   *)
LEMMA NightStep == TypeOK /\ now >= 7 * 24 /\ [Next]_allVars => [NightOnly]_allVars
<1> SUFFICES ASSUME TypeOK, now >= 7 * 24, Next, NEW d \in Slot,
                    bars[d] # "open", bars'[d] = "open"
             PROVE  \/ feed \in {"us", "us_index"} /\ Hour < 5
                    \/ feed = "us_intraday" /\ (Hour < 5 \/ Hour >= 21)
  BY DEF NightOnly
<1>1. now \in 7 * 24..LastHour /\ now \in Nat /\ d \in Nat
  <2>1. now \in 7 * 24..LastHour /\ now \in Nat
    BY DEF TypeOK
  <2>2. DayOf(LastHour) \in Nat
    BY DEF DayOf
  <2>3. d \in 0..DayOf(LastHour)
    BY DEF Slot, Monday, Session
  <2> QED BY <2>1, <2>2, <2>3
<1>2. Day \in Nat /\ Hour \in 0..23 /\ now = 24 * Day + Hour
  BY <1>1 DEF Day, DayOf, Hour
<1>3. CASE Proceeds \/ Weekly \/ Intraday
  <2>1. CASE feed \in {"us", "us_index"} /\ d <= LastUsTradingDate /\ ~ UsClosed(now, d)
    BY <1>1, <1>2, <2>1, UsTargets
  <2>2. CASE feed = "cn" /\ d <= LastCnTradingDate /\ ~ CnClosed(now, d)
    BY <1>1, <2>2, CnTarget DEF CnClosed
  <2>3. CASE feed = "hk" /\ d <= Day - 1 /\ ~ CnClosed(now, d)
    BY <1>1, <1>2, <2>3 DEF CnClosed
  <2>4. CASE feed = "us_weekly" /\ d <= LastUsWeeklyDate /\ ~ WeekClosed(now, d)
    BY <1>1, <2>4, UsTargets
  <2>5. CASE feed = "us_intraday" /\ UsOpened(now, d) /\ ~ UsClosed(now, d)
    <3>1. now >= 24 * d + 21 /\ ~ (now >= 24 * (d + 1) + 5)
      BY <2>5 DEF UsOpened, UsClosed
    <3> QED BY <1>1, <1>2, <2>5, <3>1
  <2> QED BY <1>3, <2>1, <2>2, <2>3, <2>4, <2>5, StoresOpen
<1>4. CASE UNCHANGED bars
  BY <1>4
<1>5. Proceeds \/ Weekly \/ Intraday \/ UNCHANGED bars
  BY DEF Next, Tick, Begin, Fails, Raises
<1> QED BY <1>3, <1>4, <1>5

(* Unfinished bars are stored at night only, and only by the US feeds,     *)
(* at whatever hours the commands begin and however long they take.        *)
THEOREM FinishedByDay == Spec => UnfinishedOnlyAtNight
  BY NightStep, DailyTypeOK, PastFirstWeek, PTL DEF Spec, UnfinishedOnlyAtNight, NightOnly
-----------------------------------------------------------------------------
(***************************************************************************)
(* What a command has caught up with at its end: there are no gaps in what *)
(* is stored, so that what reaches beyond the last bar is all that is      *)
(* missing.                                                                *)
(***************************************************************************)

(* A set of naturals has a least element, Min.                             *)
LEMMA LeastNat ==
  ASSUME NEW T \in SUBSET Nat, T # {}
  PROVE  Min(T) \in T /\ \A y \in T : Min(T) <= y
<1> DEFINE R == {ss \in Nat \X Nat : ss[1] < ss[2]}
<1>1. IsWellFoundedOn(R, Nat)
  BY NatLessThanWellFounded DEF OpToRel
<1> HIDE DEF R
<1>2. \E x \in T : \A y \in T : ~ (<<y, x>> \in R)
  BY <1>1, WFMin
<1>3. \A x, y \in Nat : ~ (<<y, x>> \in R) => x <= y
  BY DEF R
<1>4. \E x \in T : \A y \in T : x <= y
  BY <1>2, <1>3
<1> QED BY <1>4 DEF Min

(* A set of days has a last one, Max.                                      *)
LEMMA LastDayOf ==
  ASSUME NEW n \in Nat, NEW T \in SUBSET (0..n), T # {}
  PROVE  Max(T) \in T /\ \A y \in T : y <= Max(T)
<1>0. T \subseteq Nat /\ T \subseteq Int
  OBVIOUS
<1> DEFINE U == {n - y : y \in T}
<1>1. U \in SUBSET Nat /\ U # {}
  <2>1. \A y \in 0..n : n - y \in Nat
    OBVIOUS
  <2> QED BY <2>1
<1>2. PICK u \in U : \A v \in U : u <= v
  <2> HIDE DEF U
  <2> QED BY <1>1, LeastNat
<1>3. PICK x \in T : u = n - x
  BY <1>2
<1>4. \A y \in T : y <= x
  <2> SUFFICES ASSUME NEW y \in T PROVE y <= x
    OBVIOUS
  <2>1. n - y \in U /\ y \in Nat /\ x \in Nat
    BY <1>0
  <2>2. n - x <= n - y
    BY <1>2, <1>3, <2>1
  <2> QED BY <2>1, <2>2
<1>5. Max(T) = x
  <2>1. T \in SUBSET Int /\ x \in T
    OBVIOUS
  <2> QED BY <2>1, <1>4, MaxIs
<1> QED BY <1>4, <1>5

(* The days of a slot are naturals up to the last one.                     *)
LEMMA SlotDays == Slot \subseteq 0..DayOf(LastHour) /\ DayOf(LastHour) \in Nat /\ Slot \subseteq Nat
<1>1. DayOf(LastHour) \in Nat
  BY DEF DayOf
<1> QED BY <1>1 DEF Slot, Monday, Session

(* The daily commands that are followed, and what their feeds have.        *)
Daily == feed \notin {"us_weekly", "us_intraday"}

NoGaps == \A d \in Stored : \A e \in Slot : e <= d => e \in Stored

(* What was over when the command began.                                   *)
Due == {d \in Slot : Over(began, d)}

(* A probe that has succeeded has looked for a session; none that was over *)
(* when the command began is later.                                        *)
ProbeInv ==
  feed = "us" /\ began > 0 /\ covered /\ UsPrices \in left =>
    \/ UsProbe \in left
    \/ target \in Session /\ \A d \in Due : d <= target

(* What a step has downloaded has all that was over.                       *)
DoneInv ==
  began > 0 /\ covered /\ StepOf[feed] \notin left => Due \subseteq Stored

CaughtInv ==
  /\ TypeOK /\ now >= 7 * 24
  /\ 0 \in Stored /\ target < Day
  /\ Daily => NoGaps
  /\ ~ Daily => began = 0
  /\ Daily => ProbeInv /\ DoneInv

(* The US prices are updated so often that the probe's target is within    *)
(* the lookback of the last bar, weekends apart.                           *)
Punctual ==
  feed = "us" => \A d \in Session : d < target - Lookback => d <= Last

(* What Over says of each feed.                                            *)
LEMMA OverIs ==
  ASSUME NEW h, NEW d
  PROVE  /\ feed \in {"cn", "cn_etf"} => (Over(h, d) <=> CnClosed(h, d))
         /\ feed = "hk" => (Over(h, d) <=> d < DayOf(h))
         /\ feed \in {"us", "us_index"} => (Over(h, d) <=> UsClosed(h, d))
  BY DEF Over

(* The feeds, and the steps of theirs.                                     *)
LEMMA Feeds ==
  /\ Feed = {"us", "us_index", "cn", "cn_etf", "hk", "us_weekly", "us_intraday"}
  /\ StepOf["us"] = UsPrices /\ StepOf["us_index"] = UsIndexPrices
  /\ StepOf["cn"] = CnPrices /\ StepOf["cn_etf"] = CnEtf /\ StepOf["hk"] = HkPrices
  BY DEF Feed, StepOf

(* A later hour is of no earlier day.                                      *)
LEMMA DaysPass ==
  ASSUME NEW g \in Nat, NEW h \in Nat, g <= h
  PROVE  DayOf(g) <= DayOf(h) /\ DayOf(g) \in Nat /\ DayOf(h) \in Nat
  BY DEF DayOf

(* What is over at an hour stays over.                                     *)
LEMMA OverLater ==
  ASSUME NEW g \in Nat, NEW h \in Nat, g <= h, NEW d \in Nat, Daily, feed \in Feed, Over(g, d)
  PROVE  Over(h, d)
<1>1. feed \in {"cn", "cn_etf", "hk", "us", "us_index"}
  BY Feeds DEF Daily
<1>2. DayOf(g) <= DayOf(h) /\ DayOf(g) \in Nat /\ DayOf(h) \in Nat
  BY DaysPass
<1>3. CASE feed \in {"cn", "cn_etf"}
  BY <1>3, OverIs DEF CnClosed
<1>4. CASE feed = "hk"
  BY <1>2, <1>4, OverIs
<1>5. CASE feed \in {"us", "us_index"}
  BY <1>5, OverIs DEF UsClosed
<1> QED BY <1>1, <1>3, <1>4, <1>5

(* Downloads only add bars: those of the days asked for.                   *)
LEMMA StoresDays ==
  ASSUME TypeOK, NEW T,
         \/ bars' = Inserted(T)
         \/ bars' = Updated(T),
         UNCHANGED feed
  PROVE  Stored' = Stored \cup (T \cap Slot)
  BY DEF TypeOK, Inserted, Updated, BarOf, Stored, Slot

(* The last bar is one.                                                    *)
LEMMA LastIs ==
  ASSUME TypeOK, 0 \in Stored
  PROVE  Last \in Stored /\ Last \in Nat /\ \A d \in Stored : d <= Last
  BY SlotDays, LastDayOf DEF Last, Stored

(* A download of all days after the last bar, up to some day, leaves no    *)
(* gap, and nothing is missing up to that day.                             *)
LEMMA Continues ==
  ASSUME TypeOK, 0 \in Stored, NoGaps, UNCHANGED feed, NEW e \in Int, NEW T,
         Stored' = Stored \cup (T \cap Slot),
         \A d \in T \cap Slot : d <= e,
         \A d \in Slot : Last < d /\ d <= e => d \in T
  PROVE  /\ NoGaps'
         /\ \A d \in Slot : d <= e => d \in Stored'
         /\ 0 \in Stored'
<1>1. Last \in Stored /\ Last \in Nat /\ \A d \in Stored : d <= Last
  BY LastIs
<1>2. Slot' = Slot
  BY DEF Slot
<1>3. \A d \in Slot : d <= e => d \in Stored'
  BY <1>1, SlotDays DEF NoGaps
<1>4. ASSUME NEW d \in Stored', NEW f \in Slot', f <= d PROVE f \in Stored'
  <2>1. CASE d \in Stored
    BY <1>2, <1>4, <2>1 DEF NoGaps
  <2>2. CASE d \in T \cap Slot
    <3>1. d \in Nat /\ f \in Nat /\ f \in Slot /\ d <= e
      BY <1>2, <1>4, <2>2, SlotDays
    <3> QED BY <1>3, <1>4, <3>1
  <2> QED BY <1>4, <2>1, <2>2
<1> QED BY <1>3, <1>4 DEF NoGaps

(* The targets reach as far as the sessions that are over.                 *)
LEMMA UsReaches ==
  ASSUME now \in Nat
  PROVE  /\ \A d \in Session : UsClosed(now, d) => d <= LastUsTradingDate
         /\ LastUsTradingDate < Day
<1>1. Day \in Nat /\ Hour \in 0..23 /\ now = 24 * Day + Hour
  BY DEF Day, DayOf, Hour
<1>2. PICK w \in Nat : Day = 7 * w + Weekday /\ Weekday \in 0..6
  <2>1. Day = 7 * (Day \div 7) + Weekday /\ Weekday \in 0..6 /\ Day \div 7 \in Nat
    BY <1>1 DEF Weekday
  <2> QED BY <2>1
<1>3. LastUsTradingDate < Day
  BY <1>1, <1>2 DEF LastUsTradingDate
<1>4. ASSUME NEW d \in Session, UsClosed(now, d) PROVE d <= LastUsTradingDate
  <2>1. d \in Nat /\ d % 7 <= 4
    BY SlotDays DEF Session, DayOf
  <2>2. d <= Day - 1 /\ (Hour < 5 => d <= Day - 2)
    BY <1>1, <1>4, <2>1 DEF UsClosed
  <2>3. CASE Weekday \in 1..4
    BY <1>1, <1>2, <2>1, <2>2, <2>3 DEF LastUsTradingDate
  <2>4. CASE Weekday \in {5, 6}
    BY <1>1, <1>2, <2>1, <2>2, <2>4 DEF LastUsTradingDate
  <2>5. CASE Weekday = 0
    BY <1>1, <1>2, <2>1, <2>2, <2>5 DEF LastUsTradingDate
  <2> QED BY <1>2, <2>3, <2>4, <2>5
<1> QED BY <1>3, <1>4

LEMMA CnReaches ==
  ASSUME now \in 7 * 24..LastHour
  PROVE  /\ \A d \in Session : CnClosed(now, d) => d <= LastCnTradingDate
         /\ LastCnTradingDate \in Nat
<1> DEFINE closed == {d \in Session : CnClosed(now, d)}
           n == DayOf(LastHour)
<1>1. n \in Nat /\ closed \in SUBSET (0..n) /\ 0 \in closed
  BY DEF Session, CnClosed, DayOf
<1>2. \A d \in closed : d <= Max(closed)
  <2> HIDE DEF closed, n
  <2> QED BY <1>1, LastDayOf
<1> QED BY <1>2, CnTarget DEF CnTargetClosed

-----------------------------------------------------------------------------
(* The steps.                                                              *)

LEMMA CaughtInit == Init => CaughtInv
<1> SUFFICES ASSUME Init PROVE CaughtInv
  OBVIOUS
<1>1. TypeOK
  BY DailyInit
<1>2. now >= 7 * 24 /\ began = 0 /\ target = -1 /\ 0 \in Slot
  BY DEF Init, Slot, Monday, Session, DayOf, NoTarget
<1>3. 0 \in Stored /\ NoGaps
  BY <1>2, SlotDays DEF Init, Stored, NoGaps
<1>4. Day \in Nat
  BY <1>2 DEF Day, DayOf, Init
<1>5. ProbeInv /\ DoneInv
  BY <1>2 DEF ProbeInv, DoneInv
<1> QED BY <1>1, <1>2, <1>3, <1>4, <1>5 DEF CaughtInv

(* A step that stores nothing and leaves the command where it is.          *)
LEMMA NothingStored ==
  ASSUME UNCHANGED <<feed, bars>>
  PROVE  Stored' = Stored /\ (NoGaps => NoGaps') /\ Slot' = Slot /\ Daily' = Daily
  BY DEF Stored, NoGaps, Slot, Daily

(* What was due does not depend on the clock.                              *)
LEMMA DueKept ==
  ASSUME UNCHANGED <<feed, began>>
  PROVE  Due' = Due
<1>1. Slot' = Slot
  BY DEF Slot
<1>2. \A d : Over(began, d)' = Over(began, d)
  BY Zenon DEF Over, CnClosed, WeekClosed, UsClosed, DayOf
<1> QED BY <1>1, <1>2, Zenon DEF Due

(* What the steps of the daily command have to show, apart from the types. *)
Caught ==
  /\ 0 \in Stored /\ target < Day
  /\ Daily => NoGaps
  /\ ~ Daily => began = 0
  /\ Daily => ProbeInv /\ DoneInv

(* What was due is over now.                                               *)
LEMMA DueIsOver ==
  ASSUME CaughtInv, Daily
  PROVE  /\ \A d \in Due : d \in Slot /\ Over(now, d)
         /\ now \in 7 * 24..LastHour /\ now \in Nat
<1>1. /\ began \in Nat /\ now \in Nat /\ began <= now /\ feed \in Feed
      /\ now \in 7 * 24..LastHour
  BY DEF CaughtInv, TypeOK
<1>2. ASSUME NEW d \in Due PROVE d \in Slot /\ Over(now, d)
  <2>1. d \in Slot /\ Over(began, d) /\ d \in Nat
    BY <1>2, SlotDays DEF Due
  <2> QED BY <1>1, <2>1, OverLater
<1> QED BY <1>1, <1>2

(* The download of the feed: it reaches to what was due, from the last bar.*)
LEMMA DownloadStep ==
  ASSUME CaughtInv, Daily, Step(StepOf[feed]), UNCHANGED <<target, covered>>,
         NEW e \in Int, NEW T, bars' = Inserted(T) \/ bars' = Updated(T),
         \A d \in T \cap Slot : d <= e,
         \A d \in Slot : Last < d /\ d <= e => d \in T,
         \A d \in Due : d <= e
  PROVE  Caught'
<1>1. UNCHANGED <<now, feed, began>> /\ StepOf[feed] \notin left'
  BY DEF Step
<1>2. Stored' = Stored \cup (T \cap Slot)
  BY <1>1, StoresDays DEF CaughtInv
<1>3. NoGaps' /\ 0 \in Stored' /\ \A d \in Slot : d <= e => d \in Stored'
  BY <1>1, <1>2, Continues DEF CaughtInv
<1>4. Due' = Due /\ Due \subseteq Slot
  BY <1>1, DueKept DEF Due
<1>5. DoneInv'
  BY <1>3, <1>4 DEF DoneInv
<1>6. ProbeInv'
  BY <1>1, Feeds DEF ProbeInv
<1>7. Daily' /\ (target < Day)'
  BY <1>1 DEF CaughtInv, Daily, Day
<1> QED BY <1>3, <1>5, <1>6, <1>7 DEF Caught

(* The first of the steps that are left.                                   *)
LEMMA ProbeIsFirst ==
  ASSUME TypeOK, Step(UsPrices)
  PROVE  UsProbe \notin left
<1>1. left \in SUBSET Nat /\ left # {} /\ Min(left) = 3
  BY DEF TypeOK, Step, UsPrices
<1>2. \A y \in left : 3 <= y
  BY <1>1, LeastNat
<1> QED BY <1>2 DEF UsProbe

LEMMA MaxOfTwo ==
  ASSUME NEW a \in Int, NEW b \in Int
  PROVE  Max({a, b}) \in {a, b} /\ a <= Max({a, b}) /\ b <= Max({a, b})
<1>1. \E x \in {a, b} : \A y \in {a, b} : x >= y
  OBVIOUS
<1> QED BY <1>1 DEF Max

LEMMA UsStep ==
  ASSUME CaughtInv, Punctual, DownloadUs
  PROVE  Caught'
<1>1. feed = "us" /\ Step(UsPrices) /\ UNCHANGED <<target, covered>> /\ Daily
  BY DEF DownloadUs, Daily
<1>2. StepOf[feed] = UsPrices /\ UsProbe \notin left /\ UsPrices \in left
  <2>1. UsProbe \notin left
    BY <1>1, ProbeIsFirst DEF CaughtInv
  <2>2. UsPrices \in left
    BY <1>1, LeastNat DEF CaughtInv, TypeOK, Step
  <2> QED BY <1>1, <2>1, <2>2, Feeds
<1>3. /\ now \in Nat /\ \A d \in Due : d \in Slot /\ UsClosed(now, d)
      /\ Slot = Session
  <2>1. Slot = Session
    BY <1>1 DEF Slot
  <2> QED BY <1>1, <2>1, DueIsOver, OverIs
<1>4. /\ LastUsTradingDate \in Int /\ \A d \in Due : d <= LastUsTradingDate
  BY <1>3, UsTargets, UsReaches
<1>5. Last \in Nat /\ target \in Int /\ Lookback \in Nat /\ 0 \in Stored
      /\ Last \in Stored /\ \A d \in Stored : d <= Last
  BY LastIs, SlotDays DEF CaughtInv, TypeOK, NoTarget, Session, DayOf
<1>6. CASE Last < target
  <2> DEFINE a == Max({Last + 1, target - Lookback})
             T == a..LastUsTradingDate
  <2>1. a \in {Last + 1, target - Lookback} /\ a \in Int
    <3>1. Last + 1 \in Int /\ target - Lookback \in Int
      BY <1>5
    <3>2. a \in {Last + 1, target - Lookback}
      BY <3>1, MaxOfTwo
    <3> HIDE DEF a
    <3> QED BY <3>1, <3>2
  <2>2. bars' = Inserted(T)
    BY <1>6 DEF DownloadUs
  <2> HIDE DEF a
  <2>3. ASSUME NEW d \in Slot, Last < d, d <= LastUsTradingDate PROVE d \in T
    <3>1. d \in Session /\ d \in Int
      BY <1>3, SlotDays
    <3>2. ~ (d < target - Lookback)
      BY <1>1, <1>5, <2>3, <3>1 DEF Punctual
    <3> QED BY <1>4, <1>5, <2>1, <2>3, <3>1, <3>2
  <2>4. \A d \in T \cap Slot : d <= LastUsTradingDate
    BY <1>4, <2>1
  <2> HIDE DEF T
  <2> QED BY <1>1, <1>2, <1>4, <2>2, <2>3, <2>4, DownloadStep
<1>7. CASE ~ (Last < target)
  <2>1. bars' = bars
    BY <1>7 DEF DownloadUs
  <2>2. UNCHANGED <<now, feed, began>> /\ StepOf[feed] \notin left'
    BY <1>1, <1>2 DEF Step
  <2>3. Stored' = Stored /\ NoGaps' /\ Slot' = Slot /\ Daily' /\ Due' = Due
    BY <1>1, <2>1, <2>2, NothingStored, DueKept DEF CaughtInv
  <2>4. covered /\ began > 0 => Due \subseteq Stored
    <3> SUFFICES ASSUME covered, began > 0, NEW d \in Due PROVE d \in Stored
      OBVIOUS
    <3>1. target \in Session /\ d <= target
      BY <1>1, <1>2 DEF CaughtInv, ProbeInv
    <3>2. d <= Last /\ d \in Slot
      <4>1. d \in Slot /\ d \in Nat
        BY <1>3, SlotDays
      <4> QED BY <1>5, <1>7, <3>1, <4>1
    <3> QED BY <1>1, <1>5, <3>2 DEF CaughtInv, NoGaps
  <2>5. DoneInv'
    BY <1>1, <2>2, <2>3, <2>4 DEF DoneInv
  <2>6. ProbeInv'
    BY <1>2, <2>2 DEF ProbeInv
  <2>7. (target < Day)' /\ 0 \in Stored'
    BY <1>1, <2>2, <2>3 DEF CaughtInv, Day
  <2> QED BY <2>3, <2>5, <2>6, <2>7 DEF Caught
<1> QED BY <1>6, <1>7

LEMMA OtherDownloads ==
  ASSUME CaughtInv, DownloadIndex \/ DownloadCn \/ DownloadEtf \/ DownloadHk
  PROVE  Caught'
<1>1. /\ feed \in {"us_index", "cn", "cn_etf", "hk"} /\ Daily
      /\ Step(StepOf[feed]) /\ UNCHANGED <<target, covered>>
  BY Feeds DEF DownloadIndex, DownloadCn, DownloadEtf, DownloadHk, Daily
<1>2. /\ \A d \in Due : d \in Slot /\ Over(now, d) /\ d \in Nat
      /\ now \in 7 * 24..LastHour /\ now \in Nat
  BY <1>1, DueIsOver, SlotDays
<1>3. Slot = Session /\ \A d \in Slot : d \in Nat
  BY <1>1, SlotDays DEF Slot
<1>4. Last \in Nat /\ Day \in Nat /\ Lookback \in Nat
  BY <1>2, LastIs DEF CaughtInv, Day, DayOf
<1>5. CASE DownloadIndex
  <2>1. feed = "us_index" /\ bars' = Inserted(Last + 1..LastUsTradingDate)
    BY <1>5 DEF DownloadIndex
  <2>2. LastUsTradingDate \in Int /\ \A d \in Due : d <= LastUsTradingDate
    BY <1>2, <1>3, <2>1, UsTargets, UsReaches, OverIs
  <2> DEFINE T == Last + 1..LastUsTradingDate
  <2>3. /\ \A d \in T \cap Slot : d <= LastUsTradingDate
        /\ \A d \in Slot : Last < d /\ d <= LastUsTradingDate => d \in T
    BY <1>3, <1>4, <2>2
  <2> QED BY <1>1, <2>1, <2>2, <2>3, DownloadStep
<1>6. CASE DownloadCn
  <2>1. feed = "cn" /\ bars' = Updated(Last + 1..LastCnTradingDate)
    BY <1>6 DEF DownloadCn
  <2>2. LastCnTradingDate \in Int /\ \A d \in Due : d <= LastCnTradingDate
    BY <1>2, <1>3, <2>1, CnReaches, OverIs
  <2> DEFINE T == Last + 1..LastCnTradingDate
  <2>3. /\ \A d \in T \cap Slot : d <= LastCnTradingDate
        /\ \A d \in Slot : Last < d /\ d <= LastCnTradingDate => d \in T
    BY <1>3, <1>4, <2>2
  <2> QED BY <1>1, <2>1, <2>2, <2>3, DownloadStep
<1>7. CASE DownloadEtf
  <2> DEFINE T == {d \in Session : d > Last /\ CnClosed(now, d)}
  <2>1. feed = "cn_etf" /\ bars' = Inserted(T)
    BY <1>7 DEF DownloadEtf
  <2>2. LastCnTradingDate \in Int /\ \A d \in Due : d <= LastCnTradingDate
    BY <1>2, <1>3, <2>1, CnReaches, OverIs
  <2>3. CnClosed(now, LastCnTradingDate)
    BY <1>2, CnTarget
  <2>4. \A d \in T \cap Slot : d <= LastCnTradingDate
    BY <1>2, CnReaches
  <2>5. \A d \in Slot : Last < d /\ d <= LastCnTradingDate => d \in T
    BY <1>2, <1>3, <1>4, <2>2, <2>3 DEF CnClosed
  <2> QED BY <1>1, <2>1, <2>2, <2>4, <2>5, DownloadStep
<1>8. CASE DownloadHk
  <2> DEFINE T == Last - Lookback..Day - 1
  <2>1. feed = "hk" /\ bars' = Updated(T)
    BY <1>8 DEF DownloadHk
  <2>2. Day - 1 \in Int /\ \A d \in Due : d <= Day - 1
    BY <1>2, <1>4, <2>1, OverIs DEF Day
  <2>3. /\ \A d \in T \cap Slot : d <= Day - 1
        /\ \A d \in Slot : Last < d /\ d <= Day - 1 => d \in T
    BY <1>3, <1>4
  <2> QED BY <1>1, <2>1, <2>2, <2>3, DownloadStep
<1> QED BY <1>5, <1>6, <1>7, <1>8

(* The probe looks for the newest session, or the command stops counting.  *)
LEMMA ProbeStep ==
  ASSUME CaughtInv, Probe
  PROVE  Caught'
<1>1. /\ feed = "us" /\ UNCHANGED <<now, feed, began, bars>> /\ Daily
      /\ left' = left \ {UsProbe}
  BY Zenon DEF Probe, Step, Daily
<1>2. Stored' = Stored /\ NoGaps' /\ Slot' = Slot /\ Daily' /\ Due' = Due
  BY <1>1, NothingStored, DueKept DEF CaughtInv
<1>3. /\ now \in Nat /\ \A d \in Due : d \in Session /\ UsClosed(now, d)
  BY <1>1, DueIsOver, OverIs DEF Slot
<1>4. Day' = Day /\ Day \in Nat
  BY <1>1, <1>3 DEF Day, DayOf
<1>5. CASE target' = LastUsTradingDate /\ LastUsTradingDate \in Session /\ UNCHANGED covered
  <2>1. (target < Day)' /\ \A d \in Due : d <= target'
    BY <1>3, <1>4, <1>5, UsReaches
  <2>2. ProbeInv'
    BY <1>2, <1>5, <2>1 DEF ProbeInv
  <2>3. DoneInv'
    <3>1. StepOf[feed] \notin left' => StepOf[feed] \notin left
      BY <1>1, Feeds DEF UsProbe, UsPrices
    <3> QED BY <1>1, <1>2, <1>5, <3>1 DEF DoneInv, CaughtInv
  <2> QED BY <1>2, <2>1, <2>2, <2>3 DEF Caught, CaughtInv
<1>6. CASE target' = NoTarget /\ covered' = FALSE
  <2>1. ProbeInv' /\ DoneInv'
    BY <1>6 DEF ProbeInv, DoneInv
  <2>2. (target < Day)'
    BY <1>4, <1>6 DEF NoTarget
  <2> QED BY <1>2, <2>1, <2>2 DEF Caught, CaughtInv
<1> QED BY <1>5, <1>6, Zenon DEF Probe

(* The steps that store nothing.                                           *)
LEMMA QuietSteps ==
  ASSUME CaughtInv,
         \/ Tick \/ Raises \/ Returns
         \/ \E steps \in Commands : Begin(steps)
         \/ \E p \in 1..9 : Passes(p) \/ Fails(p)
         \/ UNCHANGED allVars
  PROVE  Caught'
<1>1. UNCHANGED <<feed, bars>>
  BY Zenon DEF Tick, Raises, Returns, Begin, Passes, Fails, Step, allVars
<1>2. Stored' = Stored /\ (NoGaps => NoGaps') /\ Slot' = Slot /\ Daily' = Daily
  BY <1>1, NothingStored
<1>3. now \in Nat /\ began \in Nat /\ target \in Int /\ (Daily => NoGaps) /\ 0 \in Stored
  BY SlotDays DEF CaughtInv, TypeOK, NoTarget, Session
<1>4. Day \in Nat /\ target < Day
  BY <1>3 DEF CaughtInv, Day, DayOf
<1>5. CASE Tick \/ UNCHANGED allVars
  <2>1. UNCHANGED <<left, began, target, covered>>
    BY <1>5, Zenon DEF Tick, allVars, commandVars
  <2>2. now' \in Nat /\ now <= now'
    <3>1. CASE Tick
      <4>1. PICK h \in now + 1..now + 24 : now' = h
        BY <3>1, Zenon DEF Tick
      <4> QED BY <1>3, <4>1
    <3>2. CASE UNCHANGED allVars
      BY <1>3, <3>2 DEF allVars
    <3> QED BY <1>5, <3>1, <3>2
  <2>3. (target < Day)'
    <3>1. PICK h \in Nat : h = now' /\ now <= h
      BY <2>2
    <3>2. DayOf(now) <= DayOf(h) /\ DayOf(now) \in Nat /\ DayOf(h) \in Nat
      BY <1>3, <3>1, DaysPass
    <3>3. target < DayOf(h)
      BY <1>3, <1>4, <3>2 DEF Day
    <3>4. Day' = DayOf(h)
      BY <3>1 DEF Day, DayOf
    <3> QED BY <2>1, <3>3, <3>4
  <2>4. Due' = Due
    BY <1>1, <2>1, DueKept
  <2>5. Daily => ProbeInv' /\ DoneInv'
    BY <1>1, <1>2, <2>1, <2>4 DEF CaughtInv, ProbeInv, DoneInv
  <2> QED BY <1>2, <1>3, <2>1, <2>3, <2>5 DEF Caught, CaughtInv
<1>6. CASE Raises \/ Returns
  <2>1. began' = 0 /\ target' = NoTarget /\ UNCHANGED now
    BY <1>6, Zenon DEF Raises, Returns
  <2>2. (target < Day)'
    BY <1>4, <2>1 DEF NoTarget, Day, DayOf
  <2>3. ProbeInv' /\ DoneInv'
    BY <2>1 DEF ProbeInv, DoneInv
  <2> QED BY <1>2, <1>3, <2>1, <2>2, <2>3 DEF Caught
<1>7. ASSUME NEW steps \in Commands, Begin(steps) PROVE Caught'
  <2>1. /\ left' = steps /\ target' = NoTarget /\ UNCHANGED now /\ Daily
        /\ covered' <=> StepOf[feed] \in steps
    BY <1>7, Zenon DEF Begin, Daily
  <2>2. (target < Day)'
    BY <1>4, <2>1 DEF NoTarget, Day, DayOf
  <2>3. ProbeInv'
    BY <2>1, ProbeAssumption DEF ProbeInv
  <2>4. DoneInv'
    BY <1>1, <2>1 DEF DoneInv
  <2> QED BY <1>2, <1>3, <2>1, <2>2, <2>3, <2>4 DEF Caught
<1>8. ASSUME NEW p \in 1..9, Passes(p) PROVE Caught'
  <2>1. /\ UNCHANGED <<now, target, covered, began>> /\ left' = left \ {p}
        /\ p # StepOf[feed] /\ (p = UsProbe => feed # "us")
    BY <1>8, Zenon DEF Passes, Step
  <2>2. Due' = Due
    BY <1>1, <2>1, DueKept
  <2>3. Daily => ProbeInv'
    BY <1>1, <1>2, <2>1, <2>2 DEF CaughtInv, ProbeInv
  <2>4. Daily => DoneInv'
    BY <1>1, <1>2, <2>1, <2>2 DEF CaughtInv, DoneInv
  <2>5. (target < Day)'
    BY <1>4, <2>1 DEF Day
  <2> QED BY <1>2, <1>3, <2>1, <2>3, <2>4, <2>5 DEF Caught, CaughtInv
<1>9. ASSUME NEW p \in 1..9, Fails(p) PROVE Caught'
  <2>1. UNCHANGED <<now, began>> /\ target' = NoTarget /\ covered' = FALSE
    BY <1>9, Zenon DEF Fails, Step
  <2>2. (target < Day)'
    BY <1>4, <2>1 DEF NoTarget, Day, DayOf
  <2>3. ProbeInv' /\ DoneInv'
    BY <2>1 DEF ProbeInv, DoneInv
  <2> QED BY <1>2, <1>3, <2>1, <2>2, <2>3 DEF Caught, CaughtInv
<1> QED BY <1>5, <1>6, <1>7, <1>8, <1>9

(* The commands of other names leave the daily feeds alone.                *)
LEMMA OwnCommands ==
  ASSUME CaughtInv, Weekly \/ Intraday
  PROVE  Caught'
<1>1. /\ ~ Daily /\ began = 0 /\ UNCHANGED <<now, feed, left, began, target, covered>>
      /\ \E T : bars' = Inserted(T)
  BY Zenon DEF Weekly, Intraday, Daily, CaughtInv, commandVars
<1>2. 0 \in Stored'
  BY <1>1, StoresDays DEF CaughtInv
<1>3. ~ Daily' /\ (target < Day)'
  BY <1>1 DEF Daily, CaughtInv, Day, DayOf
<1> QED BY <1>1, <1>2, <1>3 DEF Caught

LEMMA CaughtStep == CaughtInv /\ Punctual /\ [Next]_allVars => CaughtInv'
<1> SUFFICES ASSUME CaughtInv, Punctual, [Next]_allVars PROVE CaughtInv'
  OBVIOUS
<1>1. TypeOK'
  BY DailyStep DEF CaughtInv
<1>2. Caught'
  BY UsStep, OtherDownloads, ProbeStep, QuietSteps, OwnCommands DEF Next, Proceeds
<1>3. (now >= 7 * 24)'
  <2>1. CASE Tick
    BY <2>1 DEF Tick, CaughtInv, TypeOK
  <2>2. CASE UNCHANGED now
    BY <2>2 DEF CaughtInv
  <2>3. Tick \/ UNCHANGED now
    BY DEF Next, allVars, Proceeds, Begin, Passes, Probe, DownloadUs, DownloadIndex,
       DownloadCn, DownloadEtf, DownloadHk, Fails, Raises, Returns, Weekly, Intraday, Step
  <2> QED BY <2>1, <2>2, <2>3
<1> QED BY <1>1, <1>2, <1>3 DEF CaughtInv, Caught

(* At its end a command that counts has stored what was due.               *)
LEMMA CaughtIsEnough == CaughtInv => CaughtUp
<1> SUFFICES ASSUME CaughtInv, began > 0, left = {}, covered,
                    NEW d \in Slot, Over(began, d)
             PROVE  d \in Stored
  BY DEF CaughtUp
<1>1. began \in Nat /\ Daily
  BY DEF CaughtInv, TypeOK
<1>2. Due \subseteq Stored
  BY <1>1 DEF CaughtInv, DoneInv
<1> QED BY <1>2 DEF Due

(* A daily command that ends without an error of its feed has stored all   *)
(* sessions that were over when it began, if the US prices are updated     *)
(* before the lookback has gone by; at whatever hours its steps look at    *)
(* the clock and whatever has failed before.                               *)
THEOREM CatchesUp == Spec /\ []Punctual => []CaughtUp
  BY CaughtInit, CaughtStep, CaughtIsEnough, PTL DEF Spec

(* The other feeds need no such rhythm.                                    *)
THEOREM OtherFeedsCatchUp == Spec /\ [](feed # "us") => []CaughtUp
<1>1. feed # "us" => Punctual
  BY DEF Punctual
<1> QED BY <1>1, CatchesUp, PTL

(* No step removes a bar, so that the first week remains.                  *)
FirstWeek == \A d \in Slot : d < 7 => d \in Stored

LEMMA FirstWeekStays == Spec => []FirstWeek
<1>1. Init => FirstWeek
  BY SlotDays DEF Init, FirstWeek, Stored
<1>2. TypeOK /\ FirstWeek /\ [Next]_allVars => FirstWeek'
  <2> SUFFICES ASSUME TypeOK, FirstWeek, [Next]_allVars PROVE FirstWeek'
    OBVIOUS
  <2>1. UNCHANGED feed
    BY Zenon DEF Next, allVars, Tick, Begin, Proceeds, Passes, Probe, DownloadUs,
       DownloadIndex, DownloadCn, DownloadEtf, DownloadHk, Fails, Raises, Returns,
       Weekly, Intraday, Step
  <2>2. \/ UNCHANGED bars
        \/ \E T : bars' = Inserted(T) \/ bars' = Updated(T)
    BY Zenon DEF Next, allVars, Tick, Begin, Proceeds, Passes, Probe, DownloadUs,
       DownloadIndex, DownloadCn, DownloadEtf, DownloadHk, Fails, Raises, Returns,
       Weekly, Intraday, Step
  <2>3. Stored \subseteq Stored' /\ Slot' = Slot
    <3>1. CASE UNCHANGED bars
      BY <2>1, <3>1, NothingStored
    <3>2. CASE \E T : bars' = Inserted(T) \/ bars' = Updated(T)
      BY <2>1, <3>2, StoresDays DEF Slot
    <3> QED BY <2>2, <3>1, <3>2
  <2> QED BY <2>3 DEF FirstWeek
<1> QED BY <1>1, <1>2, DailyTypeOK, PTL DEF Spec

(* Within the lookback of the first bars any rhythm will do.               *)
THEOREM SoonCatchesUp ==
  ASSUME DayOf(LastHour) <= Lookback + 8
  PROVE  Spec => []CaughtUp
<1>1. CaughtInv /\ FirstWeek => Punctual
  <2> SUFFICES ASSUME CaughtInv, FirstWeek, NEW d \in Session, feed = "us", d < target - Lookback
               PROVE  d <= Last
    BY DEF Punctual
  <2>1. d \in Nat /\ d % 7 <= 4
    BY SlotDays DEF Session, DayOf
  <2>2. Day \in Nat /\ Day <= DayOf(LastHour)
    BY DEF CaughtInv, TypeOK, Day, DayOf
  <2>3. target \in Int /\ target < Day /\ Lookback \in Nat
    BY SlotDays DEF CaughtInv, TypeOK, NoTarget, Session, DayOf
  <2>4. d < 7
    BY <2>1, <2>2, <2>3, SlotDays
  <2>5. d \in Stored
    BY <2>4 DEF FirstWeek, Slot
  <2> QED BY <2>5, LastIs DEF CaughtInv
<1> QED BY <1>1, FirstWeekStays, CaughtInit, CaughtStep, CaughtIsEnough, PTL DEF Spec
=============================================================================
