----------------------------- MODULE PriceRuns ------------------------------
(***************************************************************************)
(* The updaters of the equity prices side by side: a behaviour is that of  *)
(* one feed, whose tickers and rows no other one touches.  What is said of *)
(* the tables here holds of every feed.                                    *)
(***************************************************************************)
EXTENDS PriceStore

CONSTANTS BatchSize, CommitSize, Lookback, RebaseDays, Window, Dividends, Regular, Torn

ASSUME SettingsAssumption ==
  /\ {BatchSize, CommitSize, Window} \subseteq Nat \ {0}
  /\ {Lookback, RebaseDays} \subseteq Nat /\ Lookback <= RebaseDays
ASSUME TickerAssumption == IsFiniteSet(Ticker)
ASSUME DividendsAssumption == Dividends \in [Ticker -> Nat]

(* The US runs are regular: often enough, and answered well enough, for no *)
(* ticker to lag by more than the lookback.  And a write that fails in its *)
(* transaction has written nothing.  The code ensures neither; UsPrices is *)
(* checked without the second in a run of its own.                         *)
ASSUME UsAssumption == Regular /\ ~ Torn

VARIABLES
  feed,                                 \* the market, and daily or weekly
  today, prices, log, phase, todo, start,
  basis, rebased,                       \* adjusted prices
  buf, reported,                        \* CN
  batch                                 \* intraday

vars == <<feed, today, prices, log, phase, todo, start, basis, rebased, buf, reported,
          batch>>

Us(Daily)  == INSTANCE UsPrices
Cn         == INSTANCE CnPrices
Hk         == INSTANCE HkPrices
Intraday   == INSTANCE IntradayPrices
Index(Etf) == INSTANCE IndexPrices

TypeOK ==
  \/ feed = "us daily"    /\ Us(TRUE)!TypeOK
  \/ feed = "us weekly"   /\ Us(FALSE)!TypeOK
  \/ feed = "cn daily"    /\ Cn!TypeOK
  \/ feed = "hk daily"    /\ Hk!TypeOK
  \/ feed = "us intraday" /\ Intraday!TypeOK
  \/ feed = "us index"    /\ Index(FALSE)!TypeOK
  \/ feed = "cn etf"      /\ Index(TRUE)!TypeOK

Init ==
  /\ log = NoLog /\ basis = [t \in Ticker |-> 1] /\ rebased = {}
  /\ buf = {} /\ reported = {} /\ batch = {}
  /\ \/ feed = "us daily"    /\ Us(TRUE)!Init
     \/ feed = "us weekly"   /\ Us(FALSE)!Init
     \/ feed = "cn daily"    /\ Cn!Init
     \/ feed = "hk daily"    /\ Hk!Init
     \/ feed = "us intraday" /\ Intraday!Init
     \/ feed = "us index"    /\ Index(FALSE)!Init /\ start = [t \in Ticker |-> 1]
     \/ feed = "cn etf"      /\ Index(TRUE)!Init /\ start = [t \in Ticker |-> 1]

(* A step of the feed: the action of its module, the rest unchanged.       *)
Step(usDaily, usWeekly, cn, hk, intraday, index, etf) ==
  /\ feed' = feed
  /\ \/ feed = "us daily"    /\ usDaily  /\ UNCHANGED <<basis, rebased, buf, reported, batch>>
     \/ feed = "us weekly"   /\ usWeekly /\ UNCHANGED <<basis, rebased, buf, reported, batch>>
     \/ feed = "cn daily"    /\ cn       /\ UNCHANGED batch
     \/ feed = "hk daily"    /\ hk       /\ UNCHANGED <<buf, reported, batch>>
     \/ feed = "us intraday" /\ intraday /\ UNCHANGED <<basis, rebased, buf, reported>>
     \/ feed = "us index"    /\ index    /\ UNCHANGED <<log, start, basis, rebased, buf, reported, batch>>
     \/ feed = "cn etf"      /\ etf      /\ UNCHANGED <<log, start, basis, rebased, buf, reported, batch>>

Next ==
  Step(Us(TRUE)!Next, Us(FALSE)!Next, Cn!Next, Hk!Next, Intraday!Next,
       Index(FALSE)!Next, Index(TRUE)!Next)

Spec == Init /\ [][Next]_vars

WholeRun ==
  Step(Us(TRUE)!StartRun(Ticker), Us(FALSE)!StartRun(Ticker), Cn!StartRun(Ticker),
       Hk!StartRun(Ticker), Intraday!StartRun(Ticker, FALSE),
       Index(FALSE)!StartRun("run"), Index(TRUE)!StartRun("run"))

Proceeds ==
  Step(Us(TRUE)!Proceeds, Us(FALSE)!Proceeds, Cn!Proceeds, Hk!Proceeds, Intraday!Proceeds,
       Index(FALSE)!Proceeds, Index(TRUE)!Proceeds)

Arrives(t) ==
  Step(Us(TRUE)!Arrives(t), Us(FALSE)!Arrives(t), Cn!Arrives(t), Hk!Arrives(t),
       Intraday!Arrives(t), Index(FALSE)!Arrives(t), Index(TRUE)!Arrives(t))

Aborts ==
  Step(Us(TRUE)!Aborts, Us(FALSE)!Aborts, Cn!Abort, Hk!Abort, Intraday!Abort,
       Index(FALSE)!Abort, Index(TRUE)!Abort)

(* The owner keeps running the whole market, a run goes on, no ticker is   *)
(* left without its newest bar for ever, and not all runs are aborted.     *)
Fairness ==
  /\ SF_vars(WholeRun) /\ WF_vars(Proceeds)
  /\ \A t \in Ticker : SF_vars(Arrives(t))
  /\ <>[][~Aborts]_vars

FairSpec == Spec /\ Fairness
-----------------------------------------------------------------------------
(***************************************************************************)
(* Properties.                                                             *)
(***************************************************************************)

(* A ticker that sync_log calls ok has the bar of its last_date, though    *)
(* some feeds commit the mark with the rows, some after them, and some     *)
(* collect both for many tickers.                                          *)
OkMeansStored ==
  \A t \in Ticker : log[t].status = "ok" => prices[t][log[t].last] # NoRow

(* The history has no holes: whichever requests, whole writes and runs     *)
(* fail, and in whatever groups the tickers are run or rebased, no day     *)
(* between two stored ones is missing.  That rests on UsAssumption, and on *)
(* intraday runs before a ticker has left the window of the source         *)
(* (NextDay of IntradayPrices).                                            *)
NoHoles == \A t \in Ticker : Contiguous(prices, t)

(* A result of a CN run is true, also after a handler has cleared the      *)
(* buffers: a ticker reported as ok is in the tables, or still buffered.   *)
ReportedIsSaved == feed = "cn daily" => Cn!ReportedIsSaved

(* A download from the beginning leaves all prices of a ticker on one      *)
(* basis until the next dividend, whatever increments follow it.           *)
RebaseFixesDrift == feed \in {"cn daily", "hk daily"} => Hk!RebaseFixesDrift

(* Every feed keeps one history a ticker: a step of an updater, also one   *)
(* that commits many tickers or fails halfway, loses no bar, leaves none   *)
(* out, and writes none on a basis older than that of an earlier bar, on   *)
(* the conditions of NoHoles.                                              *)
History == INSTANCE BarHistory
KeepsHistory == History!HSpec

(* The newest bar reaches every ticker, through runs that fail, that stop  *)
(* halfway and that mark it as an error.                                   *)
EventuallyCurrent ==
  \A t \in Ticker : (today = LastDay) ~> (prices[t][LastDay] # NoRow)
=============================================================================
