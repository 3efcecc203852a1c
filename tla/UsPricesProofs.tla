---------------------------- MODULE UsPricesProofs ----------------------------
(***************************************************************************)
(* Proofs about UsPrices: a mark of success has its bar; and when no write *)
(* fails halfway and the runs are frequent enough, the history of a ticker *)
(* has no holes, whatever fails, is run in groups or is rebased.           *)
(***************************************************************************)
EXTENDS UsPrices, WellFoundedInduction, TLAPS

(* What the code's configuration gives: the lookback and the years of a    *)
(* rebase are numbers of days, and a rebase goes further back.             *)
Depths == Lookback \in Nat /\ RebaseDays \in Nat /\ Lookback <= RebaseDays

(* A ticker that has a status ok has the bar of its last date.             *)
MarksStored ==
  \A t \in Ticker : log[t].status = "ok" => log[t].last \in Stored(prices, t)

(* No ticker lags by more than the lookback, and a session: what Regular   *)
(* asks for, and what every answer restores.                               *)
Recent ==
  \A t \in Ticker : Stored(prices, t) # {} =>
    \E d \in Stored(prices, t) : today <= d + Lookback + 1

(* A history begins with the first day, or far enough back for every       *)
(* later download to reach it.                                             *)
Early ==
  \A t \in Ticker : Stored(prices, t) # {} =>
    \E d \in Stored(prices, t) : d = 1 \/ d + Lookback <= today

(* The first group starts with the history, or RebaseDays ago.             *)
FirstStart ==
  phase = "run" => start["new"] = 1 \/ start["new"] + RebaseDays = today

(* The second one starts no later than any of its tickers needs.           *)
SecondStart ==
  \A t \in todo["pending"] : \E d \in Stored(prices, t) : start["pending"] <= d + 1

HistoryInv ==
  /\ TypeOK /\ MarksStored /\ NoHoles
  /\ Recent /\ Early /\ FirstStart /\ SecondStart
-----------------------------------------------------------------------------
(***************************************************************************)
(* Least elements.                                                         *)
(***************************************************************************)

(* A set of naturals has a least element.                                  *)
LEMMA LeastNat ==
  ASSUME NEW T \in SUBSET Nat, T # {}
  PROVE  \E x \in T : \A y \in T : x <= y
<1> DEFINE R == {ss \in Nat \X Nat : ss[1] < ss[2]}
<1>1. IsWellFoundedOn(R, Nat)
  BY NatLessThanWellFounded DEF OpToRel
<1> HIDE DEF R
<1>2. \E x \in T : \A y \in T : ~ (<<y, x>> \in R)
  BY <1>1, WFMin
<1>3. \A x, y \in Nat : ~ (<<y, x>> \in R) => x <= y
  BY DEF R
<1> QED BY <1>2, <1>3

(* Min is that element.                                                    *)
LEMMA MinNat ==
  ASSUME NEW T \in SUBSET Nat, T # {}
  PROVE  Min(T) \in T /\ \A y \in T : Min(T) <= y
BY LeastNat DEF Min

(* Max of three.                                                           *)
LEMMA MaxOfThree ==
  ASSUME NEW a \in Int, NEW b \in Int, NEW c \in Int
  PROVE  /\ Max({a, b, c}) \in {a, b, c}
         /\ a <= Max({a, b, c}) /\ b <= Max({a, b, c}) /\ c <= Max({a, b, c})
<1>1. \E x \in {a, b, c} : \A y \in {a, b, c} : x >= y
  OBVIOUS
<1> QED BY <1>1 DEF Max
-----------------------------------------------------------------------------
(***************************************************************************)
(* The tables.                                                             *)
(***************************************************************************)

(* set_sync_error on some tickers leaves no mark ok that was not.          *)
LEMMA FailedLog ==
  ASSUME TypeOK, NEW E \in SUBSET Ticker
  PROVE  /\ Failed(E) \in [Ticker -> SyncRow]
         /\ \A t \in Ticker : Failed(E)[t].status = "ok" => Failed(E)[t] = log[t]
<1>1. ASSUME NEW t \in Ticker
      PROVE  /\ SyncError(log, t, today)[t] \in SyncRow
             /\ SyncError(log, t, today)[t].status = "error"
  <2>1. SyncError(log, t, today)[t] =
          [status |-> "error", last |-> IF log[t].status = "none" THEN today ELSE log[t].last]
    BY <1>1 DEF TypeOK, SyncError
  <2>2. log[t].last \in 0..LastDay /\ today \in 0..LastDay
    BY <1>1, LastDayAssumption DEF TypeOK, SyncRow, Day
  <2> QED BY <2>1, <2>2 DEF SyncRow
<1>2. \A t \in Ticker : Failed(E)[t] = IF t \in E THEN SyncError(log, t, today)[t] ELSE log[t]
  BY DEF Failed
<1>3. Failed(E) \in [Ticker -> SyncRow]
  <2>1. \A t \in Ticker : Failed(E)[t] \in SyncRow
    BY <1>1, <1>2 DEF TypeOK
  <2> QED BY <2>1 DEF Failed
<1>4. \A t \in Ticker : Failed(E)[t].status = "ok" => Failed(E)[t] = log[t]
  BY <1>1, <1>2
<1> QED BY <1>3, <1>4

(* The rows of a batch are added to those that are there.                  *)
LEMMA RowsStored ==
  ASSUME TypeOK, NEW g \in Group, NEW C \in SUBSET Ticker, NEW cut \in [C -> Nat]
  PROVE  /\ Rows(g, C, cut) \in Prices
         /\ \A t \in C : Stored(Rows(g, C, cut), t)
                          = Stored(prices, t) \cup ((start[g]..cut[t]) \cap Day)
         /\ \A t \in Ticker \ C : Stored(Rows(g, C, cut), t) = Stored(prices, t)
<1>1. ASSUME NEW t \in Ticker
      PROVE  /\ Rows(g, C, cut)[t] \in [Day -> Nat]
             /\ t \notin C => Rows(g, C, cut)[t] = prices[t]
             /\ t \in C => \A d \in Day : Rows(g, C, cut)[t][d] =
                  IF d \in start[g]..cut[t] /\ prices[t][d] = NoRow THEN 1 ELSE prices[t][d]
  <2>1. CASE t \notin C
    BY <1>1, <2>1 DEF Rows, TypeOK, Prices
  <2>2. CASE t \in C
    <3>1. prices \in [Ticker -> [Day -> Nat]]
      BY DEF TypeOK, Prices
    <3>2. Rows(g, C, cut)[t] = InsertIgnore(prices, t, start[g]..cut[t], 1)[t]
      BY <1>1, <2>2 DEF Rows
    <3>3. InsertIgnore(prices, t, start[g]..cut[t], 1)[t] =
            [d \in Day |-> IF d \in start[g]..cut[t] /\ prices[t][d] = NoRow
                          THEN 1 ELSE prices[t][d]]
      BY <1>1, <3>1 DEF InsertIgnore
    <3>4. \A d \in Day : prices[t][d] \in Nat
      BY <1>1, <3>1
    <3> QED BY <2>2, <3>2, <3>3, <3>4
  <2> QED BY <2>1, <2>2
<1>2. Rows(g, C, cut) \in Prices
  BY <1>1 DEF Rows, Prices
<1>3. ASSUME NEW t \in C
      PROVE  Stored(Rows(g, C, cut), t) = Stored(prices, t) \cup ((start[g]..cut[t]) \cap Day)
  <2>1. \A d \in Day : Rows(g, C, cut)[t][d] # NoRow
                       <=> prices[t][d] # NoRow \/ d \in start[g]..cut[t]
    BY <1>1, <1>3 DEF NoRow
  <2> QED BY <2>1 DEF Stored
<1>4. \A t \in Ticker \ C : Stored(Rows(g, C, cut), t) = Stored(prices, t)
  BY <1>1 DEF Stored
<1> QED BY <1>2, <1>3, <1>4

(* An interval that touches a history without holes leaves none.           *)
LEMMA Joined ==
  ASSUME NEW A \in SUBSET Nat, NEW s \in Nat, NEW e \in Nat, s <= e,
         \A c, d, f \in Nat : c <= d /\ d <= f /\ c \in A /\ f \in A => d \in A,
         A # {} => (\E x \in A : s <= x + 1) /\ (\E x \in A : x <= e + 1),
         NEW c \in Nat, NEW d \in Nat, NEW f \in Nat,
         c <= d, d <= f, {c, f} \subseteq A \cup (s..e)
  PROVE  d \in A \cup (s..e)
<1>1. CASE c \in A /\ f \in A
  BY <1>1
<1>2. CASE c \in s..e /\ f \in s..e
  BY <1>2
<1>3. CASE c \in A /\ f \in s..e
  <2>1. PICK x \in A : s <= x + 1
    BY <1>3
  <2>2. CASE d < s
    BY <1>3, <2>1, <2>2
  <2>3. CASE s <= d
    BY <1>3, <2>3
  <2> QED BY <2>2, <2>3
<1>4. CASE c \in s..e /\ f \in A
  <2>1. PICK x \in A : x <= e + 1
    BY <1>4
  <2>2. CASE d > e
    BY <1>4, <2>1, <2>2
  <2>3. CASE d <= e
    BY <1>4, <2>3
  <2> QED BY <2>2, <2>3
<1> QED BY <1>1, <1>2, <1>3, <1>4

(* What is not stored remains so when no row is added.                     *)
LEMMA SameHistory ==
  ASSUME HistoryInv, today' = today,
         \A t \in Ticker : Stored(prices', t) = Stored(prices, t)
  PROVE  NoHoles' /\ Recent' /\ Early'
BY DEF HistoryInv, NoHoles, Contiguous, Recent, Early
-----------------------------------------------------------------------------
(***************************************************************************)
(* Types and marks: whatever fails, and with writes that fail halfway.     *)
(***************************************************************************)

(* Where an increment starts is a day, and is one of three.                *)
LEMMA StartDayIs ==
  ASSUME Lookback \in Nat, TypeOK, NEW last \in 0..LastDay, last < today
  PROVE  /\ StartDay(last) \in Day
         /\ StartDay(last) \in {last + 1, today - Lookback, 1}
<1>1. today \in 1..LastDay /\ LastDay \in Nat
  BY LastDayAssumption DEF TypeOK, Day
<1>2. last + 1 \in Int /\ today - Lookback \in Int /\ 1 \in Int
  BY <1>1
<1>3. /\ StartDay(last) \in {last + 1, today - Lookback, 1}
      /\ last + 1 <= StartDay(last) /\ 1 <= StartDay(last)
  BY <1>2, MaxOfThree DEF StartDay
<1> QED BY <1>1, <1>3 DEF Day

(* The start of the pending group is the earliest one of its tickers.      *)
LEMMA PendingStart ==
  ASSUME Lookback \in Nat, TypeOK, NEW last \in [Ticker -> 0..LastDay],
         NEW P \in SUBSET Ticker, P # {}, \A t \in P : last[t] < today
  PROVE  /\ Min({StartDay(last[t]) : t \in P}) \in Day
         /\ \A t \in P : Min({StartDay(last[u]) : u \in P}) <= StartDay(last[t])
<1> DEFINE S == {StartDay(last[t]) : t \in P}
<1>1. S \subseteq Day
  BY StartDayIs
<1>2. S \in SUBSET Nat /\ S # {}
  BY <1>1, LastDayAssumption DEF Day
<1>3. Min(S) \in S /\ \A y \in S : Min(S) <= y
  BY <1>2, MinNat
<1> QED BY <1>1, <1>3

(* What a batch and its answer are.                                        *)
LEMMA Answered ==
  ASSUME TypeOK, NEW g \in Group, NEW B \in Batch(g), NEW answer \in Answer(g, B)
  PROVE  /\ B \in SUBSET Ticker /\ B \subseteq todo[g]
         /\ Present(B, answer) \in SUBSET B
         /\ \A t \in Present(B, answer) :
              /\ answer[t] \in start[g]..today /\ answer[t] \in Day
              /\ Regular => today - answer[t] <= Lookback
<1>1. B \in SUBSET Ticker /\ B \subseteq todo[g]
  BY DEF Batch, TypeOK
<1>2. Present(B, answer) \in SUBSET B /\ \A t \in Present(B, answer) : answer[t] # 0
  BY DEF Present
<1>3. \A t \in B : \/ answer[t] = 0
                   \/ /\ answer[t] \in start[g]..today
                      /\ Regular => today - answer[t] <= Lookback
  BY DEF Answer
<1>4. \A x \in start[g]..today : x \in Day
  BY LastDayAssumption DEF TypeOK, Day
<1> QED BY <1>1, <1>2, <1>3, <1>4

(* What the rows of an answer are.                                         *)
LEMMA AnswerStored ==
  ASSUME TypeOK, NEW g \in Group, NEW B \in Batch(g), NEW answer \in Answer(g, B)
  PROVE  LET C == Present(B, answer)
             R == Rows(g, C, answer)
         IN  /\ R \in Prices
             /\ \A t \in C : Stored(R, t) = Stored(prices, t) \cup (start[g]..answer[t])
             /\ \A t \in Ticker \ C : Stored(R, t) = Stored(prices, t)
<1> DEFINE C == Present(B, answer)
           cut == [t \in C |-> answer[t]]
<1>1. C \in SUBSET Ticker /\ \A t \in C : answer[t] \in Day
  BY Answered
<1>2. cut \in [C -> Nat]
  BY <1>1, LastDayAssumption DEF Day
<1>3. Rows(g, C, answer) = Rows(g, C, cut)
  BY DEF Rows
<1>4. \A t \in C : (start[g]..cut[t]) \cap Day = start[g]..answer[t]
  BY <1>1, LastDayAssumption DEF Day, TypeOK
<1> HIDE DEF cut, C
<1>5. /\ Rows(g, C, cut) \in Prices
      /\ \A t \in C : Stored(Rows(g, C, cut), t)
                       = Stored(prices, t) \cup ((start[g]..cut[t]) \cap Day)
      /\ \A t \in Ticker \ C : Stored(Rows(g, C, cut), t) = Stored(prices, t)
  BY <1>1, <1>2, RowsStored
<1> QED BY <1>3, <1>4, <1>5 DEF C

(* No statement of a write that fails has added a row.                     *)
LEMMA NothingTorn ==
  ASSUME ~ Torn, TypeOK, NEW g \in Group, NEW B \in Batch(g), NEW answer \in Answer(g, B),
         SaveFails(g, B, answer)
  PROVE  \A t \in Ticker : Stored(prices', t) = Stored(prices, t)
<1> DEFINE C == Present(B, answer)
<1>1. PICK cut \in [C -> 0..today] :
        prices' = Rows(g, C, cut) /\ \A t \in C : cut[t] = 0
  BY DEF SaveFails
<1>2. C \in SUBSET Ticker
  BY Answered
<1>3. cut \in [C -> Nat]
  BY <1>1
<1>4. \A t \in C : (start[g]..cut[t]) \cap Day = {}
  BY <1>1, LastDayAssumption DEF TypeOK, Day
<1> HIDE DEF C
<1>5. /\ \A t \in C : Stored(Rows(g, C, cut), t)
                       = Stored(prices, t) \cup ((start[g]..cut[t]) \cap Day)
      /\ \A t \in Ticker \ C : Stored(Rows(g, C, cut), t) = Stored(prices, t)
  BY <1>2, <1>3, RowsStored
<1> QED BY <1>1, <1>4, <1>5

(* A step only adds rows.                                                  *)
LEMMA StepAdds ==
  ASSUME TypeOK, [Next]_vars
  PROVE  \A t \in Ticker : \A d \in Day :
           \/ prices'[t][d] = prices[t][d]
           \/ prices[t][d] = NoRow /\ prices'[t][d] = 1
<1> DEFINE Adds(q) == \A t \in Ticker : \A d \in Day :
                        \/ q[t][d] = prices[t][d]
                        \/ prices[t][d] = NoRow /\ q[t][d] = 1
<1>1. ASSUME NEW g \in Group, NEW C, NEW cut PROVE Adds(Rows(g, C, cut))
  <2> SUFFICES ASSUME NEW t \in Ticker, NEW d \in Day
               PROVE  \/ Rows(g, C, cut)[t][d] = prices[t][d]
                      \/ prices[t][d] = NoRow /\ Rows(g, C, cut)[t][d] = 1
    OBVIOUS
  <2> DEFINE S == start[g]..cut[t]
  <2>1. Rows(g, C, cut)[t] = IF t \in C THEN InsertIgnore(prices, t, S, 1)[t] ELSE prices[t]
    BY Zenon DEF Rows
  <2> HIDE DEF S
  <2>2. InsertIgnore(prices, t, S, 1)[t] =
          [e \in Day |-> IF e \in S /\ prices[t][e] = NoRow THEN 1 ELSE prices[t][e]]
    BY DEF InsertIgnore, TypeOK, Prices
  <2> QED BY <2>1, <2>2
<1>2. CASE prices' = prices
  BY <1>2
<1>3. ASSUME NEW g \in Group, NEW B, NEW answer,
             Save(g, B, answer) \/ SaveFails(g, B, answer)
      PROVE  Adds(prices')
  <2>1. \E C, cut : prices' = Rows(g, C, cut)
    BY <1>3, Zenon DEF Save, SaveFails
  <2> HIDE DEF Adds
  <2> QED BY <1>1, <2>1
<1>4. \/ prices' = prices
      \/ \E g \in Group : \E B \in Batch(g) : \E answer \in Answer(g, B) :
           Save(g, B, answer) \/ SaveFails(g, B, answer)
  BY Zenon DEF Next, NextDay, StartRun, StartRebase, DownloadFails, Abort, EndRun, vars
<1> QED BY <1>2, <1>3, <1>4

LEMMA StepType ==
  ASSUME Lookback \in Nat, RebaseDays \in Nat, TypeOK, [Next]_vars
  PROVE  TypeOK'
<1>1. CASE NextDay
  BY <1>1, LastDayAssumption DEF NextDay, TypeOK, Day
<1>2. ASSUME NEW tickers \in SUBSET Ticker, StartRun(tickers) PROVE TypeOK'
  <2>1. PICK last \in [Ticker -> 0..LastDay] :
          /\ todo' = [g \in Group |-> IF g = "new" THEN {t \in tickers : last[t] = 0}
                                      ELSE Pending(tickers, last)]
          /\ start' = [g \in Group |-> IF g = "new" \/ Pending(tickers, last) = {} THEN 1
                         ELSE Min({StartDay(last[t]) : t \in Pending(tickers, last)})]
    BY <1>2 DEF StartRun
  <2>2. Pending(tickers, last) \in SUBSET Ticker
        /\ \A t \in Pending(tickers, last) : last[t] < today
    BY <1>2 DEF Pending
  <2>3. todo' \in [Group -> SUBSET Ticker]
    BY <1>2, <2>1, <2>2
  <2>4. 1 \in Day
    BY LastDayAssumption DEF Day
  <2>5. CASE Pending(tickers, last) = {}
    <3>1. start' \in [Group -> Day]
      BY <2>1, <2>4, <2>5
    <3> QED BY <1>2, <2>3, <3>1 DEF StartRun, TypeOK
  <2>6. CASE Pending(tickers, last) # {}
    <3>1. Min({StartDay(last[t]) : t \in Pending(tickers, last)}) \in Day
      BY <2>2, <2>6, PendingStart
    <3>2. start' \in [Group -> Day]
      BY <2>1, <2>4, <3>1
    <3> QED BY <1>2, <2>3, <3>2 DEF StartRun, TypeOK
  <2> QED BY <2>5, <2>6
<1>3. ASSUME NEW tickers \in SUBSET Ticker, StartRebase(tickers) PROVE TypeOK'
  <2>1. 1 \in Day /\ (today > RebaseDays => today - RebaseDays \in Day)
    BY LastDayAssumption DEF Day, TypeOK
  <2> QED BY <1>3, <2>1 DEF StartRebase, TypeOK
<1>4. ASSUME NEW g \in Group, NEW B \in Batch(g), DownloadFails(g, B) PROVE TypeOK'
  <2>1. B \in SUBSET Ticker /\ todo' \in [Group -> SUBSET Ticker]
    BY <1>4 DEF TypeOK, Batch, DownloadFails, Done
  <2> QED BY <1>4, <2>1, FailedLog DEF TypeOK, DownloadFails
<1>5. ASSUME NEW g \in Group, NEW B \in Batch(g), NEW answer \in Answer(g, B),
             Save(g, B, answer) \/ SaveFails(g, B, answer)
      PROVE TypeOK'
  <2>1. B \in SUBSET Ticker /\ todo' \in [Group -> SUBSET Ticker]
    BY <1>5 DEF TypeOK, Batch, Save, SaveFails, Done
  <2>2. today \in Nat
    BY LastDayAssumption DEF TypeOK, Day
  <2>3. Present(B, answer) \in SUBSET Ticker
        /\ \A t \in Present(B, answer) : answer[t] \in 0..LastDay
    BY <1>5, Answered, LastDayAssumption DEF Day
  <2>4. Failed(B) \in [Ticker -> SyncRow]
    BY <2>1, FailedLog
  <2>5. log' \in [Ticker -> SyncRow]
    <3>1. CASE Save(g, B, answer)
      <4>1. \A t \in Present(B, answer) : SyncOk(log, t, answer[t])[t] \in SyncRow
        BY <2>3 DEF SyncOk, SyncRow, TypeOK
      <4> QED BY <2>4, <3>1, <4>1 DEF Save
    <3>2. CASE SaveFails(g, B, answer)
      BY <2>4, <3>2 DEF SaveFails
    <3> QED BY <1>5, <3>1, <3>2
  <2>6. prices' \in Prices
    <3>1. CASE Save(g, B, answer)
      BY <1>5, <3>1, AnswerStored DEF Save
    <3>2. CASE SaveFails(g, B, answer)
      <4>1. PICK cut \in [Present(B, answer) -> 0..today] :
              prices' = Rows(g, Present(B, answer), cut)
        BY <3>2 DEF SaveFails
      <4>2. cut \in [Present(B, answer) -> Nat]
        BY <2>2
      <4> QED BY <2>3, <4>1, <4>2, RowsStored
    <3> QED BY <1>5, <3>1, <3>2
  <2> QED BY <1>5, <2>1, <2>5, <2>6 DEF TypeOK, Save, SaveFails
<1>6. ASSUME NEW g \in Group, NEW B \in Batch(g), NEW absent \in SUBSET B,
             Abort(g, B, absent)
      PROVE TypeOK'
  <2>1. absent \in SUBSET Ticker /\ 1 \in Day
    BY <1>6, LastDayAssumption DEF TypeOK, Batch, Day
  <2> QED BY <1>6, <2>1, FailedLog DEF TypeOK, Abort
<1>7. CASE EndRun
  BY <1>7, LastDayAssumption DEF TypeOK, EndRun, Day
<1>8. CASE UNCHANGED vars
  BY <1>8 DEF TypeOK, vars
<1> QED BY <1>1, <1>2, <1>3, <1>4, <1>5, <1>6, <1>7, <1>8 DEF Next

(* A mark ok comes with its rows, and rows are never taken away.           *)
LEMMA StepMarks ==
  ASSUME TypeOK, MarksStored, [Next]_vars
  PROVE  MarksStored'
<1>1. ASSUME prices' = prices, log' = log PROVE MarksStored'
  BY <1>1 DEF MarksStored, Stored
<1>2. ASSUME NEW E \in SUBSET Ticker, log' = Failed(E),
             \A t \in Ticker : Stored(prices, t) \subseteq Stored(prices', t)
      PROVE MarksStored'
  BY <1>2, FailedLog DEF MarksStored
<1>3. CASE NextDay
  BY <1>1, <1>3 DEF NextDay
<1>4. ASSUME NEW tickers \in SUBSET Ticker, StartRun(tickers) \/ StartRebase(tickers)
      PROVE MarksStored'
  BY <1>1, <1>4 DEF StartRun, StartRebase
<1>5. ASSUME NEW g \in Group, NEW B \in Batch(g), DownloadFails(g, B) PROVE MarksStored'
  <2>1. B \in SUBSET Ticker
    BY DEF Batch, TypeOK
  <2> QED BY <1>2, <1>5, <2>1 DEF DownloadFails
<1>6. ASSUME NEW g \in Group, NEW B \in Batch(g), NEW answer \in Answer(g, B),
             Save(g, B, answer)
      PROVE MarksStored'
  <2> DEFINE C == Present(B, answer)
  <2>1. /\ B \in SUBSET Ticker /\ C \in SUBSET Ticker
        /\ \A t \in C : answer[t] \in start[g]..answer[t]
    BY Answered DEF TypeOK, Day
  <2>2. /\ \A t \in C : Stored(prices', t) = Stored(prices, t) \cup (start[g]..answer[t])
        /\ \A t \in Ticker \ C : Stored(prices', t) = Stored(prices, t)
    BY <1>6, AnswerStored DEF Save
  <2>3. \A t \in Ticker : log'[t] = IF t \in C THEN SyncOk(log, t, answer[t])[t] ELSE Failed(B)[t]
    BY <1>6 DEF Save
  <2>4. \A t \in C : SyncOk(log, t, answer[t])[t].last = answer[t]
    BY <2>1 DEF SyncOk, TypeOK
  <2>5. \A t \in Ticker : Failed(B)[t].status = "ok" => Failed(B)[t] = log[t]
    BY <2>1, FailedLog
  <2> HIDE DEF C
  <2>6. ASSUME NEW t \in Ticker, log'[t].status = "ok" PROVE log'[t].last \in Stored(prices', t)
    <3>1. CASE t \in C
      BY <2>1, <2>2, <2>3, <2>4, <3>1
    <3>2. CASE t \notin C
      BY <2>2, <2>3, <2>5, <2>6, <3>2 DEF MarksStored
    <3> QED BY <3>1, <3>2
  <2> QED BY <2>6 DEF MarksStored
<1>7. ASSUME NEW g \in Group, NEW B \in Batch(g), NEW answer \in Answer(g, B),
             SaveFails(g, B, answer)
      PROVE MarksStored'
  <2> DEFINE C == Present(B, answer)
  <2>1. B \in SUBSET Ticker /\ C \in SUBSET Ticker
    BY Answered
  <2>2. PICK cut \in [C -> 0..today] : prices' = Rows(g, C, cut)
    BY <1>7 DEF SaveFails
  <2>3. cut \in [C -> Nat]
    BY <2>2
  <2> HIDE DEF C
  <2>4. \A t \in Ticker : Stored(prices, t) \subseteq Stored(prices', t)
    BY <2>1, <2>2, <2>3, RowsStored
  <2>5. log' = Failed(B)
    BY <1>7 DEF SaveFails
  <2> QED BY <1>2, <2>1, <2>4, <2>5
<1>8. ASSUME NEW g \in Group, NEW B \in Batch(g), NEW absent \in SUBSET B,
             Abort(g, B, absent)
      PROVE MarksStored'
  <2>1. absent \in SUBSET Ticker
    BY <1>8 DEF Batch, TypeOK
  <2> QED BY <1>2, <1>8, <2>1 DEF Abort
<1>9. CASE EndRun
  BY <1>1, <1>9 DEF EndRun
<1>10. CASE UNCHANGED vars
  BY <1>1, <1>10 DEF vars
<1> QED BY <1>3, <1>4, <1>5, <1>6, <1>7, <1>8, <1>9, <1>10 DEF Next
-----------------------------------------------------------------------------
(***************************************************************************)
(* The history, when runs are regular and writes are whole.                *)
(***************************************************************************)

(* The first group reaches back to what a ticker has, the second one too;  *)
(* and every answer reaches up to it.                                      *)
LEMMA StartsTouch ==
  ASSUME Depths, HistoryInv, phase = "run", NEW g \in Group, NEW t \in todo[g],
         NEW e \in start[g]..today, today - e <= Lookback
  PROVE  Stored(prices, t) # {} =>
           /\ \E d \in Stored(prices, t) : start[g] <= d + 1
           /\ \E d \in Stored(prices, t) : d <= e + 1
<1>1. /\ t \in Ticker /\ Stored(prices, t) \subseteq Nat
      /\ \A d \in Stored(prices, t) : d >= 1
      /\ today \in Nat /\ start[g] \in Nat /\ start[g] >= 1 /\ LastDay \in Nat
      /\ Lookback \in Nat /\ RebaseDays \in Nat /\ Lookback <= RebaseDays
  BY LastDayAssumption DEF HistoryInv, TypeOK, Stored, Day, Depths
<1>2. ASSUME Stored(prices, t) # {} PROVE \E d \in Stored(prices, t) : start[g] <= d + 1
  <2>1. CASE g = "pending"
    BY <2>1 DEF HistoryInv, SecondStart
  <2>2. CASE g = "new"
    <3>1. PICK d \in Stored(prices, t) : today <= d + Lookback + 1
      BY <1>1, <1>2 DEF HistoryInv, Recent
    <3>2. start[g] = 1 \/ start[g] + RebaseDays = today
      BY <2>2 DEF HistoryInv, FirstStart
    <3> QED BY <1>1, <3>1, <3>2
  <2> QED BY <2>1, <2>2 DEF Group
<1>3. ASSUME Stored(prices, t) # {} PROVE \E d \in Stored(prices, t) : d <= e + 1
  <2>1. PICK d \in Stored(prices, t) : d = 1 \/ d + Lookback <= today
    BY <1>1, <1>3 DEF HistoryInv, Early
  <2> QED BY <1>1, <2>1
<1> QED BY <1>1, <1>2, <1>3

(* A ticker of a saved batch keeps a history without holes, that is recent *)
(* and early enough.                                                       *)
LEMMA SavedHistory ==
  ASSUME Depths, Regular, HistoryInv, phase = "run", NEW g \in Group, NEW B \in Batch(g),
         NEW answer \in Answer(g, B), Save(g, B, answer), NEW t \in Present(B, answer)
  PROVE  /\ Contiguous(prices', t)
         /\ \E d \in Stored(prices', t) : today <= d + Lookback + 1
         /\ \E d \in Stored(prices', t) : d = 1 \/ d + Lookback <= today
<1> DEFINE A == Stored(prices, t)
           s == start[g]
           e == answer[t]
<1>1. /\ t \in Ticker /\ t \in todo[g]
      /\ e \in s..today /\ today - e <= Lookback
  BY Answered DEF HistoryInv
<1>2. Stored(prices', t) = A \cup (s..e)
  BY AnswerStored DEF Save, HistoryInv
<1>3. /\ A \in SUBSET Nat /\ A \subseteq Day
      /\ s \in Nat /\ e \in Nat /\ today \in Nat /\ s >= 1 /\ s <= e /\ e <= today
      /\ Lookback \in Nat /\ RebaseDays \in Nat /\ Lookback <= RebaseDays
  BY <1>1, LastDayAssumption DEF HistoryInv, TypeOK, Stored, Day, Depths
<1>4. A # {} => (\E x \in A : s <= x + 1) /\ (\E x \in A : x <= e + 1)
  BY <1>1, <1>3, StartsTouch
<1>5. \A c, d, f \in Nat : c <= d /\ d <= f /\ c \in A /\ f \in A => d \in A
  <2>1. ASSUME NEW c \in Nat, NEW d \in Nat, NEW f \in Nat,
               c <= d, d <= f, c \in A, f \in A
        PROVE d \in A
    <3>1. c \in Day /\ d \in Day /\ f \in Day
      BY <1>3, <2>1, LastDayAssumption DEF Day
    <3> QED BY <1>1, <2>1, <3>1 DEF HistoryInv, NoHoles, Contiguous
  <2> QED BY <2>1
<1>6. e \in A \cup (s..e) /\ s \in A \cup (s..e)
  BY <1>3
<1>7. s = 1 \/ s + Lookback <= today \/ \E d \in A : d = 1 \/ d + Lookback <= today
  <2>1. CASE g = "new"
    <3>1. s = 1 \/ s + RebaseDays = today
      BY <2>1 DEF HistoryInv, FirstStart
    <3> QED BY <1>3, <3>1
  <2>2. CASE g = "pending"
    <3>1. A # {}
      BY <1>1, <2>2 DEF HistoryInv, SecondStart
    <3> QED BY <1>1, <3>1 DEF HistoryInv, Early
  <2> QED BY <2>1, <2>2 DEF Group
<1> HIDE DEF A, s, e
<1>8. \A c, d, f \in Nat : c <= d /\ d <= f /\ {c, f} \subseteq A \cup (s..e)
                         => d \in A \cup (s..e)
  BY <1>3, <1>4, <1>5, Joined
<1>9. Contiguous(prices', t)
  <2>1. Day \subseteq Nat
    BY LastDayAssumption DEF Day
  <2> QED BY <1>2, <1>8, <2>1 DEF Contiguous
<1>10. \E d \in Stored(prices', t) : today <= d + Lookback + 1
  <2>1. today - e <= Lookback
    BY <1>1 DEF e
  <2> QED BY <1>2, <1>3, <1>6, <2>1
<1>11. \E d \in Stored(prices', t) : d = 1 \/ d + Lookback <= today
  BY <1>2, <1>6, <1>7
<1> QED BY <1>9, <1>10, <1>11

(* A run that starts groups the tickers: what is pending has a history     *)
(* that its common start touches.                                          *)
LEMMA StartHistory ==
  ASSUME Depths, HistoryInv, NEW tickers \in SUBSET Ticker, StartRun(tickers)
  PROVE  SecondStart' /\ FirstStart'
<1>1. PICK last \in [Ticker -> 0..LastDay] :
        /\ \A t \in Ticker : IsLast(last[t], prices, log, t, Daily)
        /\ todo' = [g \in Group |-> IF g = "new" THEN {t \in tickers : last[t] = 0}
                                    ELSE Pending(tickers, last)]
        /\ start' = [g \in Group |-> IF g = "new" \/ Pending(tickers, last) = {} THEN 1
                       ELSE Min({StartDay(last[t]) : t \in Pending(tickers, last)})]
  BY DEF StartRun
<1> DEFINE P == Pending(tickers, last)
<1>2. P \in SUBSET Ticker /\ \A t \in P : last[t] # 0 /\ last[t] < today
  BY DEF Pending
<1>3. FirstStart'
  BY <1>1 DEF FirstStart, Group
<1>4. ASSUME NEW t \in P PROVE \E d \in Stored(prices, t) : start'["pending"] <= d + 1
  <2>1. start'["pending"] = Min({StartDay(last[u]) : u \in P})
    BY <1>1, <1>4 DEF Group
  <2> HIDE DEF P
  <2>2. start'["pending"] \in Day /\ start'["pending"] <= StartDay(last[t])
    BY <1>2, <1>4, <2>1, PendingStart DEF Depths, HistoryInv
  <2>3. StartDay(last[t]) \in {last[t] + 1, today - Lookback, 1}
    BY <1>1, <1>2, <1>4, StartDayIs DEF Depths, HistoryInv
  <2>4. /\ today \in Nat /\ Lookback \in Nat /\ LastDay \in Nat /\ last[t] \in Nat
        /\ start'["pending"] \in Nat
        /\ \A d \in Stored(prices, t) : d \in Nat
    BY <1>1, <1>2, <1>4, <2>2, LastDayAssumption DEF Depths, HistoryInv, TypeOK, Stored, Day
  <2>5. last[t] \in Stored(prices, t)
    <3>1. IsLast(last[t], prices, log, t, Daily) /\ last[t] # 0 /\ t \in Ticker
      BY <1>1, <1>2, <1>4
    <3> QED BY <3>1 DEF IsLast, HistoryInv, MarksStored
  <2>6. PICK d \in Stored(prices, t) : today <= d + Lookback + 1
    BY <1>2, <1>4, <2>5 DEF HistoryInv, Recent
  <2>7. CASE StartDay(last[t]) = last[t] + 1
    BY <2>2, <2>4, <2>5, <2>7
  <2>8. CASE StartDay(last[t]) = today - Lookback
    BY <2>2, <2>4, <2>6, <2>8
  <2>9. CASE StartDay(last[t]) = 1
    BY <2>2, <2>4, <2>5, <2>9
  <2> QED BY <2>3, <2>7, <2>8, <2>9
<1>5. todo'["pending"] = P /\ prices' = prices
  BY <1>1 DEF Group, StartRun
<1> QED BY <1>3, <1>4, <1>5 DEF SecondStart, Stored

LEMMA StepHistory ==
  ASSUME Depths, Regular, ~ Torn, HistoryInv, [Next]_vars
  PROVE  NoHoles' /\ Recent' /\ Early' /\ FirstStart' /\ SecondStart'
<1> DEFINE Same == \A t \in Ticker : Stored(prices', t) = Stored(prices, t)
<1>1. prices' = prices => Same
  BY DEF Stored
(* What a run still has to do shrinks and keeps its starts, or it is over. *)
<1>2. ASSUME \A t \in Ticker : Stored(prices, t) \subseteq Stored(prices', t),
             today' = today, phase' = phase, start' = start,
             todo'["pending"] \subseteq todo["pending"]
      PROVE FirstStart' /\ SecondStart'
  <2>1. FirstStart'
    BY <1>2 DEF HistoryInv, FirstStart
  <2>2. todo["pending"] \subseteq Ticker
    BY DEF HistoryInv, TypeOK, Group
  <2>3. SecondStart'
    BY <1>2, <2>2 DEF HistoryInv, SecondStart
  <2> QED BY <2>1, <2>3
<1>3. ASSUME phase' = "idle", todo'["pending"] = {} PROVE FirstStart' /\ SecondStart'
  BY <1>3 DEF FirstStart, SecondStart
<1>4. ASSUME NEW g \in Group, NEW B, Done(g, B)
      PROVE todo'["pending"] \subseteq todo["pending"]
  BY <1>4 DEF Done, HistoryInv, TypeOK, Group
<1>5. CASE NextDay
  <2>1. /\ \A t \in Ticker : Stored(prices, t) # {} =>
             \E d \in Stored(prices, t) : today - d <= Lookback
        /\ today' = today + 1 /\ prices' = prices /\ start' = start /\ todo' = todo
        /\ phase' = "idle"
    BY <1>5 DEF NextDay
  <2>2. /\ today \in Nat /\ Lookback \in Nat
        /\ \A t \in Ticker : \A d \in Stored(prices, t) : d \in Nat
    BY LastDayAssumption DEF HistoryInv, TypeOK, Day, Depths, Stored
  <2>3. Same
    BY <1>1, <2>1
  <2>4. NoHoles'
    BY <2>3 DEF HistoryInv, NoHoles, Contiguous
  <2>5. Recent'
    BY <2>1, <2>2, <2>3 DEF Recent
  <2>6. Early'
    BY <2>1, <2>2, <2>3 DEF HistoryInv, Early
  <2>7. FirstStart'
    BY <2>1 DEF FirstStart
  <2>8. SecondStart'
    BY <2>1, <2>3 DEF HistoryInv, SecondStart, TypeOK, Group
  <2> QED BY <2>4, <2>5, <2>6, <2>7, <2>8
<1>6. ASSUME NEW tickers \in SUBSET Ticker, StartRun(tickers)
      PROVE NoHoles' /\ Recent' /\ Early' /\ FirstStart' /\ SecondStart'
  <2>1. Same /\ today' = today
    BY <1>1, <1>6 DEF StartRun
  <2> QED BY <1>6, <2>1, SameHistory, StartHistory
<1>7. ASSUME NEW tickers \in SUBSET Ticker, StartRebase(tickers)
      PROVE NoHoles' /\ Recent' /\ Early' /\ FirstStart' /\ SecondStart'
  <2>1. Same /\ today' = today
    BY <1>1, <1>7 DEF StartRebase
  <2>2. todo'["pending"] = {}
    BY <1>7 DEF StartRebase, Group
  <2>3. start'["new"] = IF today > RebaseDays THEN today - RebaseDays ELSE 1
    BY <1>7 DEF StartRebase, Group
  <2>4. today \in Nat /\ RebaseDays \in Nat
    BY LastDayAssumption DEF HistoryInv, TypeOK, Day, Depths
  <2>5. FirstStart'
    BY <2>1, <2>3, <2>4 DEF FirstStart
  <2> QED BY <2>1, <2>2, <2>5, SameHistory DEF SecondStart
<1>8. ASSUME NEW g \in Group, NEW B \in Batch(g), DownloadFails(g, B)
      PROVE NoHoles' /\ Recent' /\ Early' /\ FirstStart' /\ SecondStart'
  <2>1. Same /\ today' = today /\ phase' = phase /\ start' = start /\ Done(g, B)
    BY <1>1, <1>8 DEF DownloadFails
  <2> QED BY <1>2, <1>4, <2>1, SameHistory
<1>9. ASSUME NEW g \in Group, NEW B \in Batch(g), NEW answer \in Answer(g, B),
             Save(g, B, answer)
      PROVE NoHoles' /\ Recent' /\ Early' /\ FirstStart' /\ SecondStart'
  <2> DEFINE C == Present(B, answer)
  <2>1. /\ phase = "run" /\ today' = today /\ phase' = phase /\ start' = start
        /\ Done(g, B)
    BY <1>9 DEF Save
  <2>2. /\ \A t \in C : Stored(prices, t) \subseteq Stored(prices', t)
        /\ \A t \in Ticker \ C : Stored(prices', t) = Stored(prices, t)
    BY <1>9, AnswerStored DEF Save, HistoryInv
  <2>3. \A t \in C :
          /\ Contiguous(prices', t)
          /\ \E d \in Stored(prices', t) : today <= d + Lookback + 1
          /\ \E d \in Stored(prices', t) : d = 1 \/ d + Lookback <= today
    BY <1>9, <2>1, SavedHistory
  <2> HIDE DEF C
  <2>4. NoHoles'
    BY <2>2, <2>3 DEF HistoryInv, NoHoles, Contiguous
  <2>5. Recent'
    BY <2>1, <2>2, <2>3 DEF HistoryInv, Recent
  <2>6. Early'
    BY <2>1, <2>2, <2>3 DEF HistoryInv, Early
  <2>7. \A t \in Ticker : Stored(prices, t) \subseteq Stored(prices', t)
    BY <2>2
  <2> QED BY <1>2, <1>4, <2>1, <2>4, <2>5, <2>6, <2>7
<1>10. ASSUME NEW g \in Group, NEW B \in Batch(g), NEW answer \in Answer(g, B),
              SaveFails(g, B, answer)
       PROVE NoHoles' /\ Recent' /\ Early' /\ FirstStart' /\ SecondStart'
  <2>1. Same
    BY <1>10, NothingTorn DEF HistoryInv
  <2>2. today' = today /\ phase' = phase /\ start' = start /\ Done(g, B)
    BY <1>10 DEF SaveFails
  <2> QED BY <1>2, <1>4, <2>1, <2>2, SameHistory
<1>11. ASSUME NEW g \in Group, NEW B \in Batch(g), NEW absent \in SUBSET B,
              Abort(g, B, absent)
       PROVE NoHoles' /\ Recent' /\ Early' /\ FirstStart' /\ SecondStart'
  <2>1. Same /\ today' = today /\ phase' = "idle" /\ todo'["pending"] = {}
    BY <1>1, <1>11 DEF Abort, Group
  <2> QED BY <1>3, <2>1, SameHistory
<1>12. CASE EndRun
  <2>1. Same /\ today' = today /\ phase' = "idle" /\ todo'["pending"] = {}
    BY <1>1, <1>12 DEF EndRun, Group
  <2> QED BY <1>3, <2>1, SameHistory
<1>13. CASE UNCHANGED vars
  <2>1. /\ Same /\ today' = today /\ phase' = phase /\ start' = start
        /\ todo'["pending"] \subseteq todo["pending"]
    BY <1>1, <1>13 DEF vars
  <2> QED BY <1>2, <2>1, SameHistory
<1> QED BY <1>5, <1>6, <1>7, <1>8, <1>9, <1>10, <1>11, <1>12, <1>13 DEF Next
-----------------------------------------------------------------------------
(* The state of the runs and tables is well formed, for any tickers,       *)
(* batches, lookback and days.                                             *)
THEOREM UsTypeCorrect ==
  ASSUME Lookback \in Nat, RebaseDays \in Nat
  PROVE  Spec => []TypeOK
<1>1. Init => TypeOK
  BY LastDayAssumption DEF Init, TypeOK, NoPrices, NoLog, Prices, SyncRow, Day, NoRow
<1>2. TypeOK /\ [Next]_vars => TypeOK'
  BY StepType
<1> QED BY <1>1, <1>2, PTL DEF Spec

(* A ticker whose status is ok has the bar of its last date, also when a   *)
(* write may fail after a part of its statements: _download_and_save never *)
(* marks what it did not save.                                             *)
THEOREM UsMarksStored ==
  ASSUME Lookback \in Nat, RebaseDays \in Nat
  PROVE  Spec => []MarksStored
<1>1. Init => MarksStored
  BY DEF Init, MarksStored, NoLog
<1>2. TypeOK /\ MarksStored /\ [Next]_vars => MarksStored'
  BY StepMarks
<1>3. Spec => []TypeOK
  BY UsTypeCorrect
<1> QED BY <1>1, <1>2, <1>3, PTL DEF Spec

(* No day is missing between two stored ones, when writes are whole and    *)
(* runs and answers regular: whichever batches fail or runs are cut off,   *)
(* in whatever groups the tickers are run or rebased, for any lookback and *)
(* any rebase that reaches as far.                                         *)
THEOREM UsHistoryWhole ==
  ASSUME Depths, Regular, ~ Torn
  PROVE  Spec => []NoHoles
<1>1. Init => HistoryInv
  <2>1. Init => TypeOK
    BY LastDayAssumption DEF Init, TypeOK, NoPrices, NoLog, Prices, SyncRow, Day, NoRow
  <2>2. Init => \A t \in Ticker : Stored(prices, t) = {}
    BY DEF Init, NoPrices, Stored
  <2> QED
    BY <2>1, <2>2 DEF Init, HistoryInv, MarksStored, NoLog, NoHoles, Contiguous, Recent,
                      Early, FirstStart, SecondStart, Group
<1>2. HistoryInv /\ [Next]_vars => HistoryInv'
  BY StepType, StepMarks, StepHistory DEF HistoryInv, Depths
<1>3. HistoryInv => NoHoles
  BY DEF HistoryInv
<1> QED BY <1>1, <1>2, <1>3, PTL DEF Spec
=============================================================================
