------------------------- MODULE IndexSnapshotProofs -------------------------
(***************************************************************************)
(* Proofs about IndexSnapshot: its four invariants, for any number of      *)
(* commands, indices, tickers and days.                                    *)
(***************************************************************************)
EXTENDS IndexSnapshot, WellFoundedInduction, TLAPS

Active(r)  == pc[r] # "idle"
HasList(r) == pc[r] \in {"save", "detect", "register", "log"}
HasSaved(r) == pc[r] \in {"detect", "register", "log"}

(* A run dates its snapshot after the last one; it is fetching on that     *)
(* day, and two runs at a time are of today.                               *)
RunDates ==
  \A r \in Run : Active(r) =>
    /\ prev[r] < snap[r] /\ snap[r] <= today
    /\ pc[r] = "fetch" => snap[r] = today
    /\ \A q \in Run : Active(q) => q = r \/ snap[r] = today

(* No snapshot is of the future.                                           *)
SnapshotDates ==
  \A i \in Index : \A d \in Day : d > today => snapshot[i][d] = {}

(* A snapshot is what the lists it was written from have together, and a   *)
(* list that was fetched is never empty.                                   *)
ListsOfSnapshot ==
  /\ \A i \in Index : \A d \in Day :
       {} \notin lists[i][d] /\ snapshot[i][d] = UNION lists[i][d]
  /\ \A r \in Run : HasList(r) => new[r] # {}

(* After a run's first transaction its list is there, until a purge.       *)
SnapshotSaved ==
  \A r \in Run : HasSaved(r) /\ index[r] \notin torn =>
    new[r] \in lists[index[r]][snap[r]]

(* Nothing lies between the last snapshot that a run has read and its own; *)
(* and that one is still there, or there is none before its own.           *)
PrevIsLast ==
  \A r \in Run : Active(r) =>
    /\ \A d \in Snapshots(index[r]) : d <= prev[r] \/ d = snap[r]
    /\ \/ prev[r] \in Snapshots(index[r])
       \/ \A d \in Snapshots(index[r]) : d >= snap[r]

(* After its second one the changes that lead to its list are there, and   *)
(* after its third its stocks.                                             *)
Recorded(i, e, l) ==
  \A d \in Snapshots(i) : Consecutive(i, d, e) => Difference(i, d, e, l) \subseteq changes

ChangesRecorded ==
  \A r \in Run : pc[r] \in {"register", "log"} /\ index[r] \notin torn =>
    Recorded(index[r], snap[r], new[r])

StocksRegistered ==
  \A r \in Run : pc[r] = "log" => new[r] \subseteq stocks

RunsInv ==
  /\ TypeOK /\ RunDates /\ SnapshotDates /\ ListsOfSnapshot
  /\ SnapshotSaved /\ PrevIsLast /\ ChangesRecorded /\ StocksRegistered
-----------------------------------------------------------------------------
(***************************************************************************)
(* The last snapshot.                                                      *)
(***************************************************************************)

(* A set of naturals has a least element.                                  *)
LEMMA LeastNat ==
  ASSUME NEW T \in SUBSET Nat, T # {}
  PROVE  \E x \in T : \A y \in T : x <= y
<1> DEFINE R == {ss \in Nat \X Nat : ss[1] < ss[2]}
<1>1. IsWellFoundedOn(R, Nat)
  BY NatLessThanWellFounded DEF OpToRel
<1> HIDE DEF R
<1>2. \E x \in T : \A y \in T : ~ (<<y, x>> \in R)
  BY <1>1, WFMin
<1>3. \A x, y \in Nat : ~ (<<y, x>> \in R) => x <= y
  BY DEF R
<1> QED BY <1>2, <1>3

(* A bounded one has a largest, which is its Max.                          *)
LEMMA LargestNat ==
  ASSUME NEW n \in Nat, NEW T \in SUBSET (0..n), T # {}
  PROVE  Max(T) \in T /\ \A y \in T : y <= Max(T)
<1> DEFINE S == {n - y : y \in T}
<1>1. S \in SUBSET Nat /\ S # {}
  <2>1. \A y \in T : n - y \in Nat
    OBVIOUS
  <2> QED BY <2>1
<1>2. PICK z \in S : \A y \in S : z <= y
  BY <1>1, LeastNat
<1>3. PICK x \in T : z = n - x
  BY <1>2
<1>4. \A y \in T : n - x <= n - y
  BY <1>2, <1>3
<1>5. \A y \in T : x >= y
  BY <1>4
<1> QED BY <1>5 DEF Max

(* LastSnapshot is the largest date there is, or Never.                    *)
LEMMA LastIs ==
  ASSUME NEW i \in Index
  PROVE  /\ LastSnapshot(i) \in {Never} \cup Snapshots(i)
         /\ LastSnapshot(i) \in {Never} \cup Day
         /\ \A d \in Snapshots(i) : d <= LastSnapshot(i)
<1>1. Snapshots(i) \cup {Never} \in SUBSET (0..LastDay) /\ LastDay \in Nat
  BY DayAssumption DEF Snapshots, Day, Never
<1>2. Snapshots(i) \subseteq Day
  BY DEF Snapshots
<1> QED BY <1>1, <1>2, LargestNat DEF LastSnapshot
-----------------------------------------------------------------------------
(***************************************************************************)
(* Types.                                                                  *)
(***************************************************************************)

(* Whatever a run does at its end, it is idle and well formed.             *)
LEMMA LeaveType ==
  ASSUME TypeOK, NEW r \in Run, Leave(r)
  PROVE  /\ pc' \in [Run -> {"idle", "fetch", "save", "detect", "register", "log"}]
         /\ index' \in [Run -> Index]
         /\ {prev', snap'} \subseteq [Run -> {Never} \cup Day]
         /\ new' \in [Run -> SUBSET Ticker]
<1>1. AnIndex \in Index
  BY DEF TypeOK, AnIndex
<1> QED BY <1>1 DEF Leave, Goto, TypeOK

(* The changes a run records are well formed.                              *)
LEMMA ChangesType ==
  ASSUME TypeOK, NEW r \in Run, snap[r] \in Day, NEW type \in {"ADDED", "REMOVED"},
         NEW tickers \in SUBSET Ticker
  PROVE  Changes(r, prev[r], type, tickers) \subseteq Change
BY DEF Changes, Change, TypeOK

(* So are the tables after a snapshot is written.                          *)
LEMMA WriteType ==
  ASSUME TypeOK, NEW r \in Run, snap[r] \in Day, WriteSnapshot(r)
  PROVE  /\ snapshot' \in [Index -> [Day -> SUBSET Ticker]]
         /\ lists' \in [Index -> [Day -> SUBSET SUBSET Ticker]]
BY DEF WriteSnapshot, TypeOK

LEMMA StepType ==
  ASSUME TypeOK, RunDates, [Next]_vars
  PROVE  TypeOK'
<1>0. \A r \in Run : Active(r) => snap[r] \in Day
  BY DayAssumption DEF RunDates, TypeOK, Day, Never
<1>1. CASE NextDay
  <2>1. today' \in Day
    BY <1>1, DayAssumption DEF NextDay, TypeOK, Day
  <2> QED BY <1>1, <2>1 DEF NextDay, TypeOK, tables, runVars, history
<1>2. ASSUME NEW r \in Run, NEW i \in Index, Start(r, i) PROVE TypeOK'
  <2>1. overlaps' \subseteq Index \X Day
    <3>1. <<i, today>> \in Index \X Day
      BY DEF TypeOK
    <3>2. overlaps' = overlaps \/ overlaps' = overlaps \cup {<<i, today>>}
      BY <1>2 DEF Start, Begins
    <3> QED BY <3>1, <3>2 DEF TypeOK
  <2>2. /\ index' \in [Run -> Index] /\ {prev', snap'} \subseteq [Run -> {Never} \cup Day]
        /\ pc' \in [Run -> {"idle", "fetch", "save", "detect", "register", "log"}]
    BY <1>2, LastIs DEF Start, Begins, Goto, TypeOK
  <2>3. UNCHANGED <<today, tables, new, lists, torn>>
    BY <1>2 DEF Start, Begins
  <2> QED BY <2>1, <2>2, <2>3 DEF TypeOK, tables
<1>3. ASSUME NEW r \in Run, Fetch(r) PROVE TypeOK'
  <2>1. new' \in [Run -> SUBSET Ticker]
    BY <1>3, ListAssumption DEF Fetch, TypeOK
  <2> QED BY <1>3, <2>1 DEF Fetch, Goto, TypeOK, tables, history
<1>4. ASSUME NEW r \in Run, Save(r) PROVE TypeOK'
  <2>1. snap[r] \in Day
    BY <1>0, <1>4 DEF Save, Active
  <2>2. /\ snapshot' \in [Index -> [Day -> SUBSET Ticker]]
        /\ lists' \in [Index -> [Day -> SUBSET SUBSET Ticker]]
    BY <1>4, <2>1, WriteType DEF Save
  <2> QED BY <1>4, <2>2 DEF Save, WriteSnapshot, Goto, TypeOK
<1>5. ASSUME NEW r \in Run, SaveOneTx(r) PROVE TypeOK'
  <2>1. snap[r] \in Day
    BY <1>0, <1>5 DEF SaveOneTx, Active
  <2>2. /\ snapshot' \in [Index -> [Day -> SUBSET Ticker]]
        /\ lists' \in [Index -> [Day -> SUBSET SUBSET Ticker]]
    BY <1>5, <2>1, WriteType DEF SaveOneTx
  <2>3. stocks' \subseteq Ticker
    BY <1>5 DEF SaveOneTx, TypeOK
  <2> QED BY <1>5, <2>2, <2>3, LeaveType DEF SaveOneTx, WriteSnapshot, TypeOK
<1>6. ASSUME NEW r \in Run, Detect(r) PROVE TypeOK'
  <2> DEFINE before == IF prev[r] = Never THEN {} ELSE snapshot[index[r]][prev[r]]
  <2>1. snap[r] \in Day
    BY <1>0, <1>6 DEF Detect, Active
  <2>2. new[r] \ before \in SUBSET Ticker /\ before \ new[r] \in SUBSET Ticker
    BY DEF TypeOK
  <2>3. \/ changes' = changes
        \/ changes' = changes \cup Changes(r, prev[r], "ADDED", new[r] \ before)
                              \cup Changes(r, prev[r], "REMOVED", before \ new[r])
    BY <1>6 DEF Detect
  <2> HIDE DEF before
  <2>4. /\ Changes(r, prev[r], "ADDED", new[r] \ before) \subseteq Change
        /\ Changes(r, prev[r], "REMOVED", before \ new[r]) \subseteq Change
    BY <2>1, <2>2, ChangesType
  <2>5. changes' \subseteq Change
    BY <2>3, <2>4 DEF TypeOK
  <2>6. UNCHANGED <<today, snapshot, stocks, entry, index, prev, snap, new, history>>
        /\ Goto(r, "register")
    BY <1>6 DEF Detect
  <2> QED BY <2>5, <2>6 DEF Goto, TypeOK, history
<1>7. ASSUME NEW r \in Run, Register(r) PROVE TypeOK'
  BY <1>7 DEF Register, Goto, TypeOK, history
<1>8. ASSUME NEW r \in Run, LogOk(r) PROVE TypeOK'
  <2>1. entry' \in [Index -> [date : {Never} \cup Day, status : {"none", "ok", "error"}]]
    BY <1>8 DEF LogOk, Log, TypeOK
  <2> QED BY <1>8, <2>1, LeaveType DEF LogOk, TypeOK, history
<1>9. ASSUME NEW r \in Run, Fails(r) PROVE TypeOK'
  <2>1. entry' \in [Index -> [date : {Never} \cup Day, status : {"none", "ok", "error"}]]
    <3>1. entry' = entry \/ entry' = [entry EXCEPT ![index[r]] = [date |-> today, status |-> "error"]]
      BY <1>9 DEF Fails, Log
    <3>2. [date |-> today, status |-> "error"]
            \in [date : {Never} \cup Day, status : {"none", "ok", "error"}]
      BY DEF TypeOK
    <3>3. entry \in [Index -> [date : {Never} \cup Day, status : {"none", "ok", "error"}]]
      BY DEF TypeOK
    <3> DEFINE Entries == [date : {Never} \cup Day, status : {"none", "ok", "error"}]
               failed  == [date |-> today, status |-> "error"]
    <3>4. /\ failed \in Entries /\ entry \in [Index -> Entries]
          /\ entry' = entry \/ entry' = [entry EXCEPT ![index[r]] = failed]
      BY <3>1, <3>2, <3>3
    <3> HIDE DEF Entries, failed
    <3>5. entry' \in [Index -> Entries]
      BY <3>4
    <3> QED BY <3>5 DEF Entries
  <2> QED BY <1>9, <2>1, LeaveType DEF Fails, TypeOK, history
<1>10. ASSUME NEW r \in Run, Crash(r) PROVE TypeOK'
  BY <1>10, LeaveType DEF Crash, TypeOK, tables, history
<1>11. ASSUME NEW i \in Index, Purge(i) PROVE TypeOK'
  BY <1>11 DEF Purge, TypeOK, runVars
<1>12. CASE UNCHANGED vars
  BY <1>12 DEF TypeOK, vars, tables, runVars, history
<1> QED
  BY <1>1, <1>2, <1>3, <1>4, <1>5, <1>6, <1>7, <1>8, <1>9, <1>10, <1>11, <1>12,
     IndexAssumption DEF Next
-----------------------------------------------------------------------------
(***************************************************************************)
(* The runs.                                                               *)
(***************************************************************************)

(* A run that is the same after a step.                                    *)
Same(r) ==
  /\ pc'[r] = pc[r] /\ index'[r] = index[r] /\ prev'[r] = prev[r]
  /\ snap'[r] = snap[r] /\ new'[r] = new[r]

(* What the types say of a date, a list and a snapshot.                    *)
LEMMA Typed ==
  ASSUME TypeOK
  PROVE  /\ today \in Nat /\ today \in Day /\ Day \subseteq Nat /\ LastDay \in Nat
         /\ \A d \in Day : d > 0
         /\ \A r \in Run : prev[r] \in Nat /\ snap[r] \in Nat /\ index[r] \in Index
         /\ \A i \in Index : Snapshots(i) \subseteq Day
<1>1. Day \subseteq Nat /\ LastDay \in Nat /\ \A d \in Day : d > 0
  BY DayAssumption DEF Day
<1>2. /\ today \in Day /\ index \in [Run -> Index]
      /\ prev \in [Run -> {Never} \cup Day] /\ snap \in [Run -> {Never} \cup Day]
  BY DEF TypeOK
<1>3. \A i \in Index : Snapshots(i) \subseteq Day
  BY DEF Snapshots
<1>4. today \in Nat /\ \A r \in Run : index[r] \in Index
  BY <1>1, <1>2
<1>5. \A r \in Run : prev[r] \in {Never} \cup Day /\ snap[r] \in {Never} \cup Day
  BY <1>2
<1>6. \A r \in Run : prev[r] \in Nat /\ snap[r] \in Nat
  <2>1. {Never} \cup Day \subseteq Nat
    BY <1>1 DEF Never
  <2> QED BY <1>5, <2>1
<1> QED BY <1>1, <1>2, <1>3, <1>4, <1>6

(* The date of an active run is a day.                                     *)
LEMMA DatedRun ==
  ASSUME TypeOK, RunDates, NEW r \in Run, Active(r)
  PROVE  snap[r] \in Day
BY DayAssumption DEF RunDates, TypeOK, Day, Never

(* What leads to a snapshot depends on no later one.                       *)
LEMMA SameBefore ==
  ASSUME NEW i, NEW e \in Day, \A d \in Day : d < e => snapshot'[i][d] = snapshot[i][d],
         snapshot'[i][e] # {} <=> snapshot[i][e] # {}
  PROVE  /\ \A d : Consecutive(i, d, e)' <=> Consecutive(i, d, e)
         /\ \A d, l : d \in Day /\ d < e => Difference(i, d, e, l)' = Difference(i, d, e, l)
<1>0. \A d \in Day : d <= e => d < e \/ d = e
  BY DayAssumption DEF Day
<1>1. /\ \A d \in Day : d <= e => (d \in Snapshots(i)' <=> d \in Snapshots(i))
      /\ Snapshots(i)' \subseteq Day /\ Snapshots(i) \subseteq Day
  BY <1>0 DEF Snapshots
<1>2. Day \subseteq Nat
  BY DayAssumption DEF Day
<1> DEFINE S == Snapshots(i)
           T == {d \in Day : snapshot'[i][d] # {}}
           Next2(U, d) == {d, e} \subseteq U /\ d < e /\ \A c \in U : ~ (d < c /\ c < e)
<1>3. \A d : Consecutive(i, d, e)' <=> Consecutive(i, d, e)
  <2>1. \A d \in Day : d <= e => (d \in T <=> d \in S)
    BY <1>1 DEF Snapshots
  <2>2. S \subseteq Nat /\ T \subseteq Nat /\ S \subseteq Day /\ T \subseteq Day /\ e \in Nat
    BY <1>1, <1>2
  <2> HIDE DEF S, T
  <2>3. ASSUME NEW d PROVE Next2(S, d) <=> Next2(T, d)
    <3>1. Next2(S, d) => Next2(T, d)
      <4> SUFFICES ASSUME Next2(S, d) PROVE Next2(T, d)
        OBVIOUS
      <4>1. d \in S /\ e \in S /\ d < e
        OBVIOUS
      <4>2. d \in Day /\ e \in Day /\ d <= e /\ e <= e
        BY <2>2, <4>1
      <4>3. d \in T /\ e \in T
        BY <2>1, <4>1, <4>2
      <4>4. ASSUME NEW c \in T, d < c, c < e PROVE FALSE
        BY <2>1, <2>2, <4>4
      <4> QED BY <4>1, <4>4, <4>3
    <3>2. Next2(T, d) => Next2(S, d)
      <4> SUFFICES ASSUME Next2(T, d) PROVE Next2(S, d)
        OBVIOUS
      <4>1. d \in T /\ e \in T /\ d < e
        OBVIOUS
      <4>2. d \in Day /\ e \in Day /\ d <= e /\ e <= e
        BY <2>2, <4>1
      <4>3. d \in S /\ e \in S
        BY <2>1, <4>1, <4>2
      <4>4. ASSUME NEW c \in S, d < c, c < e PROVE FALSE
        BY <2>1, <2>2, <4>4
      <4> QED BY <4>1, <4>4, <4>3
    <3> QED BY <3>1, <3>2
  <2>4. \A d : (Consecutive(i, d, e)' <=> Next2(T, d)) /\ (Consecutive(i, d, e) <=> Next2(S, d))
    BY DEF S, T, Consecutive, Snapshots
  <2> QED BY <2>3, <2>4
<1>4. \A d, l : d \in Day /\ d < e => Difference(i, d, e, l)' = Difference(i, d, e, l)
  BY DEF Difference
<1> QED BY <1>3, <1>4

(* What is recorded stays so.                                              *)
LEMMA RecordedKept ==
  ASSUME changes \subseteq changes', NEW i, NEW e \in Day, NEW l, Recorded(i, e, l),
         \A d \in Day : d < e => snapshot'[i][d] = snapshot[i][d],
         snapshot'[i][e] # {} <=> snapshot[i][e] # {}
  PROVE  Recorded(i, e, l)'
<1>1. \A d : Consecutive(i, d, e) => d \in Snapshots(i) /\ d \in Day /\ d < e
  BY DEF Consecutive, Snapshots
<1>2. \A d : Consecutive(i, d, e)' => Difference(i, d, e, l)' \subseteq changes'
  BY <1>1, SameBefore DEF Recorded
<1> QED BY <1>2 DEF Recorded

LEMMA ChangesKept ==
  ASSUME TypeOK, RunDates, ChangesRecorded,
         torn' = torn, snapshot' = snapshot, changes \subseteq changes',
         \A r \in Run : pc'[r] \in {"register", "log"} => Same(r)
  PROVE  ChangesRecorded'
<1> SUFFICES ASSUME NEW r \in Run, pc'[r] \in {"register", "log"}, index'[r] \notin torn'
             PROVE  Recorded(index[r], snap[r], new[r])'
  BY DEF ChangesRecorded
<1>1. /\ Recorded(index[r], snap[r], new[r])
      /\ index'[r] = index[r] /\ snap'[r] = snap[r] /\ new'[r] = new[r] /\ Active(r)
  BY DEF ChangesRecorded, Same, Active
<1>2. \A i, l : \A e \in Day : Recorded(i, e, l) => Recorded(i, e, l)'
  BY RecordedKept
<1>3. snap[r] \in Day
  BY <1>1, DatedRun
<1> QED BY <1>1, <1>2, <1>3

(* Nothing is written to the snapshots, and every run goes on from where   *)
(* it was, or is over.                                                     *)
LEMMA QuietStep ==
  ASSUME RunsInv, TypeOK', today' = today, snapshot' = snapshot, lists' = lists, torn' = torn,
         changes \subseteq changes', stocks \subseteq stocks',
         \A r \in Run : pc'[r] = "idle" \/ Same(r)
  PROVE  RunsInv'
<1>1. RunDates'
  BY DEF RunsInv, RunDates, Active, Same
<1>2. SnapshotDates'
  BY DEF RunsInv, SnapshotDates
<1>3. ListsOfSnapshot'
  BY DEF RunsInv, ListsOfSnapshot, HasList, Same
<1>4. SnapshotSaved'
  BY DEF RunsInv, SnapshotSaved, HasSaved, Same
<1>5. PrevIsLast'
  BY DEF RunsInv, PrevIsLast, Active, Snapshots, Same
<1>6. ChangesRecorded'
  BY ChangesKept DEF RunsInv
<1>7. StocksRegistered'
  BY DEF RunsInv, StocksRegistered, Same
<1> QED BY <1>1, <1>2, <1>3, <1>4, <1>5, <1>6, <1>7 DEF RunsInv

(* The end of a run.                                                       *)
LEMMA LeaveEffect ==
  ASSUME TypeOK, NEW r \in Run, Leave(r)
  PROVE  pc'[r] = "idle" /\ \A q \in Run : q = r \/ Same(q)
BY DEF Leave, Goto, Same, TypeOK

LEMMA NextDayStep ==
  ASSUME RunsInv, TypeOK', NextDay
  PROVE  RunsInv'
<1>1. /\ today' = today + 1 /\ snapshot' = snapshot /\ lists' = lists /\ torn' = torn
      /\ changes' = changes /\ stocks' = stocks
      /\ \A r \in Run : Same(r) /\ pc[r] # "fetch"
      /\ \A r, q \in Run : Active(r) /\ Active(q) => r = q
      /\ today \in Nat /\ \A r \in Run : snap[r] \in Nat
  BY Typed DEF RunsInv, NextDay, tables, runVars, history, Same, Active
<1>2. RunDates'
  BY <1>1 DEF RunsInv, RunDates, Active, Same
<1>3. SnapshotDates'
  <2>1. \A d \in Day : d > today' => d > today
    BY <1>1, Typed DEF RunsInv
  <2> QED BY <1>1, <2>1 DEF RunsInv, SnapshotDates
<1>4. ListsOfSnapshot'
  BY <1>1 DEF RunsInv, ListsOfSnapshot, HasList, Same
<1>5. SnapshotSaved'
  BY <1>1 DEF RunsInv, SnapshotSaved, HasSaved, Same
<1>6. PrevIsLast'
  BY <1>1 DEF RunsInv, PrevIsLast, Active, Snapshots, Same
<1>7. ChangesRecorded'
  BY <1>1, ChangesKept DEF RunsInv
<1>8. StocksRegistered'
  BY <1>1 DEF RunsInv, StocksRegistered, Same
<1> QED BY <1>2, <1>3, <1>4, <1>5, <1>6, <1>7, <1>8 DEF RunsInv

(* What Start reads and sets.                                              *)
LEMMA StartEffect ==
  ASSUME TypeOK, NEW r \in Run, NEW i \in Index, Start(r, i)
  PROVE  /\ today' = today /\ snapshot' = snapshot /\ lists' = lists /\ torn' = torn
         /\ changes' = changes /\ stocks' = stocks /\ entry' = entry
         /\ \A q \in Run : q = r \/ Same(q)
         /\ \A q \in Run : Active(q) => snap[q] = today
         /\ pc[r] = "idle" /\ pc'[r] = "fetch" /\ index'[r] = i
         /\ prev'[r] = LastSnapshot(i) /\ snap'[r] = today /\ LastSnapshot(i) # today
         /\ overlaps \subseteq overlaps'
         /\ (\E q \in Run : Active(q) /\ index[q] = i) => <<i, today>> \in overlaps'
BY DEF Start, Begins, tables, Goto, Same, TypeOK, Active

LEMMA StartStep ==
  ASSUME RunsInv, TypeOK', NEW r \in Run, NEW i \in Index, Start(r, i)
  PROVE  RunsInv'
<1>1. /\ today' = today /\ snapshot' = snapshot /\ lists' = lists /\ torn' = torn
      /\ changes' = changes /\ stocks' = stocks
      /\ \A q \in Run : q = r \/ Same(q)
      /\ \A q \in Run : Active(q) => snap[q] = today
  BY StartEffect DEF RunsInv
<1>2. /\ pc'[r] = "fetch" /\ index'[r] = i /\ prev'[r] = LastSnapshot(i) /\ snap'[r] = today
      /\ LastSnapshot(i) # today
  BY StartEffect DEF RunsInv
<1>3. /\ LastSnapshot(i) \in {Never} \cup Snapshots(i)
      /\ \A d \in Snapshots(i) : d <= LastSnapshot(i)
      /\ LastSnapshot(i) \in Nat /\ today \in Nat /\ today > 0
      /\ \A d \in Snapshots(i) : d \in Nat /\ d > 0 /\ d \in Day
  BY LastIs, Typed DEF Never, RunsInv
<1>4. LastSnapshot(i) < today
  <2>1. LastSnapshot(i) \in Snapshots(i) => LastSnapshot(i) <= today
    BY <1>3 DEF RunsInv, SnapshotDates, Snapshots
  <2> QED BY <1>2, <1>3, <2>1 DEF Never
<1>5. RunDates'
  BY <1>1, <1>2, <1>3, <1>4 DEF RunsInv, RunDates, Active, Same
<1>6. SnapshotDates'
  BY <1>1 DEF RunsInv, SnapshotDates
<1>7. ListsOfSnapshot'
  BY <1>1, <1>2 DEF RunsInv, ListsOfSnapshot, HasList, Same
<1>8. SnapshotSaved'
  BY <1>1, <1>2 DEF RunsInv, SnapshotSaved, HasSaved, Same
<1>9. PrevIsLast'
  <2>1. \/ LastSnapshot(i) \in Snapshots(i)
        \/ \A d \in Snapshots(i) : d >= today
    BY <1>3 DEF Never
  <2> QED BY <1>1, <1>2, <1>3, <2>1 DEF RunsInv, PrevIsLast, Active, Snapshots, Same
<1>10. ChangesRecorded'
  BY <1>1, <1>2, ChangesKept DEF RunsInv
<1>11. StocksRegistered'
  BY <1>1, <1>2 DEF RunsInv, StocksRegistered, Same
<1> QED BY <1>5, <1>6, <1>7, <1>8, <1>9, <1>10, <1>11 DEF RunsInv

LEMMA FetchStep ==
  ASSUME RunsInv, TypeOK', NEW r \in Run, Fetch(r)
  PROVE  RunsInv'
<1>1. /\ today' = today /\ snapshot' = snapshot /\ lists' = lists /\ torn' = torn
      /\ changes' = changes /\ stocks' = stocks
      /\ \A q \in Run : q = r \/ Same(q)
  BY DEF Fetch, tables, history, Goto, Same, RunsInv, TypeOK
<1>2. /\ pc[r] = "fetch" /\ pc'[r] = "save" /\ index'[r] = index[r] /\ prev'[r] = prev[r]
      /\ index[r] \in Index
  BY DEF Fetch, Goto, RunsInv, TypeOK
<1>3. snap[r] = today
  BY <1>2 DEF RunsInv, RunDates, Active
<1>4. snap'[r] = snap[r]
  BY <1>3 DEF Fetch, RunsInv, TypeOK
<1>5. new'[r] # {}
  <2>1. PICK l \in Listed[index[r]] : new' = [new EXCEPT ![r] = l]
    BY DEF Fetch
  <2>2. l # {} /\ new'[r] = l
    BY <1>2, <2>1, ListAssumption DEF RunsInv, TypeOK
  <2> QED BY <2>2
<1>6. RunDates'
  BY <1>1, <1>2, <1>4 DEF RunsInv, RunDates, Active, Same
<1>7. SnapshotDates'
  BY <1>1 DEF RunsInv, SnapshotDates
<1>8. ListsOfSnapshot'
  BY <1>1, <1>5 DEF RunsInv, ListsOfSnapshot, HasList, Same
<1>9. SnapshotSaved'
  BY <1>1, <1>2 DEF RunsInv, SnapshotSaved, HasSaved, Same
<1>10. PrevIsLast'
  BY <1>1, <1>2, <1>4 DEF RunsInv, PrevIsLast, Active, Snapshots, Same
<1>11. ChangesRecorded'
  BY <1>1, <1>2, ChangesKept DEF RunsInv
<1>12. StocksRegistered'
  BY <1>1, <1>2 DEF RunsInv, StocksRegistered, Same
<1> QED BY <1>6, <1>7, <1>8, <1>9, <1>10, <1>11, <1>12 DEF RunsInv

(* The transaction with the snapshot, of either kind of index.             *)
Writes(r) ==
  /\ pc[r] = "save"
  /\ WriteSnapshot(r)
  /\ stocks \subseteq stocks'
  /\ \A q \in Run : q = r \/ Same(q)
  /\ \/ pc'[r] = "idle"
     \/ /\ pc'[r] = "detect" /\ index'[r] = index[r] /\ prev'[r] = prev[r]
        /\ snap'[r] = snap[r] /\ new'[r] = new[r]

(* It adds the list of a run to the snapshot of its day.                   *)
LEMMA WrittenSnapshot ==
  ASSUME RunsInv, NEW r \in Run, Writes(r)
  PROVE  /\ \A i \in Index, d \in Day : snapshot'[i][d] =
              IF i = index[r] /\ d = snap[r] THEN snapshot[i][d] \cup new[r] ELSE snapshot[i][d]
         /\ \A i \in Index, d \in Day : lists'[i][d] =
              IF i = index[r] /\ d = snap[r] THEN lists[i][d] \cup {new[r]} ELSE lists[i][d]
<1>1. snap[r] \in Day /\ index[r] \in Index
  BY DatedRun, Typed DEF RunsInv, Writes, Active
<1>2. \A i \in Index, d \in Day : snapshot'[i][d] =
        IF i = index[r] /\ d = snap[r] THEN snapshot[i][d] \cup new[r] ELSE snapshot[i][d]
  BY <1>1 DEF RunsInv, TypeOK, Writes, WriteSnapshot
<1>3. \A i \in Index, d \in Day : lists'[i][d] =
        IF i = index[r] /\ d = snap[r] THEN lists[i][d] \cup {new[r]} ELSE lists[i][d]
  BY <1>1 DEF RunsInv, TypeOK, Writes, WriteSnapshot
<1> QED BY <1>2, <1>3

(* The snapshot of a run that has saved it is there.                       *)
LEMMA SavedSnapshot ==
  ASSUME RunsInv, NEW r \in Run, HasSaved(r), index[r] \notin torn
  PROVE  /\ new[r] \in lists[index[r]][snap[r]] /\ new[r] # {}
         /\ new[r] \subseteq snapshot[index[r]][snap[r]]
         /\ snap[r] \in Snapshots(index[r])
<1>1. snap[r] \in Day /\ index[r] \in Index /\ HasList(r)
  BY DatedRun, Typed DEF RunsInv, HasSaved, HasList, Active
<1>2. new[r] \in lists[index[r]][snap[r]] /\ new[r] # {}
  BY <1>1 DEF RunsInv, SnapshotSaved, ListsOfSnapshot
<1>3. snapshot[index[r]][snap[r]] = UNION lists[index[r]][snap[r]]
  BY <1>1 DEF RunsInv, ListsOfSnapshot
<1> QED BY <1>1, <1>2, <1>3 DEF Snapshots

(* It leaves the earlier ones of what is there, and takes nothing away.    *)
LEMMA EarlierKept ==
  ASSUME RunsInv, NEW r \in Run, Writes(r), NEW i \in Index, NEW e \in Snapshots(i)
  PROVE  /\ \A d \in Day : d < e => snapshot'[i][d] = snapshot[i][d]
         /\ \A d \in Day : snapshot[i][d] \subseteq snapshot'[i][d]
         /\ \A d \in Day : lists[i][d] \subseteq lists'[i][d]
         /\ snapshot'[i][e] # {} /\ snapshot[i][e] # {}
<1>1. /\ \A d \in Day : snapshot'[i][d] =
           IF i = index[r] /\ d = snap[r] THEN snapshot[i][d] \cup new[r] ELSE snapshot[i][d]
      /\ \A d \in Day : lists'[i][d] =
           IF i = index[r] /\ d = snap[r] THEN lists[i][d] \cup {new[r]} ELSE lists[i][d]
  BY WrittenSnapshot
<1>2. /\ prev[r] < snap[r] /\ snap[r] \in Day /\ prev[r] \in Nat
      /\ \A d \in Snapshots(index[r]) : d <= prev[r] \/ d = snap[r]
  <2>1. Active(r)
    BY DEF Writes, Active
  <2> QED BY <2>1, DatedRun, Typed DEF RunsInv, RunDates, PrevIsLast
<1>3. Day \subseteq Nat /\ e \in Day /\ snapshot[i][e] # {}
  BY Typed DEF RunsInv, Snapshots
<1>4. i = index[r] => e <= snap[r]
  <2>1. i = index[r] => e <= prev[r] \/ e = snap[r]
    BY <1>2
  <2>2. prev[r] < snap[r] /\ prev[r] \in Nat /\ snap[r] \in Nat /\ e \in Nat
    BY <1>2, <1>3
  <2>3. e <= prev[r] \/ e = snap[r] => e <= snap[r]
    BY <2>2
  <2> QED BY <2>1, <2>3
<1>5. \A d \in Day : d < e /\ i = index[r] => d # snap[r]
  BY <1>2, <1>3, <1>4
<1>6. \A d \in Day : d < e => snapshot'[i][d] = snapshot[i][d]
  BY <1>1, <1>5
<1>7. \A d \in Day : snapshot[i][d] \subseteq snapshot'[i][d] /\ lists[i][d] \subseteq lists'[i][d]
  BY <1>1
<1> QED BY <1>3, <1>6, <1>7

LEMMA UnionOfOneMore ==
  ASSUME NEW L, NEW l
  PROVE  UNION (L \cup {l}) = (UNION L) \cup l
<1>1. ASSUME NEW x, x \in UNION (L \cup {l}) PROVE x \in (UNION L) \cup l
  <2>1. PICK m \in L \cup {l} : x \in m
    BY <1>1
  <2> QED BY <2>1
<1>2. ASSUME NEW x, x \in (UNION L) \cup l PROVE x \in UNION (L \cup {l})
  <2>1. CASE x \in l
    BY <2>1
  <2>2. CASE x \in UNION L
    BY <2>2
  <2> QED BY <1>2, <2>1, <2>2
<1> QED BY <1>1, <1>2

LEMMA WriteStep ==
  ASSUME RunsInv, TypeOK', NEW r \in Run, Writes(r)
  PROVE  RunsInv'
<1>1. /\ today' = today /\ changes' = changes /\ torn' = torn
      /\ stocks \subseteq stocks' /\ pc[r] = "save" /\ Active(r) /\ HasList(r)
      /\ \A q \in Run : q = r \/ Same(q)
  BY DEF Writes, WriteSnapshot, Active, HasList
<1>2. pc'[r] = "idle" \/ ( /\ pc'[r] = "detect" /\ index'[r] = index[r] /\ prev'[r] = prev[r]
                          /\ snap'[r] = snap[r] /\ new'[r] = new[r])
  BY DEF Writes
<1>3. \A i \in Index, d \in Day : snapshot'[i][d] =
        IF i = index[r] /\ d = snap[r] THEN snapshot[i][d] \cup new[r] ELSE snapshot[i][d]
  BY WrittenSnapshot
<1>7. \A i \in Index, d \in Day : lists'[i][d] =
        IF i = index[r] /\ d = snap[r] THEN lists[i][d] \cup {new[r]} ELSE lists[i][d]
  BY WrittenSnapshot
<1>4. /\ snap[r] \in Day /\ snap[r] \in Nat /\ index[r] \in Index /\ today \in Day
      /\ today \in Nat /\ new[r] # {} /\ snap[r] <= today /\ Day \subseteq Nat
  BY <1>1, DatedRun, Typed DEF RunsInv, RunDates, ListsOfSnapshot
<1>5. \A q \in Run : Active(q) => snap[q] \in Day /\ index[q] \in Index
  BY DatedRun, Typed DEF RunsInv
(* Another run of the day has the same date.                               *)
<1>6. \A q \in Run : Active(q) => snap[q] = snap[r]
  BY <1>1 DEF RunsInv, RunDates
<1> DEFINE After(i) == {d \in Day : snapshot'[i][d] # {}}
<1>8. \A i \in Index : \A d \in Day :
        d \in After(i) <=> d \in Snapshots(i) \/ (i = index[r] /\ d = snap[r])
  BY <1>3, <1>4 DEF Snapshots
<1>9. RunDates'
  BY <1>1, <1>2 DEF RunsInv, RunDates, Active, Same
<1>10. SnapshotDates'
  <2>1. \A i \in Index, d \in Day : d > today => snapshot'[i][d] = {}
    BY <1>3, <1>4 DEF RunsInv, SnapshotDates
  <2> QED BY <1>1, <2>1 DEF SnapshotDates
<1>11. ListsOfSnapshot'
  <2>1. \A i \in Index, d \in Day : {} \notin lists'[i][d]
    <3>1. \A i \in Index, d \in Day : {} \notin lists[i][d]
      BY DEF RunsInv, ListsOfSnapshot
    <3>2. new[r] # {}
      BY <1>4
    <3>3. \A i \in Index, d \in Day : {} \notin lists[i][d] \cup {new[r]}
      BY <3>1, <3>2
    <3> QED BY <1>7, <3>1, <3>3
  <2>2. ASSUME NEW i \in Index, NEW d \in Day PROVE snapshot'[i][d] = UNION lists'[i][d]
    <3>1. snapshot[i][d] = UNION lists[i][d]
      BY DEF RunsInv, ListsOfSnapshot
    <3>2. PICK L, l : L = lists[i][d] /\ l = new[r]
      OBVIOUS
    <3>3. CASE i = index[r] /\ d = snap[r]
      <4>1. lists'[i][d] = L \cup {l} /\ snapshot'[i][d] = (UNION L) \cup l
        BY <1>3, <1>7, <3>1, <3>2, <3>3
      <4>2. UNION (L \cup {l}) = (UNION L) \cup l
        BY UnionOfOneMore
      <4> QED BY <4>1, <4>2
    <3>4. CASE ~ (i = index[r] /\ d = snap[r])
      <4>1. lists'[i][d] = lists[i][d] /\ snapshot'[i][d] = snapshot[i][d]
        BY <1>3, <1>7, <3>4
      <4> QED BY <3>1, <4>1
    <3> QED BY <3>3, <3>4
  <2>3. \A q \in Run : HasList(q)' => new'[q] # {}
    BY <1>1, <1>2, <1>4 DEF RunsInv, ListsOfSnapshot, HasList, Same
  <2> QED BY <2>1, <2>2, <2>3 DEF ListsOfSnapshot
<1>12. SnapshotSaved'
  <2>1. ASSUME NEW q \in Run, q # r, HasSaved(q)', index'[q] \notin torn
        PROVE  new'[q] \in lists'[index'[q]][snap'[q]]
    <3>1. Same(q) /\ HasSaved(q) /\ Active(q)
      BY <1>1, <2>1 DEF Same, HasSaved, Active
    <3>2. new[q] \in lists[index[q]][snap[q]]
      BY <2>1, <3>1 DEF RunsInv, SnapshotSaved, Same
    <3> QED BY <1>5, <1>7, <3>1, <3>2 DEF Same
  <2>2. HasSaved(r)' => new'[r] \in lists'[index'[r]][snap'[r]]
    BY <1>2, <1>4, <1>7 DEF HasSaved
  <2> QED BY <1>1, <2>1, <2>2 DEF SnapshotSaved
<1>13. PrevIsLast'
  <2>1. ASSUME NEW q \in Run, Active(q)'
        PROVE Active(q) /\ prev'[q] = prev[q] /\ snap'[q] = snap[q] /\ index'[q] = index[q]
    BY <1>1, <1>2, <2>1 DEF Active, Same
  <2>2. ASSUME NEW q \in Run, Active(q)
        PROVE  /\ \A d \in After(index[q]) : d <= prev[q] \/ d = snap[q]
               /\ \/ prev[q] \in After(index[q])
                  \/ \A d \in After(index[q]) : d >= snap[q]
    <3>1. index[q] \in Index /\ snap[q] = snap[r]
      BY <1>5, <1>6, <2>2
    <3>2. Snapshots(index[q]) \subseteq Day
      BY DEF Snapshots
    <3>3. After(index[q]) \subseteq Snapshots(index[q]) \cup {snap[q]}
      BY <1>8, <3>1
    <3>4. Snapshots(index[q]) \subseteq After(index[q])
      BY <1>8, <3>1, <3>2
    <3> HIDE DEF After
    <3>5. /\ \A d \in Snapshots(index[q]) : d <= prev[q] \/ d = snap[q]
          /\ \/ prev[q] \in Snapshots(index[q])
             \/ \A d \in Snapshots(index[q]) : d >= snap[q]
      BY <2>2 DEF RunsInv, PrevIsLast
    <3> QED BY <1>4, <3>1, <3>3, <3>4, <3>5
  <2> QED BY <2>1, <2>2 DEF PrevIsLast, Snapshots
<1>14. ChangesRecorded'
  <2>1. ASSUME NEW q \in Run, pc'[q] \in {"register", "log"}, index'[q] \notin torn
        PROVE  Recorded(index[q], snap[q], new[q])'
    <3>1. /\ Same(q) /\ q # r /\ Recorded(index[q], snap[q], new[q]) /\ Active(q)
          /\ HasSaved(q) /\ HasList(q) /\ index[q] \in Index /\ snap[q] \in Day
          /\ index[q] \notin torn
      BY <1>1, <1>2, <1>5, <2>1 DEF RunsInv, ChangesRecorded, Same, Active, HasList, HasSaved
    <3>2. snap[q] \in Snapshots(index[q])
      BY <3>1, SavedSnapshot
    <3>3. /\ \A d \in Day : d < snap[q] => snapshot'[index[q]][d] = snapshot[index[q]][d]
          /\ snapshot'[index[q]][snap[q]] # {} /\ snapshot[index[q]][snap[q]] # {}
      BY <3>1, <3>2, EarlierKept
    <3>4. index'[q] = index[q] /\ snap'[q] = snap[q] /\ new'[q] = new[q]
      BY <3>1 DEF Same
    <3>5. \A i, l : \A e \in Day :
            /\ Recorded(i, e, l)
            /\ \A d \in Day : d < e => snapshot'[i][d] = snapshot[i][d]
            /\ snapshot'[i][e] # {} /\ snapshot[i][e] # {}
            => Recorded(i, e, l)'
      BY <1>1, RecordedKept
    <3> QED BY <3>1, <3>3, <3>4, <3>5
  <2> QED BY <1>1, <2>1 DEF ChangesRecorded
<1>15. StocksRegistered'
  BY <1>1, <1>2 DEF RunsInv, StocksRegistered, Same
<1> QED BY <1>9, <1>10, <1>11, <1>12, <1>13, <1>14, <1>15 DEF RunsInv

(* A run goes on to its next transaction, over the same snapshots.         *)
Advances(r) ==
  /\ UNCHANGED <<today, snapshot, lists, torn, index, prev, snap, new>>
  /\ changes \subseteq changes' /\ stocks \subseteq stocks'
  /\ HasSaved(r) /\ HasSaved(r)'
  /\ \A q \in Run : q = r \/ pc'[q] = pc[q]

LEMMA AdvanceStep ==
  ASSUME RunsInv, TypeOK', NEW r \in Run, Advances(r),
         index[r] \notin torn => Recorded(index[r], snap[r], new[r])',
         pc'[r] = "log" => new[r] \subseteq stocks'
  PROVE  RunsInv'
<1>1. /\ today' = today /\ snapshot' = snapshot /\ lists' = lists /\ torn' = torn
      /\ index' = index /\ prev' = prev /\ snap' = snap /\ new' = new
      /\ changes \subseteq changes' /\ stocks \subseteq stocks'
      /\ \A q \in Run : q = r \/ pc'[q] = pc[q]
  BY DEF Advances
<1>2. /\ pc[r] \in {"detect", "register", "log"} /\ pc'[r] \in {"detect", "register", "log"}
  BY DEF Advances, HasSaved
<1>3. RunDates'
  BY <1>1, <1>2 DEF RunsInv, RunDates, Active
<1>4. SnapshotDates'
  BY <1>1 DEF RunsInv, SnapshotDates
<1>5. ListsOfSnapshot'
  BY <1>1, <1>2 DEF RunsInv, ListsOfSnapshot, HasList
<1>6. SnapshotSaved'
  BY <1>1, <1>2 DEF RunsInv, SnapshotSaved, HasSaved
<1>7. PrevIsLast'
  BY <1>1, <1>2 DEF RunsInv, PrevIsLast, Active, Snapshots
<1>8. ChangesRecorded'
  <2>1. ASSUME NEW q \in Run, q # r, pc'[q] \in {"register", "log"}, index[q] \notin torn
        PROVE  Recorded(index[q], snap[q], new[q])'
    <3>1. Recorded(index[q], snap[q], new[q]) /\ Active(q)
      BY <1>1, <2>1 DEF RunsInv, ChangesRecorded, Active
    <3>2. snap[q] \in Day
      BY <3>1, DatedRun DEF RunsInv
    <3>3. \A i, l : \A e \in Day : Recorded(i, e, l) => Recorded(i, e, l)'
      BY <1>1, RecordedKept
    <3> QED BY <1>1, <3>1, <3>2, <3>3
  <2> QED BY <1>1, <2>1 DEF ChangesRecorded
<1>9. StocksRegistered'
  BY <1>1 DEF RunsInv, StocksRegistered
<1> QED BY <1>3, <1>4, <1>5, <1>6, <1>7, <1>8, <1>9 DEF RunsInv

(* What Detect records leads from the last snapshot to the run's list.     *)
LEMMA DetectRecords ==
  ASSUME RunsInv, NEW r \in Run, Detect(r), index[r] \notin torn
  PROVE  /\ \A d \in Snapshots(index[r]) : Consecutive(index[r], d, snap[r]) =>
               Difference(index[r], d, snap[r], new[r]) \subseteq changes'
         /\ \A c \in changes' \ changes :
               /\ c.index = index[r] /\ c.date = snap[r] /\ c.prev = prev[r]
               /\ prev[r] = Never => c.type = "ADDED" /\ c.ticker \in new[r]
               /\ prev[r] # Never => /\ Consecutive(index[r], prev[r], snap[r])
                                    /\ c \in Difference(index[r], prev[r], snap[r], new[r])
<1> DEFINE i == index[r]
           p == prev[r]
           e == snap[r]
           before == IF p = Never THEN {} ELSE snapshot[i][p]
<1>1. /\ snapshot[i][e] # {} /\ e \in Day
      /\ p < e /\ p \in Nat /\ e \in Nat /\ Day \subseteq Nat
      /\ \A d \in Snapshots(i) : d <= p \/ d = e
      /\ p \in Snapshots(i) \/ \A d \in Snapshots(i) : d >= e
      /\ Snapshots(i) \subseteq Day /\ \A d \in Day : d > 0
  <2>1. pc[r] = "detect" /\ Active(r) /\ HasSaved(r) /\ HasList(r)
    BY DEF Detect, Active, HasSaved, HasList
  <2>2. e \in Day /\ Day \subseteq Nat /\ p \in Nat /\ i \in Index
        /\ \A d \in Day : d > 0
    BY <2>1, DatedRun, Typed DEF RunsInv
  <2>3. e \in Snapshots(i)
    BY <2>1, SavedSnapshot
  <2> QED BY <2>1, <2>2, <2>3 DEF RunsInv, RunDates, PrevIsLast, Snapshots
<1>2. \A d \in Snapshots(i) : Consecutive(i, d, e) => d = p /\ p \in Snapshots(i)
  <2>1. ASSUME NEW d \in Snapshots(i), Consecutive(i, d, e) PROVE d = p /\ p \in Snapshots(i)
    <3>1. d < e /\ d \in Nat /\ \A c \in Snapshots(i) : ~ (d < c /\ c < e)
      BY <1>1, <2>1 DEF Consecutive
    <3>2. d <= p /\ p \in Snapshots(i)
      BY <1>1, <3>1
    <3> QED BY <1>1, <3>1, <3>2
  <2> QED BY <2>1
<1>3. p \in Snapshots(i) => p # Never /\ before = snapshot[i][p] /\ before # {}
  BY <1>1 DEF Snapshots, Never
<1>4. changes' = IF p # Never /\ before = {} THEN changes
                 ELSE changes \cup Changes(r, p, "ADDED", new[r] \ before)
                              \cup Changes(r, p, "REMOVED", before \ new[r])
  BY DEF Detect
<1>5. p \in Snapshots(i) =>
        Difference(i, p, e, new[r]) = Changes(r, p, "ADDED", new[r] \ before)
                              \cup Changes(r, p, "REMOVED", before \ new[r])
  <2> SUFFICES ASSUME p \in Snapshots(i)
               PROVE  Difference(i, p, e, new[r]) = Changes(r, p, "ADDED", new[r] \ before)
                        \cup Changes(r, p, "REMOVED", before \ new[r])
    OBVIOUS
  <2>1. before = snapshot[i][p]
    BY <1>1, <1>3
  <2> QED BY <2>1 DEF Difference, Changes
<1>6. \A d \in Snapshots(i) : Consecutive(i, d, e) => Difference(i, d, e, new[r]) \subseteq changes'
  <2> HIDE DEF i, p, e, before
  <2> QED BY <1>2, <1>3, <1>4, <1>5
<1>7. ASSUME NEW c \in changes' \ changes
      PROVE  /\ c.index = i /\ c.date = e /\ c.prev = p
             /\ p = Never => c.type = "ADDED" /\ c.ticker \in new[r]
             /\ p # Never => Consecutive(i, p, e) /\ c \in Difference(i, p, e, new[r])
  <2>1. /\ p = Never \/ before # {}
        /\ c \in Changes(r, p, "ADDED", new[r] \ before)
               \cup Changes(r, p, "REMOVED", before \ new[r])
    <3> HIDE DEF before, p
    <3> QED BY <1>4, <1>7
  <2>2. c.index = i /\ c.date = e /\ c.prev = p
    BY <2>1 DEF Changes
  <2>3. p = Never => c.type = "ADDED" /\ c.ticker \in new[r]
    <3> SUFFICES ASSUME p = Never PROVE c.type = "ADDED" /\ c.ticker \in new[r]
      OBVIOUS
    <3>1. before = {}
      OBVIOUS
    <3> HIDE DEF before, p
    <3>2. c \in Changes(r, p, "ADDED", new[r])
      BY <2>1, <3>1 DEF Changes
    <3> QED BY <3>2 DEF Changes
  <2>4. p # Never => Consecutive(i, p, e) /\ c \in Difference(i, p, e, new[r])
    <3> SUFFICES ASSUME p # Never PROVE Consecutive(i, p, e) /\ c \in Difference(i, p, e, new[r])
      OBVIOUS
    <3>1. snapshot[i][p] # {}
      BY <2>1
    <3>2. p \in Day
      BY DEF RunsInv, TypeOK, Never
    <3>3. p \in Snapshots(i) /\ e \in Snapshots(i)
      BY <1>1, <3>1, <3>2 DEF Snapshots
    <3>4. Consecutive(i, p, e)
      <4> HIDE DEF i, p, e
      <4>1. \A d \in Snapshots(i) : d \in Nat /\ (d <= p \/ d = e)
        BY <1>1
      <4>2. \A d \in Snapshots(i) : ~ (p < d /\ d < e)
        BY <1>1, <4>1
      <4> QED BY <1>1, <3>3, <4>2 DEF Consecutive
    <3> QED BY <1>5, <2>1, <3>3, <3>4
  <2> QED BY <2>2, <2>3, <2>4
<1> QED BY <1>6, <1>7

(* purge_index takes away the index's rows from every table, also between  *)
(* the transactions of its runs.                                           *)
LEMMA PurgeEffect ==
  ASSUME TypeOK, NEW i \in Index, Purge(i)
  PROVE  /\ UNCHANGED <<today, stocks, pc, index, prev, snap, new, overlaps>>
         /\ \A d \in Day : snapshot'[i][d] = {} /\ lists'[i][d] = {}
         /\ \A k \in Index : k # i => /\ snapshot'[k] = snapshot[k] /\ lists'[k] = lists[k]
                                    /\ entry'[k] = entry[k]
         /\ entry'[i].status = "none"
         /\ changes' = {c \in changes : c.index # i}
         /\ \A k \in Index : k # i => (k \in torn' <=> k \in torn)
         /\ Writing(i) => i \in torn'
BY DEF Purge, TypeOK, runVars

(* What leads to the snapshots of the others is still there.               *)
LEMMA OthersRecorded ==
  ASSUME TypeOK, NEW i \in Index, Purge(i), NEW k \in Index, k # i,
         NEW e \in Day, NEW l, Recorded(k, e, l)
  PROVE  Recorded(k, e, l)'
<1>1. snapshot'[k] = snapshot[k] /\ changes' = {c \in changes : c.index # i}
  BY PurgeEffect
<1>2. \A d : Consecutive(k, d, e)' => Consecutive(k, d, e) /\ d \in Day /\ d < e
  BY <1>1, SameBefore DEF Consecutive, Snapshots
<1>3. \A d : d \in Day /\ d < e => Difference(k, d, e, l)' = Difference(k, d, e, l)
  BY <1>1, SameBefore
<1>4. \A d : \A c \in Difference(k, d, e, l) : c.index # i
  BY DEF Difference
<1>5. \A d : Consecutive(k, d, e) => d \in Snapshots(k)
  BY DEF Consecutive
<1>6. \A d : Consecutive(k, d, e)' => Difference(k, d, e, l)' \subseteq changes'
  BY <1>1, <1>2, <1>3, <1>4, <1>5 DEF Recorded
<1> QED BY <1>6 DEF Recorded

LEMMA PurgeStep ==
  ASSUME RunsInv, TypeOK', NEW i \in Index, Purge(i)
  PROVE  RunsInv'
<1>1. /\ today' = today /\ stocks' = stocks /\ pc' = pc /\ index' = index
      /\ prev' = prev /\ snap' = snap /\ new' = new
      /\ \A d \in Day : snapshot'[i][d] = {} /\ lists'[i][d] = {}
      /\ \A k \in Index : k # i => /\ snapshot'[k] = snapshot[k] /\ lists'[k] = lists[k]
                                 /\ (k \in torn' <=> k \in torn)
      /\ Writing(i) => i \in torn'
  BY PurgeEffect DEF RunsInv
<1>2. /\ \A r \in Run : index[r] \in Index /\ (Active(r) => snap[r] \in Day)
      /\ today \in Day
  BY DatedRun, Typed DEF RunsInv
<1>3. \A r \in Run : (HasList(r) => Active(r)) /\ (HasSaved(r) => HasList(r))
                   /\ (pc[r] \in {"register", "log"} => HasSaved(r))
  BY DEF HasList, HasSaved, Active
<1>4. \A r \in Run : HasSaved(r) /\ index[r] \notin torn' => index[r] # i /\ index[r] \notin torn
  BY <1>1, <1>2 DEF Writing, HasSaved
<1>5. RunDates'
  BY <1>1 DEF RunsInv, RunDates, Active
<1>6. SnapshotDates'
  <2>1. ASSUME NEW k \in Index
        PROVE  \A d \in Day : d > today => snapshot'[k][d] = {}
    <3>1. CASE k = i
      BY <1>1, <3>1
    <3>2. CASE k # i
      BY <1>1, <3>2 DEF RunsInv, SnapshotDates
    <3> QED BY <3>1, <3>2
  <2> QED BY <1>1, <2>1 DEF SnapshotDates
<1>7. ListsOfSnapshot'
  <2>1. ASSUME NEW k \in Index, NEW d \in Day
        PROVE  {} \notin lists'[k][d] /\ snapshot'[k][d] = UNION lists'[k][d]
    <3>1. CASE k = i
      BY <1>1, <3>1
    <3>2. CASE k # i
      <4>1. {} \notin lists[k][d] /\ snapshot[k][d] = UNION lists[k][d]
        BY DEF RunsInv, ListsOfSnapshot
      <4>2. snapshot'[k] = snapshot[k] /\ lists'[k] = lists[k]
        BY <1>1, <3>2
      <4> QED BY <4>1, <4>2
    <3> QED BY <3>1, <3>2
  <2> QED BY <1>1, <2>1 DEF RunsInv, ListsOfSnapshot, HasList
<1>8. SnapshotSaved'
  BY <1>1, <1>2, <1>4 DEF RunsInv, SnapshotSaved, HasSaved
<1>9. PrevIsLast'
  <2>1. ASSUME NEW r \in Run, Active(r), index[r] = i
        PROVE  {d \in Day : snapshot'[index[r]][d] # {}} = {}
    BY <1>1, <2>1
  <2>2. ASSUME NEW r \in Run, Active(r), index[r] # i
        PROVE  {d \in Day : snapshot'[index[r]][d] # {}} = Snapshots(index[r])
    BY <1>1, <1>2, <2>2 DEF Snapshots
  <2> QED BY <1>1, <2>1, <2>2 DEF RunsInv, PrevIsLast, Active, Snapshots
<1>10. ChangesRecorded'
  <2>1. ASSUME NEW r \in Run, pc[r] \in {"register", "log"}, index[r] \notin torn'
        PROVE  Recorded(index[r], snap[r], new[r])'
    <3>1. /\ index[r] # i /\ Recorded(index[r], snap[r], new[r])
          /\ index[r] \in Index /\ snap[r] \in Day
      BY <1>2, <1>3, <1>4, <2>1 DEF RunsInv, ChangesRecorded
    <3>2. \A k \in Index : \A e \in Day : \A l :
            k # i /\ Recorded(k, e, l) => Recorded(k, e, l)'
      BY OthersRecorded DEF RunsInv
    <3> QED BY <1>1, <3>1, <3>2
  <2> QED BY <1>1, <2>1 DEF ChangesRecorded
<1>11. StocksRegistered'
  BY <1>1 DEF RunsInv, StocksRegistered
<1> QED BY <1>5, <1>6, <1>7, <1>8, <1>9, <1>10, <1>11 DEF RunsInv

(* Every step.                                                             *)
LEMMA StepRuns ==
  ASSUME RunsInv, [Next]_vars
  PROVE  RunsInv'
<1>0. TypeOK'
  BY StepType DEF RunsInv
<1>1. CASE NextDay
  BY <1>0, <1>1, NextDayStep
<1>2. ASSUME NEW r \in Run, NEW i \in Index, Start(r, i) PROVE RunsInv'
  BY <1>0, <1>2, StartStep
<1>3. ASSUME NEW r \in Run, Fetch(r) PROVE RunsInv'
  BY <1>0, <1>3, FetchStep
<1>4. ASSUME NEW r \in Run, Save(r) PROVE RunsInv'
  <2>1. Writes(r)
    BY <1>4 DEF Save, Writes, WriteSnapshot, Goto, Same, RunsInv, TypeOK
  <2> QED BY <1>0, <2>1, WriteStep
<1>5. ASSUME NEW r \in Run, SaveOneTx(r) PROVE RunsInv'
  <2>1. Writes(r)
    BY <1>5, LeaveEffect DEF SaveOneTx, Writes, RunsInv
  <2> QED BY <1>0, <2>1, WriteStep
<1>6. ASSUME NEW r \in Run, Detect(r) PROVE RunsInv'
  <2>1. /\ UNCHANGED <<today, snapshot, stocks, lists, torn, index, prev, snap, new>>
        /\ changes \subseteq changes' /\ pc[r] = "detect" /\ pc'[r] = "register"
        /\ \A q \in Run : q = r \/ pc'[q] = pc[q]
    BY <1>6 DEF Detect, history, Goto, RunsInv, TypeOK
  <2>2. Advances(r)
    BY <2>1 DEF Advances, HasSaved
  <2>3. index[r] \notin torn => Recorded(index[r], snap[r], new[r])'
    <3>1. \A i, l : \A e \in Day :
            (\A d \in Snapshots(i) : Consecutive(i, d, e) => Difference(i, d, e, l) \subseteq changes')
              => Recorded(i, e, l)'
      BY <2>1 DEF Recorded, Consecutive, Difference, Snapshots
    <3>2. snap[r] \in Day
      BY <2>1, DatedRun DEF RunsInv, Active
    <3>3. index[r] \notin torn =>
            \A d \in Snapshots(index[r]) : Consecutive(index[r], d, snap[r]) =>
              Difference(index[r], d, snap[r], new[r]) \subseteq changes'
      BY <1>6, DetectRecords
    <3> QED BY <2>1, <3>1, <3>2, <3>3
  <2> QED BY <1>0, <2>1, <2>2, <2>3, AdvanceStep
<1>7. ASSUME NEW r \in Run, Register(r) PROVE RunsInv'
  <2>1. /\ UNCHANGED <<today, snapshot, changes, lists, torn, index, prev, snap, new>>
        /\ stocks' = stocks \cup new[r] /\ pc[r] = "register" /\ pc'[r] = "log"
        /\ \A q \in Run : q = r \/ pc'[q] = pc[q]
    BY <1>7 DEF Register, history, Goto, RunsInv, TypeOK
  <2>2. Advances(r)
    BY <2>1 DEF Advances, HasSaved
  <2>3. index[r] \notin torn => Recorded(index[r], snap[r], new[r])'
    <3>1. \A i, l : \A e \in Day : Recorded(i, e, l) => Recorded(i, e, l)'
      BY <2>1, RecordedKept
    <3>2. snap[r] \in Day
      BY <2>1, DatedRun DEF RunsInv, Active
    <3>3. index[r] \notin torn => Recorded(index[r], snap[r], new[r])
      BY <2>1 DEF RunsInv, ChangesRecorded
    <3> QED BY <2>1, <3>1, <3>2, <3>3
  <2> QED BY <1>0, <2>1, <2>2, <2>3, AdvanceStep
<1>8. ASSUME NEW r \in Run, LogOk(r) \/ Fails(r) \/ Crash(r) PROVE RunsInv'
  <2>1. /\ UNCHANGED <<today, snapshot, changes, stocks, lists, torn>> /\ Leave(r)
    BY <1>8 DEF LogOk, Fails, Crash, tables, history
  <2>2. \A q \in Run : pc'[q] = "idle" \/ Same(q)
    BY <2>1, LeaveEffect DEF RunsInv
  <2> QED BY <1>0, <2>1, <2>2, QuietStep
<1>9. ASSUME NEW i \in Index, Purge(i) PROVE RunsInv'
  BY <1>0, <1>9, PurgeStep
<1>10. CASE UNCHANGED vars
  BY <1>0, <1>10, QuietStep DEF vars, tables, runVars, history, Same
<1> QED
  BY <1>1, <1>2, <1>3, <1>4, <1>5, <1>6, <1>7, <1>8, <1>9, <1>10, IndexAssumption DEF Next
-----------------------------------------------------------------------------
(***************************************************************************)
(* The tables.                                                             *)
(***************************************************************************)

(* A change that is one.                                                   *)
Sound(c) ==
  /\ c.prev = Never => c.type = "ADDED" /\ c.ticker \in snapshot[c.index][c.date]
  /\ c.prev # Never =>
       /\ Consecutive(c.index, c.prev, c.date)
       /\ \E l \in lists[c.index][c.date] : c \in Difference(c.index, c.prev, c.date, l)

LEMMA SoundAll ==
  /\ ChangesSound <=> \A c \in changes : c.index \notin torn => Sound(c)
  /\ ChangesSound' <=> \A c \in changes' : c.index \notin torn' => Sound(c)'
BY DEF ChangesSound, Sound

(* It stays one while the snapshots before its date do.                    *)
LEMMA SoundKept ==
  ASSUME NEW c \in Change, Sound(c),
         \A d \in Day : /\ snapshot[c.index][d] \subseteq snapshot'[c.index][d]
                       /\ lists[c.index][d] \subseteq lists'[c.index][d],
         c.date \in Snapshots(c.index) =>
           \A d \in Day : d < c.date => snapshot'[c.index][d] = snapshot[c.index][d]
  PROVE  Sound(c)'
<1>1. c.date \in Day /\ c.prev \in {Never} \cup Day
  BY DEF Change
<1>2. CASE c.prev = Never
  BY <1>1, <1>2 DEF Sound
<1>3. CASE c.prev # Never
  <2>1. /\ Consecutive(c.index, c.prev, c.date)
        /\ c.prev \in Day /\ c.prev < c.date /\ c.date \in Snapshots(c.index)
    BY <1>1, <1>3 DEF Sound, Consecutive
  <2>2. PICK l \in lists[c.index][c.date] : c \in Difference(c.index, c.prev, c.date, l)
    BY <1>3 DEF Sound
  <2>3. /\ snapshot[c.index][c.date] # {} /\ snapshot'[c.index][c.date] # {}
        /\ l \in lists'[c.index][c.date]
    BY <1>1, <2>1 DEF Snapshots
  <2>4. Consecutive(c.index, c.prev, c.date)'
    BY <1>1, <2>1, <2>3, SameBefore
  <2>5. Difference(c.index, c.prev, c.date, l)' = Difference(c.index, c.prev, c.date, l)
    BY <1>1, <2>1, <2>3, SameBefore
  <2>6. \E m \in lists'[c.index][c.date] : c \in Difference(c.index, c.prev, c.date, m)'
    BY <2>2, <2>3, <2>5
  <2> QED BY <1>3, <2>4, <2>6 DEF Sound
<1> QED BY <1>2, <1>3

(* Both kinds of index write a snapshot.                                   *)
LEMMA SaveWrites ==
  ASSUME TypeOK, NEW r \in Run, Save(r) \/ SaveOneTx(r)
  PROVE  Writes(r) /\ changes' = changes /\ entry' = entry /\ torn' = torn /\ overlaps' = overlaps
<1>1. CASE Save(r)
  BY <1>1 DEF Save, Writes, WriteSnapshot, Goto, Same, TypeOK
<1>2. CASE SaveOneTx(r)
  BY <1>2, LeaveEffect DEF SaveOneTx, Writes, WriteSnapshot
<1> QED BY <1>1, <1>2

LEMMA StepChanges ==
  ASSUME RunsInv, ChangesSound, [Next]_vars
  PROVE  ChangesSound'
<1>1. \A c \in changes : c.index \notin torn => Sound(c)
  BY SoundAll
<1>2. changes \subseteq Change /\ \A c \in Change : c.index \in Index /\ c.date \in Day
  BY DEF RunsInv, TypeOK, Change
<1>3. ASSUME snapshot' = snapshot, changes' = changes, lists' = lists, torn' = torn
      PROVE ChangesSound'
  BY <1>3 DEF ChangesSound, Consecutive, Difference, Snapshots
<1>4. ASSUME NEW r \in Run, Save(r) \/ SaveOneTx(r) PROVE ChangesSound'
  <2>1. Writes(r)
    BY <1>4, SaveWrites DEF RunsInv
  <2>2. ASSUME NEW c \in changes, c.index \notin torn PROVE Sound(c)'
    <3>1. Sound(c) /\ c \in Change /\ c.index \in Index /\ c.date \in Day
      BY <1>1, <1>2, <2>2
    <3>2. c.date \in Snapshots(c.index)
      BY <3>1 DEF Sound, Consecutive, Snapshots
    <3>3. /\ \A d \in Day : d < c.date => snapshot'[c.index][d] = snapshot[c.index][d]
          /\ \A d \in Day : /\ snapshot[c.index][d] \subseteq snapshot'[c.index][d]
                           /\ lists[c.index][d] \subseteq lists'[c.index][d]
      BY <2>1, <3>1, <3>2, EarlierKept
    <3> QED BY <3>1, <3>3, SoundKept
  <2>3. changes' = changes /\ torn' = torn
    BY <2>1 DEF Writes, WriteSnapshot
  <2> QED BY <2>2, <2>3, SoundAll
<1>5. ASSUME NEW r \in Run, Detect(r) PROVE ChangesSound'
  <2>1. /\ snapshot' = snapshot /\ lists' = lists /\ torn' = torn
        /\ changes \subseteq changes' /\ pc[r] = "detect"
    BY <1>5 DEF Detect, history
  <2>2. ASSUME NEW c \in changes, c.index \notin torn PROVE Sound(c)'
    BY <1>1, <1>2, <2>1, <2>2, SoundKept
  <2>3. ASSUME NEW c \in changes' \ changes, c.index \notin torn PROVE Sound(c)'
    <3>1. c.index = index[r] => index[r] \notin torn
      BY <2>3
    <3>2. CASE index[r] \notin torn
      <4>1. /\ c.index = index[r] /\ c.date = snap[r] /\ c.prev = prev[r]
            /\ prev[r] = Never => c.type = "ADDED" /\ c.ticker \in new[r]
            /\ prev[r] # Never => /\ Consecutive(index[r], prev[r], snap[r])
                                 /\ c \in Difference(index[r], prev[r], snap[r], new[r])
        BY <1>5, <2>3, <3>2, DetectRecords
      <4>2. /\ new[r] \in lists[index[r]][snap[r]]
            /\ new[r] \subseteq snapshot[index[r]][snap[r]]
        BY <2>1, <3>2, SavedSnapshot DEF HasSaved
      <4>3. Sound(c)
        BY <4>1, <4>2 DEF Sound
      <4> QED BY <2>1, <4>3 DEF Sound, Consecutive, Difference, Snapshots
    <3>3. CASE index[r] \in torn
      <4>1. c.index = index[r]
        BY <1>5, <2>3 DEF Detect, Changes
      <4> QED BY <2>3, <3>3, <4>1
    <3> QED BY <3>2, <3>3
  <2>4. \A c \in changes' : c.index \notin torn' => Sound(c)'
    BY <2>1, <2>2, <2>3
  <2> QED BY <2>4, SoundAll
<1>6. ASSUME NEW i \in Index, Purge(i) PROVE ChangesSound'
  <2>1. /\ \A k \in Index : k # i => /\ snapshot'[k] = snapshot[k] /\ lists'[k] = lists[k]
                                    /\ (k \in torn' <=> k \in torn)
        /\ changes' = {c \in changes : c.index # i}
    BY <1>6, PurgeEffect DEF RunsInv
  <2>2. ASSUME NEW c \in changes', c.index \notin torn' PROVE Sound(c)'
    <3>1. c \in changes /\ c.index # i /\ c.index \in Index /\ c \in Change
      BY <1>2, <2>1, <2>2
    <3>2. /\ Sound(c) /\ snapshot'[c.index] = snapshot[c.index]
          /\ lists'[c.index] = lists[c.index]
      BY <1>1, <2>1, <2>2, <3>1
    <3> QED BY <3>1, <3>2, SoundKept
  <2> QED BY <2>2, SoundAll
<1>7. ASSUME NEW r \in Run,
             \/ \E i \in Index : Start(r, i)
             \/ Fetch(r) \/ Register(r) \/ LogOk(r) \/ Fails(r) \/ Crash(r)
      PROVE ChangesSound'
  BY <1>3, <1>7 DEF Start, Begins, Fetch, Register, LogOk, Fails, Crash, tables, history
<1>8. CASE NextDay \/ UNCHANGED vars
  BY <1>3, <1>8 DEF NextDay, vars, tables, history
<1> QED BY <1>4, <1>5, <1>6, <1>7, <1>8, IndexAssumption DEF Next

(* The other tables have a list that an entry of index_sync_log speaks of. *)
WrittenFrom(i, e, l) == l \subseteq snapshot[i][e] \cap stocks /\ Recorded(i, e, l)

Written(i, e) == e \in Snapshots(i) /\ \E l \in lists[i][e] : WrittenFrom(i, e, l)

LEMMA WrittenAll ==
  /\ OkMeansWritten <=> \A i \in Index : i \notin torn /\ entry[i].status = "ok" =>
                          Written(i, entry[i].date)
  /\ OkMeansWritten' <=> \A i \in Index : i \notin torn' /\ entry'[i].status = "ok" =>
                           Written(i, entry[i].date)'
BY DEF OkMeansWritten, Written, WrittenFrom, Recorded

LEMMA WrittenKept ==
  ASSUME NEW i \in Index, NEW e, Written(i, e), changes \subseteq changes', stocks \subseteq stocks',
         \A d \in Day : d < e => snapshot'[i][d] = snapshot[i][d],
         \A d \in Day : snapshot[i][d] \subseteq snapshot'[i][d] /\ lists[i][d] \subseteq lists'[i][d]
  PROVE  Written(i, e)'
<1>1. PICK l \in lists[i][e] : WrittenFrom(i, e, l)
  BY DEF Written
<1>2. e \in Day /\ snapshot[i][e] # {} /\ snapshot'[i][e] # {}
  BY DEF Written, Snapshots
<1>3. Recorded(i, e, l)'
  BY <1>1, <1>2, RecordedKept DEF WrittenFrom
<1>4. l \in lists'[i][e] /\ l \subseteq snapshot'[i][e] \cap stocks'
  BY <1>1, <1>2 DEF WrittenFrom
<1>5. WrittenFrom(i, e, l)'
  BY <1>3, <1>4 DEF WrittenFrom
<1> QED BY <1>2, <1>4, <1>5 DEF Written, Snapshots

LEMMA StepOk ==
  ASSUME RunsInv, OkMeansWritten, [Next]_vars
  PROVE  OkMeansWritten'
<1>1. \A i \in Index : i \notin torn /\ entry[i].status = "ok" => Written(i, entry[i].date)
  BY WrittenAll
<1>2. ASSUME snapshot' = snapshot, lists' = lists, torn' = torn,
             changes \subseteq changes', stocks \subseteq stocks',
             \A i \in Index : entry'[i] = entry[i] \/ entry'[i].status # "ok"
      PROVE OkMeansWritten'
  <2>1. ASSUME NEW i \in Index, i \notin torn', entry'[i].status = "ok"
        PROVE  Written(i, entry[i].date)'
    <3>1. Written(i, entry[i].date) /\ entry'[i] = entry[i]
      BY <1>1, <1>2, <2>1
    <3>2. \A e : Written(i, e) => Written(i, e)'
      BY <1>2, WrittenKept
    <3> QED BY <3>1, <3>2
  <2> QED BY <2>1, WrittenAll
<1>3. ASSUME NEW r \in Run, Save(r) \/ SaveOneTx(r) PROVE OkMeansWritten'
  <2>1. Writes(r) /\ entry' = entry
    BY <1>3, SaveWrites DEF RunsInv
  <2>2. changes' = changes /\ stocks \subseteq stocks' /\ torn' = torn
    BY <2>1 DEF Writes, WriteSnapshot
  <2>3. ASSUME NEW i \in Index, i \notin torn', entry'[i].status = "ok"
        PROVE  Written(i, entry[i].date)'
    <3>1. Written(i, entry[i].date)
      BY <1>1, <2>1, <2>2, <2>3
    <3>2. entry[i].date \in Snapshots(i)
      BY <3>1 DEF Written
    <3>3. \A e \in Snapshots(i) :
            /\ \A d \in Day : d < e => snapshot'[i][d] = snapshot[i][d]
            /\ \A d \in Day : /\ snapshot[i][d] \subseteq snapshot'[i][d]
                             /\ lists[i][d] \subseteq lists'[i][d]
      BY <2>1, EarlierKept
    <3>4. \A e \in Snapshots(i) : Written(i, e) => Written(i, e)'
      BY <2>2, <3>3, WrittenKept
    <3> QED BY <2>1, <3>1, <3>2, <3>4
  <2> QED BY <2>3, WrittenAll
<1>4. ASSUME NEW r \in Run, LogOk(r) PROVE OkMeansWritten'
  <2>1. /\ UNCHANGED <<snapshot, changes, stocks, lists, torn>> /\ pc[r] = "log"
        /\ index[r] \in Index
        /\ entry'[index[r]].status = "ok" /\ entry'[index[r]].date = snap[r]
        /\ \A i \in Index : i # index[r] => entry'[i] = entry[i]
    BY <1>4 DEF LogOk, Log, RunsInv, TypeOK, history
  <2>2. ASSUME index[r] \notin torn PROVE Written(index[r], snap[r])
    <3>1. HasSaved(r)
      BY <2>1 DEF HasSaved
    <3>2. /\ new[r] \in lists[index[r]][snap[r]] /\ snap[r] \in Snapshots(index[r])
          /\ new[r] \subseteq snapshot[index[r]][snap[r]]
      BY <2>2, <3>1, SavedSnapshot
    <3>3. new[r] \subseteq stocks /\ Recorded(index[r], snap[r], new[r])
      BY <2>1, <2>2 DEF RunsInv, StocksRegistered, ChangesRecorded
    <3> QED BY <3>2, <3>3 DEF Written, WrittenFrom
  <2>3. ASSUME NEW i \in Index, i \notin torn', entry'[i].status = "ok"
        PROVE  Written(i, entry[i].date)'
    <3>1. Written(i, entry'[i].date)
      BY <1>1, <2>1, <2>2, <2>3
    <3>2. \A e : Written(i, e) => Written(i, e)'
      BY <2>1, WrittenKept
    <3> QED BY <3>1, <3>2
  <2> QED BY <2>3, WrittenAll
<1>5. ASSUME NEW i \in Index, Purge(i) PROVE OkMeansWritten'
  <2>1. /\ stocks' = stocks /\ entry'[i].status = "none"
        /\ \A k \in Index : k # i => /\ snapshot'[k] = snapshot[k] /\ lists'[k] = lists[k]
                                   /\ entry'[k] = entry[k] /\ (k \in torn' <=> k \in torn)
    BY <1>5, PurgeEffect DEF RunsInv
  <2>2. ASSUME NEW k \in Index, k \notin torn', entry'[k].status = "ok"
        PROVE  Written(k, entry[k].date)'
    <3>1. /\ k # i /\ Written(k, entry[k].date) /\ entry'[k] = entry[k]
          /\ snapshot'[k] = snapshot[k] /\ lists'[k] = lists[k]
      BY <1>1, <2>1, <2>2
    <3>2. \A e \in Day : \A l : Recorded(k, e, l) => Recorded(k, e, l)'
      BY <1>5, <3>1, OthersRecorded DEF RunsInv
    <3>3. ASSUME NEW e, Written(k, e) PROVE Written(k, e)'
      <4>1. PICK l \in lists[k][e] : WrittenFrom(k, e, l)
        BY <3>3 DEF Written
      <4>2. e \in Day
        BY <3>3 DEF Written, Snapshots
      <4>3. WrittenFrom(k, e, l)'
        BY <2>1, <3>1, <3>2, <4>1, <4>2 DEF WrittenFrom
      <4> QED BY <3>1, <3>3, <4>1, <4>3 DEF Written, Snapshots
    <3> QED BY <3>1, <3>3
  <2> QED BY <2>2, WrittenAll
<1>6. ASSUME NEW r \in Run,
             \/ \E i \in Index : Start(r, i)
             \/ Fetch(r) \/ Detect(r) \/ Register(r) \/ Crash(r)
      PROVE OkMeansWritten'
  <2>1. /\ snapshot' = snapshot /\ changes \subseteq changes' /\ stocks \subseteq stocks'
        /\ lists' = lists /\ torn' = torn /\ entry' = entry
    BY <1>6 DEF Start, Begins, Fetch, Detect, Register, Crash, tables, history
  <2> QED BY <1>2, <2>1
<1>7. ASSUME NEW r \in Run, Fails(r) PROVE OkMeansWritten'
  <2>1. entry' = entry \/ entry' = [entry EXCEPT ![index[r]] = [date |-> today, status |-> "error"]]
    BY <1>7 DEF Fails, Log
  <2>2. \A i \in Index : entry'[i] = entry[i] \/ entry'[i].status # "ok"
    BY <2>1 DEF RunsInv, TypeOK
  <2> QED BY <1>2, <1>7, <2>2 DEF Fails, history
<1>8. CASE NextDay \/ UNCHANGED vars
  BY <1>2, <1>8 DEF NextDay, vars, tables, history
<1> QED BY <1>3, <1>4, <1>5, <1>6, <1>7, <1>8, IndexAssumption DEF Next

LEMMA StepOneTx ==
  ASSUME RunsInv, OneTxRegistered, [Next]_vars
  PROVE  OneTxRegistered'
<1>1. ASSUME NEW r \in Run, Save(r) PROVE OneTxRegistered'
  <2>1. \A i \in OneTx : snapshot'[i] = snapshot[i]
    BY <1>1, IndexAssumption DEF Save, WriteSnapshot, RunsInv, TypeOK
  <2> QED BY <1>1, <2>1 DEF Save, OneTxRegistered
<1>2. ASSUME NEW r \in Run, SaveOneTx(r) PROVE OneTxRegistered'
  <2>1. Writes(r) /\ stocks' = stocks \cup new[r]
    BY <1>2, LeaveEffect DEF SaveOneTx, Writes, RunsInv
  <2>2. \A i \in Index, d \in Day :
          snapshot'[i][d] = IF i = index[r] /\ d = snap[r]
                            THEN snapshot[i][d] \cup new[r] ELSE snapshot[i][d]
    BY <2>1, WrittenSnapshot
  <2>3. \A i \in OneTx, d \in Day : snapshot[i][d] \subseteq stocks
    BY DEF OneTxRegistered
  <2>4. \A i \in OneTx, d \in Day : snapshot'[i][d] \subseteq stocks \cup new[r]
    BY <2>2, <2>3, IndexAssumption
  <2> QED BY <2>1, <2>4 DEF OneTxRegistered
<1>3. ASSUME NEW i \in Index, Purge(i) PROVE OneTxRegistered'
  <2>1. /\ stocks' = stocks /\ \A d \in Day : snapshot'[i][d] = {}
        /\ \A k \in Index : k # i => snapshot'[k] = snapshot[k]
    BY <1>3, PurgeEffect DEF RunsInv
  <2>2. ASSUME NEW k \in OneTx, NEW d \in Day PROVE snapshot'[k][d] \subseteq stocks
    <3>1. CASE k = i
      BY <2>1, <3>1
    <3>2. CASE k # i
      BY <2>1, <3>2, IndexAssumption DEF OneTxRegistered
    <3> QED BY <3>1, <3>2
  <2> QED BY <2>1, <2>2 DEF OneTxRegistered
<1>4. ASSUME NEW r \in Run,
             \/ \E i \in Index : Start(r, i)
             \/ Fetch(r) \/ Detect(r) \/ Register(r) \/ LogOk(r) \/ Fails(r) \/ Crash(r)
      PROVE OneTxRegistered'
  <2>1. snapshot' = snapshot /\ stocks \subseteq stocks'
    BY <1>4 DEF Start, Begins, Fetch, Detect, Register, LogOk, Fails, Crash, tables
  <2> QED BY <2>1 DEF OneTxRegistered
<1>5. CASE NextDay \/ UNCHANGED vars
  BY <1>5 DEF NextDay, vars, tables, OneTxRegistered
<1> QED BY <1>1, <1>2, <1>3, <1>4, <1>5, IndexAssumption DEF Next
-----------------------------------------------------------------------------
LEMMA InitRuns ==
  ASSUME Init
  PROVE  RunsInv
<1>1. /\ 1 \in Day /\ \A r \in Run : pc[r] = "idle"
      /\ \A i \in Index, d \in Day : snapshot[i][d] = {} /\ lists[i][d] = {}
  BY DayAssumption DEF Init, Day
<1>2. AnIndex \in Index
  BY IndexAssumption DEF AnIndex
<1>3. lists \in [Index -> [Day -> SUBSET SUBSET Ticker]]
  BY DEF Init
<1> QED
  BY <1>1, <1>2, <1>3 DEF Init, RunsInv, TypeOK, RunDates, SnapshotDates, ListsOfSnapshot,
     SnapshotSaved, PrevIsLast, ChangesRecorded, StocksRegistered, Active, HasList, HasSaved
-----------------------------------------------------------------------------
(***************************************************************************)
(* Overlapping runs.                                                       *)
(***************************************************************************)

(* A run that has not saved yet.                                           *)
Early(r) == pc[r] \in {"fetch", "save"}

(* Two runs of an index at a time are marked; so is one that finds the     *)
(* snapshot of its day written while it is under way; and a snapshot that  *)
(* is not marked was written from one list.                                *)
OverlapInv ==
  /\ \A r, q \in Run : Active(r) /\ Active(q) /\ r # q /\ index[r] = index[q] =>
       <<index[r], snap[r]>> \in overlaps
  /\ \A r \in Run : Early(r) /\ lists[index[r]][snap[r]] # {} =>
       <<index[r], snap[r]>> \in overlaps
  /\ \A i \in Index : \A d \in Day : <<i, d>> \notin overlaps =>
       \A l, m \in lists[i][d] : l = m

LEMMA InitOverlaps ==
  ASSUME Init
  PROVE  OverlapInv
BY DEF Init, OverlapInv, Active, Early

(* Where no run starts and none writes a snapshot, nothing is to mark.     *)
LEMMA OverlapsKept ==
  ASSUME RunsInv, OverlapInv, overlaps' = overlaps,
         \A i \in Index : \A d \in Day : lists'[i][d] \subseteq lists[i][d],
         \A r \in Run : \/ pc'[r] = "idle"
                        \/ /\ Active(r) /\ index'[r] = index[r] /\ snap'[r] = snap[r]
                           /\ Early(r)' => Early(r)
  PROVE  OverlapInv'
<1>1. \A r \in Run : Active(r) => index[r] \in Index /\ snap[r] \in Day
  BY DatedRun, Typed DEF RunsInv
<1>2. \A r \in Run : Active(r)' => Active(r) /\ index'[r] = index[r] /\ snap'[r] = snap[r]
  BY DEF Active
<1>3. \A r \in Run : Early(r)' => Early(r) /\ Active(r)'
  BY DEF Active, Early
<1>4. ASSUME NEW r \in Run, NEW q \in Run, Active(r)', Active(q)', r # q, index'[r] = index'[q]
      PROVE  <<index'[r], snap'[r]>> \in overlaps'
  BY <1>2, <1>4 DEF OverlapInv
<1>5. ASSUME NEW r \in Run, Early(r)', lists'[index'[r]][snap'[r]] # {}
      PROVE  <<index'[r], snap'[r]>> \in overlaps'
  <2>1. /\ Early(r) /\ Active(r) /\ index'[r] = index[r] /\ snap'[r] = snap[r]
        /\ index[r] \in Index /\ snap[r] \in Day
    BY <1>1, <1>2, <1>3, <1>5
  <2>2. lists[index[r]][snap[r]] # {}
    BY <1>5, <2>1
  <2> QED BY <2>1, <2>2 DEF OverlapInv
<1>6. ASSUME NEW i \in Index, NEW d \in Day, <<i, d>> \notin overlaps'
      PROVE  \A l, m \in lists'[i][d] : l = m
  BY <1>6 DEF OverlapInv
<1> QED BY <1>4, <1>5, <1>6 DEF OverlapInv

(* A run that starts beside another one of its index is marked with it;    *)
(* one that is alone finds no snapshot of the day.                         *)
LEMMA StartOverlaps ==
  ASSUME RunsInv, OverlapInv, NEW r \in Run, NEW i \in Index, Start(r, i)
  PROVE  OverlapInv'
<1>1. /\ today' = today /\ lists' = lists /\ overlaps \subseteq overlaps'
      /\ \A q \in Run : q = r \/ Same(q)
      /\ \A q \in Run : Active(q) => snap[q] = today
      /\ pc[r] = "idle" /\ index'[r] = i /\ snap'[r] = today /\ LastSnapshot(i) # today
      /\ (\E q \in Run : Active(q) /\ index[q] = i) => <<i, today>> \in overlaps'
  BY StartEffect DEF RunsInv
<1>2. lists[i][today] = {}
  <2>1. today \notin Snapshots(i)
    <3>1. /\ LastSnapshot(i) \in {Never} \cup Snapshots(i) /\ LastSnapshot(i) \in Nat
          /\ \A d \in Snapshots(i) : d <= LastSnapshot(i)
          /\ today \in Nat /\ today > 0
      BY LastIs, Typed DEF RunsInv, Never
    <3>2. LastSnapshot(i) \in Snapshots(i) => LastSnapshot(i) <= today
      BY <3>1, Typed DEF RunsInv, SnapshotDates, Snapshots
    <3> QED BY <1>1, <3>1, <3>2 DEF Never
  <2>2. /\ today \in Day /\ {} \notin lists[i][today]
        /\ snapshot[i][today] = UNION lists[i][today]
    BY Typed DEF RunsInv, ListsOfSnapshot
  <2>3. snapshot[i][today] = {}
    BY <2>1, <2>2 DEF Snapshots
  <2> QED BY <2>2, <2>3
<1>3. \A q \in Run : q # r /\ Active(q)' =>
        Active(q) /\ index'[q] = index[q] /\ snap'[q] = snap[q] /\ snap[q] = today
  BY <1>1 DEF Active, Same
<1>4. ASSUME NEW p \in Run, NEW q \in Run, Active(p)', Active(q)', p # q, index'[p] = index'[q]
      PROVE  <<index'[p], snap'[p]>> \in overlaps'
  <2>1. CASE p = r \/ q = r
    BY <1>1, <1>3, <1>4, <2>1
  <2>2. CASE p # r /\ q # r
    <3>1. /\ Active(p) /\ Active(q) /\ index[p] = index[q]
          /\ index'[p] = index[p] /\ snap'[p] = snap[p]
      BY <1>3, <1>4, <2>2
    <3> QED BY <1>1, <1>4, <3>1 DEF OverlapInv
  <2> QED BY <2>1, <2>2
<1>5. ASSUME NEW q \in Run, Early(q)', lists'[index'[q]][snap'[q]] # {}
      PROVE  <<index'[q], snap'[q]>> \in overlaps'
  <2>1. q # r
    BY <1>1, <1>2, <1>5
  <2>2. Same(q) /\ Early(q)
    BY <1>1, <1>5, <2>1 DEF Same, Early
  <2> QED BY <1>1, <1>5, <2>2 DEF OverlapInv, Same
<1>6. \A k \in Index : \A d \in Day : <<k, d>> \notin overlaps' =>
        \A l, m \in lists'[k][d] : l = m
  BY <1>1 DEF OverlapInv
<1> QED BY <1>4, <1>5, <1>6 DEF OverlapInv

(* A second list is added to a snapshot only where runs overlap.           *)
LEMMA WriteOverlaps ==
  ASSUME RunsInv, OverlapInv, NEW r \in Run, Writes(r), overlaps' = overlaps
  PROVE  OverlapInv'
<1>1. /\ pc[r] = "save" /\ Active(r) /\ Early(r)
      /\ \A q \in Run : q = r \/ Same(q)
      /\ ~ Early(r)' /\ (Active(r)' => index'[r] = index[r] /\ snap'[r] = snap[r])
  BY DEF Writes, Active, Early
<1>2. \A k \in Index, d \in Day : lists'[k][d] =
        IF k = index[r] /\ d = snap[r] THEN lists[k][d] \cup {new[r]} ELSE lists[k][d]
  BY WrittenSnapshot
<1>3. \A q \in Run : Active(q) => index[q] \in Index /\ snap[q] \in Day /\ snap[q] = snap[r]
  <2>1. \A q \in Run : Active(q) => snap[q] = snap[r]
    BY <1>1 DEF RunsInv, RunDates
  <2> QED BY <2>1, DatedRun, Typed DEF RunsInv
<1>4. \A q \in Run : Active(q)' => Active(q) /\ index'[q] = index[q] /\ snap'[q] = snap[q]
  BY <1>1 DEF Active, Same
<1>5. ASSUME NEW p \in Run, NEW q \in Run, Active(p)', Active(q)', p # q, index'[p] = index'[q]
      PROVE  <<index'[p], snap'[p]>> \in overlaps'
  <2>1. /\ Active(p) /\ Active(q) /\ index[p] = index[q]
        /\ index'[p] = index[p] /\ snap'[p] = snap[p]
    BY <1>4, <1>5
  <2> QED BY <1>5, <2>1 DEF OverlapInv
<1>6. ASSUME NEW q \in Run, Early(q)', lists'[index'[q]][snap'[q]] # {}
      PROVE  <<index'[q], snap'[q]>> \in overlaps'
  <2>1. q # r /\ Early(q) /\ Active(q) /\ index'[q] = index[q] /\ snap'[q] = snap[q]
    BY <1>1, <1>6 DEF Early, Active, Same
  <2>2. CASE index[q] = index[r]
    BY <1>1, <2>1, <2>2 DEF OverlapInv
  <2>3. CASE index[q] # index[r]
    <3>1. lists'[index[q]][snap[q]] = lists[index[q]][snap[q]]
      BY <1>2, <1>3, <2>1, <2>3
    <3> QED BY <1>6, <2>1, <3>1 DEF OverlapInv
  <2> QED BY <2>2, <2>3
<1>7. ASSUME NEW k \in Index, NEW d \in Day, <<k, d>> \notin overlaps'
      PROVE  \A l, m \in lists'[k][d] : l = m
  <2>1. CASE k = index[r] /\ d = snap[r]
    <3>1. lists[k][d] = {}
      BY <1>1, <1>7, <2>1 DEF OverlapInv
    <3>2. lists'[k][d] = {new[r]}
      BY <1>2, <2>1, <3>1
    <3> QED BY <3>2
  <2>2. CASE ~ (k = index[r] /\ d = snap[r])
    <3>1. lists'[k][d] = lists[k][d]
      BY <1>2, <2>2
    <3> QED BY <1>7, <3>1 DEF OverlapInv
  <2> QED BY <2>1, <2>2
<1> QED BY <1>5, <1>6, <1>7 DEF OverlapInv

LEMMA StepOverlaps ==
  ASSUME RunsInv, OverlapInv, [Next]_vars
  PROVE  OverlapInv'
<1>1. ASSUME NEW r \in Run, NEW i \in Index, Start(r, i) PROVE OverlapInv'
  BY <1>1, StartOverlaps
<1>2. ASSUME NEW r \in Run, Save(r) \/ SaveOneTx(r) PROVE OverlapInv'
  <2>1. Writes(r) /\ overlaps' = overlaps
    BY <1>2, SaveWrites DEF RunsInv
  <2> QED BY <2>1, WriteOverlaps
<1>3. ASSUME NEW r \in Run, Fetch(r) PROVE OverlapInv'
  <2>1. /\ lists' = lists /\ overlaps' = overlaps /\ pc[r] = "fetch" /\ pc'[r] = "save"
        /\ index' = index /\ \A q \in Run : q = r \/ Same(q)
    BY <1>3 DEF Fetch, history, Goto, Same, RunsInv, TypeOK
  <2>2. snap'[r] = snap[r]
    <3>1. snap[r] = today
      BY <2>1 DEF RunsInv, RunDates, Active
    <3> QED BY <1>3, <3>1 DEF Fetch, RunsInv, TypeOK
  <2>3. \A q \in Run : \/ pc'[q] = "idle"
                        \/ /\ Active(q) /\ index'[q] = index[q] /\ snap'[q] = snap[q]
                           /\ Early(q)' => Early(q)
    BY <2>1, <2>2 DEF Active, Early, Same
  <2> QED BY <2>1, <2>3, OverlapsKept
<1>4. ASSUME NEW r \in Run, Detect(r) \/ Register(r) PROVE OverlapInv'
  <2>1. /\ lists' = lists /\ overlaps' = overlaps /\ index' = index /\ snap' = snap
        /\ Active(r) /\ ~ Early(r)' /\ \A q \in Run : q = r \/ pc'[q] = pc[q]
    BY <1>4 DEF Detect, Register, history, Goto, Active, Early, RunsInv, TypeOK
  <2>2. \A q \in Run : \/ pc'[q] = "idle"
                        \/ /\ Active(q) /\ index'[q] = index[q] /\ snap'[q] = snap[q]
                           /\ Early(q)' => Early(q)
    BY <2>1 DEF Active, Early
  <2> QED BY <2>1, <2>2, OverlapsKept
<1>5. ASSUME NEW r \in Run, LogOk(r) \/ Fails(r) \/ Crash(r) PROVE OverlapInv'
  <2>1. lists' = lists /\ overlaps' = overlaps /\ Leave(r)
    BY <1>5 DEF LogOk, Fails, Crash, history
  <2>2. \A q \in Run : \/ pc'[q] = "idle"
                        \/ /\ Active(q) /\ index'[q] = index[q] /\ snap'[q] = snap[q]
                           /\ Early(q)' => Early(q)
    BY <2>1, LeaveEffect DEF RunsInv, Active, Early, Same
  <2> QED BY <2>1, <2>2, OverlapsKept
<1>6. ASSUME NEW i \in Index, Purge(i) PROVE OverlapInv'
  <2>1. /\ overlaps' = overlaps /\ pc' = pc /\ index' = index /\ snap' = snap
        /\ \A d \in Day : lists'[i][d] = {}
        /\ \A k \in Index : k # i => lists'[k] = lists[k]
    BY <1>6, PurgeEffect DEF RunsInv
  <2>2. \A k \in Index : \A d \in Day : lists'[k][d] \subseteq lists[k][d]
    BY <2>1
  <2>3. \A q \in Run : \/ pc'[q] = "idle"
                        \/ /\ Active(q) /\ index'[q] = index[q] /\ snap'[q] = snap[q]
                           /\ Early(q)' => Early(q)
    BY <2>1 DEF Active, Early
  <2> QED BY <2>1, <2>2, <2>3, OverlapsKept
<1>7. CASE NextDay \/ UNCHANGED vars
  <2>1. /\ overlaps' = overlaps /\ pc' = pc /\ index' = index /\ snap' = snap /\ lists' = lists
    BY <1>7 DEF NextDay, vars, runVars, history
  <2>2. \A q \in Run : \/ pc'[q] = "idle"
                        \/ /\ Active(q) /\ index'[q] = index[q] /\ snap'[q] = snap[q]
                           /\ Early(q)' => Early(q)
    BY <2>1 DEF Active, Early
  <2> QED BY <2>1, <2>2, OverlapsKept
<1> QED BY <1>1, <1>2, <1>3, <1>4, <1>5, <1>6, <1>7, IndexAssumption DEF Next
-----------------------------------------------------------------------------
(* The invariant of the runs: types; whatever overlaps, fails, crashes, is *)
(* purged or goes past midnight, what a run has saved is there, and no     *)
(* snapshot lies between the last one it has read and its own.             *)
THEOREM RunsConsistent == Spec => []RunsInv
<1>1. Init => RunsInv
  BY InitRuns
<1>2. RunsInv /\ [Next]_vars => RunsInv'
  BY StepRuns
<1> QED BY <1>1, <1>2, PTL DEF Spec

(* Every recorded change is one between two consecutive snapshots, or the  *)
(* arrival of a ticker of a first one, unless the index was purged in the  *)
(* middle of a run.                                                        *)
THEOREM ChangesAreSound == Spec => []ChangesSound
<1>1. Init => ChangesSound
  BY DEF Init, ChangesSound
<1>2. RunsInv /\ ChangesSound /\ [Next]_vars => ChangesSound'
  BY StepChanges
<1> QED BY <1>1, <1>2, RunsConsistent, PTL DEF Spec

(* Every snapshot is one list of the source as a whole, or, where runs of  *)
(* an index overlapped that day, the union of the lists they fetched.      *)
THEOREM UniverseIsWhole == Spec => []UniverseWhole
<1>1. Init => RunsInv /\ OverlapInv
  BY InitRuns, InitOverlaps
<1>2. RunsInv /\ OverlapInv /\ [Next]_vars => RunsInv' /\ OverlapInv'
  BY StepRuns, StepOverlaps
<1>3. RunsInv /\ OverlapInv => UniverseWhole
  BY DEF RunsInv, OverlapInv, ListsOfSnapshot, UniverseWhole
<1> QED BY <1>1, <1>2, <1>3, PTL DEF Spec

(* An index whose last entry is ok has its snapshot, stocks and changes.   *)
THEOREM OkIsWritten == Spec => []OkMeansWritten
<1>1. Init => OkMeansWritten
  BY DEF Init, OkMeansWritten
<1>2. RunsInv /\ OkMeansWritten /\ [Next]_vars => OkMeansWritten'
  BY StepOk
<1> QED BY <1>1, <1>2, RunsConsistent, PTL DEF Spec

(* Every constituent of RUSSELL1000 is a registered stock.                 *)
THEOREM OneTxAlwaysRegistered == Spec => []OneTxRegistered
<1>1. Init => OneTxRegistered
  BY IndexAssumption DEF Init, OneTxRegistered
<1>2. RunsInv /\ OneTxRegistered /\ [Next]_vars => OneTxRegistered'
  BY StepOneTx
<1> QED BY <1>1, <1>2, RunsConsistent, PTL DEF Spec
=============================================================================
