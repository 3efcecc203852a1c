---------------------------- MODULE IndexSnapshot ----------------------------
(***************************************************************************)
(* The constituents of the indices (modules/index_base.py, apis/static).   *)
(* A run of an updater reads the date of the last snapshot, stops if that  *)
(* is today, fetches the list, and then writes it, the changes against the *)
(* previous snapshot, the stocks and its entry of index_sync_log, each in  *)
(* a transaction of its own (SP500, HSI) or the snapshot and the stocks in *)
(* one (RUSSELL1000, which records no changes).  Runs of several commands  *)
(* may overlap within a day; one that is alone, and has its list, may go   *)
(* on past midnight; they fail and crash at any point.                     *)
(***************************************************************************)
EXTENDS Naturals, FiniteSets, FiniteSetsExt

CONSTANTS
  Run,          \* the commands that may run at one time
  Index,
  OneTx,        \* the indices written in one transaction (RUSSELL1000)
  Purged,       \* those that purge_index is given for
  Ticker,
  Listed,       \* index -> the lists that its source may answer with
  MaxOverlaps,  \* bound: the days on which runs of an index overlap
  LastDay       \* bound: the last day

ASSUME IndexAssumption == Index # {} /\ OneTx \subseteq Index /\ Purged \subseteq Index
ASSUME ListAssumption  == Listed \in [Index -> SUBSET ((SUBSET Ticker) \ {{}})]
ASSUME DayAssumption   == LastDay \in Nat \ {0}

VARIABLES
  today,
  snapshot,     \* index_constituents: index -> day -> tickers
  changes,      \* constituent_changes
  stocks,       \* stocks
  entry,        \* index_sync_log
  pc, index,    \* of a run: where it is, and its index,
  prev, snap,   \* the last snapshot's date and that of its own,
  new,          \* and the list it has fetched
  lists,        \* the lists that a snapshot was written from,
  overlaps,     \* the <<index, day>> of runs at the same time, and
  torn          \* the indices purged in the middle of a run (history)

history == <<lists, overlaps, torn>>
tables  == <<snapshot, changes, stocks, entry>>
runVars == <<pc, index, prev, snap, new>>
vars    == <<today, tables, runVars, history>>

Day   == 1..LastDay
Never == 0

Change == [index : Index, ticker : Ticker, type : {"ADDED", "REMOVED"},
           date : Day, prev : {Never} \cup Day]

TypeOK ==
  /\ today    \in Day
  /\ snapshot \in [Index -> [Day -> SUBSET Ticker]]
  /\ changes  \subseteq Change
  /\ stocks   \subseteq Ticker
  /\ entry    \in [Index -> [date : {Never} \cup Day, status : {"none", "ok", "error"}]]
  /\ pc       \in [Run -> {"idle", "fetch", "save", "detect", "register", "log"}]
  /\ index    \in [Run -> Index]
  /\ {prev, snap} \subseteq [Run -> {Never} \cup Day]
  /\ new      \in [Run -> SUBSET Ticker]
  /\ lists    \in [Index -> [Day -> SUBSET SUBSET Ticker]]
  /\ overlaps \subseteq Index \X Day
  /\ torn     \subseteq Index

(* What index is before the first run of a command and after the last one. *)
AnIndex == CHOOSE i \in Index : TRUE

Init ==
  /\ today = 1
  /\ snapshot = [i \in Index |-> [d \in Day |-> {}]]
  /\ changes = {} /\ stocks = {}
  /\ entry = [i \in Index |-> [date |-> Never, status |-> "none"]]
  /\ pc = [r \in Run |-> "idle"]
  /\ index = [r \in Run |-> AnIndex]
  /\ prev = [r \in Run |-> Never] /\ snap = prev /\ new = [r \in Run |-> {}]
  /\ lists = snapshot /\ overlaps = {} /\ torn = {}

(* The next day.  Scope: the runs of a day end on it, but the last one may *)
(* write what it has fetched after midnight.                               *)
NextDay ==
  /\ today < LastDay
  /\ \A r \in Run : pc[r] # "fetch"
  /\ \A r, q \in Run : pc[r] # "idle" /\ pc[q] # "idle" => r = q
  /\ today' = today + 1
  /\ UNCHANGED <<tables, runVars, history>>
-----------------------------------------------------------------------------
Goto(r, place) == pc' = [pc EXCEPT ![r] = place]

(* The end of a run; what it knew is forgotten.                            *)
Leave(r) ==
  /\ Goto(r, "idle")
  /\ prev' = [prev EXCEPT ![r] = Never] /\ snap' = [snap EXCEPT ![r] = Never]
  /\ new' = [new EXCEPT ![r] = {}]
  /\ index' = [index EXCEPT ![r] = AnIndex]

Snapshots(i) == {d \in Day : snapshot[i][d] # {}}

(* get_last_snapshot_date: MAX(snapshot_date).                             *)
LastSnapshot(i) == Max(Snapshots(i) \cup {Never})

(* upsert_index_log.                                                       *)
Log(i, date, status) == entry' = [entry EXCEPT ![i] = [date |-> date, status |-> status]]

(* A run that goes on, and whether another one of the index is under way.  *)
(* RUSSELL1000 dates its snapshot now.  Scope: no run starts while one     *)
(* that dates its work with an earlier day is still writing.               *)
Begins(r, i) ==
  /\ \A q \in Run : pc[q] # "idle" => snap[q] = today
  /\ index' = [index EXCEPT ![r] = i]
  /\ prev' = [prev EXCEPT ![r] = LastSnapshot(i)]
  /\ snap' = [snap EXCEPT ![r] = today]
  /\ Goto(r, "fetch")
  /\ overlaps' = IF \E q \in Run : pc[q] # "idle" /\ index[q] = i
                 THEN overlaps \cup {<<i, today>>} ELSE overlaps
  /\ Cardinality(overlaps') <= MaxOverlaps
  /\ UNCHANGED <<today, tables, new, lists, torn>>

\* Mutation of Start: a snapshot of today does not end the run.
MutStart(r, i) == pc[r] = "idle" /\ Begins(r, i)

(* The last snapshot's date is read; a snapshot of today ends the run.     *)
Start(r, i) == pc[r] = "idle" /\ LastSnapshot(i) # today /\ Begins(r, i)

(* A list is downloaded, from whichever of the source's addresses answers, *)
(* and may be another one each time.  The others date their snapshot when  *)
(* they have it, once for all the tables.                                  *)
Fetch(r) ==
  /\ pc[r] = "fetch"
  /\ \E l \in Listed[index[r]] : new' = [new EXCEPT ![r] = l]
  /\ snap' = [snap EXCEPT ![r] = IF index[r] \in OneTx THEN @ ELSE today]
  /\ Goto(r, "save")
  /\ UNCHANGED <<today, tables, index, prev, history>>

(* An exception, or an empty answer: the run is logged as an error, unless *)
(* it is one of RUSSELL1000, and ends.  The transaction is rolled back.    *)
Fails(r) ==
  /\ pc[r] # "idle"
  /\ IF index[r] \in OneTx THEN UNCHANGED entry ELSE Log(index[r], today, "error")
  /\ Leave(r)
  /\ UNCHANGED <<today, snapshot, changes, stocks, history>>

(* The process is killed.                                                  *)
Crash(r) ==
  /\ pc[r] # "idle" /\ Leave(r)
  /\ UNCHANGED <<today, tables, history>>

(* INSERT IGNORE of the list with the run's date: what is there stays.     *)
WriteSnapshot(r) ==
  /\ snapshot' = [snapshot EXCEPT ![index[r]][snap[r]] = @ \cup new[r]]
  /\ lists' = [lists EXCEPT ![index[r]][snap[r]] = @ \cup {new[r]}]
  /\ UNCHANGED <<today, changes, entry, overlaps, torn>>

(* save_snapshot, and commit.                                              *)
Save(r) ==
  /\ pc[r] = "save" /\ index[r] \notin OneTx
  /\ WriteSnapshot(r)
  /\ Goto(r, "detect")
  /\ UNCHANGED <<stocks, index, prev, snap, new>>

\* Mutation of SaveOneTx: the snapshot is committed before the stocks.
MutSaveOneTx(r) ==
  /\ pc[r] = "save" /\ index[r] \in OneTx
  /\ WriteSnapshot(r)
  /\ Goto(r, "register")
  /\ UNCHANGED <<stocks, index, prev, snap, new>>

(* update_russell1000: the snapshot waits for the commit of                *)
(* register_stocks.                                                        *)
SaveOneTx(r) ==
  /\ pc[r] = "save" /\ index[r] \in OneTx
  /\ WriteSnapshot(r)
  /\ stocks' = stocks \cup new[r]
  /\ Leave(r)

(* The changes of a run's list against the tickers before.                 *)
Changes(r, before, type, tickers) ==
  {[index |-> index[r], ticker |-> t, type |-> type, date |-> snap[r], prev |-> before]
     : t \in tickers}

\* Mutation of Detect: compared with the snapshot that is the last one now.
MutDetect(r) ==
  /\ pc[r] = "detect"
  /\ LET last   == LastSnapshot(index[r])
         before == IF last = Never THEN {} ELSE snapshot[index[r]][last]
     IN  changes' = changes
           \cup Changes(r, prev[r], "ADDED", new[r] \ before)
           \cup Changes(r, prev[r], "REMOVED", before \ new[r])
  /\ Goto(r, "register")
  /\ UNCHANGED <<today, snapshot, stocks, entry, index, prev, snap, new, history>>

\* Mutation of Detect: an empty previous snapshot is one like others.
MutDetectPurged(r) ==
  /\ pc[r] = "detect"
  /\ LET before == IF prev[r] = Never THEN {} ELSE snapshot[index[r]][prev[r]]
     IN  changes' = changes
           \cup Changes(r, prev[r], "ADDED", new[r] \ before)
           \cup Changes(r, prev[r], "REMOVED", before \ new[r])
  /\ Goto(r, "register")
  /\ UNCHANGED <<today, snapshot, stocks, entry, index, prev, snap, new, history>>

(* detect_and_record_changes: against the snapshot of prev; with no        *)
(* snapshot before, everything is ADDED.                                   *)
Detect(r) ==
  /\ pc[r] = "detect"
  /\ LET before == IF prev[r] = Never THEN {} ELSE snapshot[index[r]][prev[r]]
     IN  changes' = IF prev[r] # Never /\ before = {} THEN changes
                    ELSE changes
                      \cup Changes(r, prev[r], "ADDED", new[r] \ before)
                      \cup Changes(r, prev[r], "REMOVED", before \ new[r])
  /\ Goto(r, "register")
  /\ UNCHANGED <<today, snapshot, stocks, entry, index, prev, snap, new, history>>

(* register_stocks.                                                        *)
Register(r) ==
  /\ pc[r] = "register"
  /\ stocks' = stocks \cup new[r]
  /\ Goto(r, "log")
  /\ UNCHANGED <<today, snapshot, changes, entry, index, prev, snap, new, history>>

LogOk(r) ==
  /\ pc[r] = "log"
  /\ Log(index[r], snap[r], "ok")
  /\ Leave(r)
  /\ UNCHANGED <<today, snapshot, changes, stocks, history>>

(* A run of the index is between its transactions.                         *)
Writing(i) == \E r \in Run : index[r] = i /\ pc[r] \in {"detect", "register", "log"}

(* purge_index, at any time: the rows of all tables, in one transaction.   *)
Purge(i) ==
  /\ Snapshots(i) # {}
  /\ snapshot' = [snapshot EXCEPT ![i] = [d \in Day |-> {}]]
  /\ changes' = {c \in changes : c.index # i}
  /\ entry' = [entry EXCEPT ![i] = [date |-> Never, status |-> "none"]]
  /\ lists' = [lists EXCEPT ![i] = [d \in Day |-> {}]]
  /\ torn' = IF Writing(i) THEN torn \cup {i} ELSE torn \ {i}
  /\ UNCHANGED <<today, stocks, runVars, overlaps>>

Next ==
  \/ NextDay
  \/ \E r \in Run :
       \/ \E i \in Index : Start(r, i)
       \/ Fetch(r) \/ Save(r) \/ SaveOneTx(r) \/ Detect(r) \/ Register(r) \/ LogOk(r)
       \/ Fails(r) \/ Crash(r)
  \/ \E i \in Purged : Purge(i)

Spec == Init /\ [][Next]_vars
-----------------------------------------------------------------------------
(***************************************************************************)
(* Properties.                                                             *)
(***************************************************************************)

(* d is the snapshot before e.                                             *)
Consecutive(i, d, e) ==
  /\ {d, e} \subseteq Snapshots(i) /\ d < e
  /\ \A c \in Snapshots(i) : ~ (d < c /\ c < e)

(* The changes that lead from snapshot d to a list of day e.               *)
Difference(i, d, e, l) ==
  {[index |-> i, ticker |-> t, type |-> "ADDED", date |-> e, prev |-> d]
     : t \in l \ snapshot[i][d]}
  \cup
  {[index |-> i, ticker |-> t, type |-> "REMOVED", date |-> e, prev |-> d]
     : t \in snapshot[i][d] \ l}

(* A recorded change leads from a snapshot to a list of the next one, or   *)
(* is the arrival of a ticker of the first one: whatever crashed, was      *)
(* logged as an error or overlapped.  A purge may come while the list is   *)
(* fetched; between the transactions of a run it leaves remains, until the *)
(* next one.                                                               *)
ChangesSound ==
  \A c \in {x \in changes : x.index \notin torn} :
    IF c.prev = Never
    THEN c.type = "ADDED" /\ c.ticker \in snapshot[c.index][c.date]
    ELSE /\ Consecutive(c.index, c.prev, c.date)
         /\ \E l \in lists[c.index][c.date] : c \in Difference(c.index, c.prev, c.date, l)

(* What list_active_tickers gives the price updaters is one list of the    *)
(* source as a whole, not a torn or a mixed one, unless two runs of the    *)
(* index overlapped that day: INSERT IGNORE leaves the union of what both  *)
(* have fetched, never less.                                               *)
UniverseWhole ==
  \A i \in Index : \A d \in Day :
    /\ snapshot[i][d] = UNION lists[i][d]
    /\ <<i, d>> \notin overlaps => \A l, m \in lists[i][d] : l = m

(* Every ticker of a snapshot of RUSSELL1000 is in stocks, after any crash *)
(* or failure.                                                             *)
OneTxRegistered ==
  \A i \in OneTx : \A d \in Day : snapshot[i][d] \subseteq stocks

(* An index whose last entry of index_sync_log is ok has a list of that    *)
(* day in all the other tables: in the snapshot, among the stocks, and     *)
(* with the changes that lead to it.                                       *)
OkMeansWritten ==
  \A i \in Index \ torn : entry[i].status = "ok" =>
    LET e == entry[i].date
    IN  /\ e \in Snapshots(i)
        /\ \E l \in lists[i][e] :
             /\ l \subseteq snapshot[i][e] \cap stocks
             /\ \A d \in Snapshots(i) :
                  Consecutive(i, d, e) => Difference(i, d, e, l) \subseteq changes
=============================================================================
