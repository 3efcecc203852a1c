---------------------------- MODULE LocalBuffer -----------------------------
(***************************************************************************)
(* The local-first write buffer (core/local_buffer.py) and the two-phase   *)
(* commands that use it (cli/commands_common.py, commands_futu.py,         *)
(* commands_tushare.py).                                                   *)
(*                                                                         *)
(* A process is one invocation of the CLI; several may run at once on the  *)
(* same buffer file, since nothing locks it for longer than one statement. *)
(* A "full" or "sync" process fetches with local-first mode on, so that    *)
(* each write statement becomes a row of the SQLite table pending_writes,  *)
(* and then flushes.  A "flush" process only flushes, with one worker or   *)
(* with several.  A flush reads the rows once and then, row after row,     *)
(* executes the statement, commits on the NAS and deletes the row: the     *)
(* last two are commits on two databases, and anything may come between.   *)
(***************************************************************************)
EXTENDS NasTable, Sequences, FiniteSets, FiniteSetsExt

CONSTANTS
  Proc,           \* CLI invocations that may be alive at the same time
  MaxWorkers,     \* the largest --workers of "tushare flush"; 1 for futu
  Stmts,          \* the statements the fetches issue
  Poison,         \* the statements among them that the NAS always rejects
  Disciplined,    \* whether the operator uses several workers only on rows
                  \* that do not depend on one another, as flush_parallel and
                  \* the help of --workers ask; the code does not check it
  MaxWrites       \* bound on the number of statements issued

ASSUME WorkersAssumption == MaxWorkers \in Nat \ {0}
ASSUME StmtsAssumption   == Stmts \subseteq Stmt /\ Poison \subseteq Stmts
ASSUME BoundAssumption   == MaxWrites \in Nat /\ Disciplined \in BOOLEAN

Worker == 1..MaxWorkers

VARIABLES
  written,    \* history: the statements issued, in order
  prefix,     \* history: prefix[i] is the NAS after the first i - 1 writes
  applied,    \* history: the writes that were committed on the NAS
  nas,        \* the tables on the NAS
  pending,    \* the rows of pending_writes
  lastSeq,    \* the largest key SQLite has handed out (sqlite_sequence)
  phase,      \* what a process is doing
  snapshot,   \* the rows its flush read
  todo,       \* the rows a worker of the flush has not finished
  committed,  \* the workers between the NAS commit and the local delete
  outcome     \* of a flush: "error" as soon as an exception was raised

fileVars == <<written, prefix, pending, lastSeq>>
nasVars  == <<applied, nas>>
procVars == <<phase, snapshot, todo, committed, outcome>>
vars     == <<fileVars, nasVars, procVars>>

(* A row of pending_writes: its primary key, and which write it holds.     *)
Row == [seq : 1..lastSeq, w : 1..Len(written)]

TypeOK ==
  /\ written   \in Seq(Stmts)
  /\ prefix    \in Seq(Table) /\ Len(prefix) = Len(written) + 1
  /\ applied   \in SUBSET (1..Len(written))
  /\ nas       \in Table
  /\ pending   \in SUBSET Row
  /\ lastSeq   \in Nat
  /\ phase     \in [Proc -> {"off", "fetch", "flush"}]
  /\ snapshot  \in [Proc -> SUBSET Row]
  /\ todo      \in [Proc -> [Worker -> SUBSET Row]]
  /\ committed \in [Proc -> SUBSET Worker]
  /\ outcome   \in [Proc -> {"none", "ok", "error"}]

Idle == [w \in Worker |-> {}]

Init ==
  /\ written   = <<>>
  /\ prefix    = <<EmptyTable>>
  /\ applied   = {}
  /\ nas       = EmptyTable
  /\ pending   = {}
  /\ lastSeq   = 0
  /\ phase     = [p \in Proc |-> "off"]
  /\ snapshot  = [p \in Proc |-> {}]
  /\ todo      = [p \in Proc |-> Idle]
  /\ committed = [p \in Proc |-> {}]
  /\ outcome   = [p \in Proc |-> "none"]
-----------------------------------------------------------------------------
(***************************************************************************)
(* Fetching.                                                               *)
(***************************************************************************)

(* set_local_first(True): from now on get_conn() hands out buffering       *)
(* connections.                                                            *)
StartFetch(p) ==
  /\ phase[p] = "off"
  /\ phase' = [phase EXCEPT ![p] = "fetch"]
  /\ outcome' = [outcome EXCEPT ![p] = "none"]
  /\ UNCHANGED <<fileVars, nasVars, snapshot, todo, committed>>

\* Mutation of NextSeq: keys from 0.
MutNextSeqZero == lastSeq

\* Mutation of NextSeq: a key without AUTOINCREMENT, one more than the
\* largest key in the table.
MutNextSeq == 1 + Max({0} \cup {r.seq : r \in pending})

(* AUTOINCREMENT: a key is never handed out twice, even when the rows that *)
(* had the largest keys are gone.                                          *)
NextSeq == lastSeq + 1

(* BufferingCursor.execute on a write statement, from any thread of the    *)
(* fetch: one INSERT into pending_writes, committed on the spot.           *)
BufferWrite(p, s) ==
  /\ phase[p] = "fetch"
  /\ Len(written) < MaxWrites
  /\ LET i == Len(written) + 1
     IN  /\ written' = Append(written, s)
         /\ prefix'  = Append(prefix, Apply(s, i, prefix[i]))
         /\ pending' = pending \cup {[seq |-> NextSeq, w |-> i]}
  /\ lastSeq' = NextSeq
  /\ UNCHANGED <<nasVars, procVars>>

(* run_fn raised: local-first mode is switched off and the exception leaves*)
(* the command, so the flush is skipped and the rows stay.                 *)
FetchFails(p) ==
  /\ phase[p] = "fetch"
  /\ phase' = [phase EXCEPT ![p] = "off"]
  /\ UNCHANGED <<fileVars, nasVars, snapshot, todo, committed, outcome>>
-----------------------------------------------------------------------------
(***************************************************************************)
(* Flushing.                                                               *)
(***************************************************************************)
Position(r, rows) == Cardinality({q \in rows : q.seq < r.seq})

\* Mutation of Chunks: the chunks are numbered from 0, the workers from 1.
MutChunks(rows, n) ==
  LET workers == Max({1, Min({n, Cardinality(rows)})})
      size    == (Cardinality(rows) + workers - 1) \div workers
  IN  [w \in Worker |-> {r \in rows : Position(r, rows) \div size = w}]

(* The rows in order of seq, cut into at most n contiguous chunks of equal *)
(* length (the last one may be shorter).                                   *)
Chunks(rows, n) ==
  LET workers == Max({1, Min({n, Cardinality(rows)})})
      size    == (Cardinality(rows) + workers - 1) \div workers
  IN  [w \in Worker |-> {r \in rows : Position(r, rows) \div size = w - 1}]

BeginFlush(p, n) ==
  /\ phase'     = [phase EXCEPT ![p] = "flush"]
  /\ snapshot'  = [snapshot EXCEPT ![p] = pending]
  /\ todo'      = [todo EXCEPT ![p] = Chunks(pending, n)]
  /\ committed' = [committed EXCEPT ![p] = {}]
  /\ outcome'   = [outcome EXCEPT ![p] = "none"]
  /\ UNCHANGED <<fileVars, nasVars>>

(* run_fn returned: local-first mode is off again and flush() follows.     *)
FetchDone(p) ==
  /\ phase[p] = "fetch"
  /\ BeginFlush(p, 1)

(* The rows a flush would read do not depend on one another.               *)
PendingIndependent ==
  \A q, r \in pending : q # r => Independent(written[q.w], written[r.w])

(* "futu flush", "tushare flush --workers n".                              *)
FlushCommand(p, n) ==
  /\ phase[p] = "off"
  /\ n > 1 /\ Disciplined => PendingIndependent
  /\ BeginFlush(p, n)

\* Mutation of IsNext: the rows are read ORDER BY seq DESC.
MutIsNext(r, rows) == r \in rows /\ \A q \in rows : r.seq >= q.seq

(* The row a worker is at: it takes its chunk in order of seq.             *)
IsNext(r, rows) == r \in rows /\ \A q \in rows : r.seq <= q.seq

(* The statement is executed on the NAS, and nas.commit() returns.         *)
NasCommit(p, w) ==
  /\ phase[p] = "flush" /\ w \notin committed[p]
  /\ \E r \in todo[p][w] :
       /\ IsNext(r, todo[p][w])
       /\ written[r.w] \notin Poison
       /\ nas' = Apply(written[r.w], r.w, nas)
       /\ applied' = applied \cup {r.w}
  /\ committed' = [committed EXCEPT ![p] = @ \cup {w}]
  /\ UNCHANGED <<fileVars, phase, snapshot, todo, outcome>>

(* DELETE FROM pending_writes WHERE seq=?, and the local commit; the loop  *)
(* goes on to the worker's next row.                                       *)
LocalDelete(p, w) ==
  /\ phase[p] = "flush" /\ w \in committed[p]
  /\ \E r \in todo[p][w] :
       /\ IsNext(r, todo[p][w])
       /\ pending' = {q \in pending : q.seq # r.seq}
       /\ todo' = [todo EXCEPT ![p][w] = @ \ {r}]
  /\ committed' = [committed EXCEPT ![p] = @ \ {w}]
  /\ UNCHANGED <<written, prefix, lastSeq, nasVars, phase, snapshot, outcome>>

\* Mutation of WorkerFails: the failing row is skipped, the loop goes on.
MutWorkerSkips(p, w) ==
  /\ phase[p] = "flush" /\ todo[p][w] # {}
  /\ todo'      = [todo EXCEPT ![p][w] = {r \in @ : ~ IsNext(r, @)}]
  /\ committed' = [committed EXCEPT ![p] = @ \ {w}]
  /\ outcome'   = [outcome EXCEPT ![p] = "error"]
  /\ UNCHANGED <<fileVars, nasVars, phase, snapshot>>

\* Mutation of WorkerFails: the exception is swallowed.
MutWorkerSilent(p, w) ==
  /\ phase[p] = "flush" /\ todo[p][w] # {}
  /\ todo'      = [todo EXCEPT ![p][w] = {}]
  /\ committed' = [committed EXCEPT ![p] = @ \ {w}]
  /\ UNCHANGED <<fileVars, nasVars, phase, snapshot, outcome>>

(* An exception: no connection, the statement rejected (always, for a      *)
(* poisoned one), the NAS gone before or after its commit, or the SQLite   *)
(* file locked.  What this worker had left stays in the buffer.            *)
WorkerFails(p, w) ==
  /\ phase[p] = "flush" /\ todo[p][w] # {}
  /\ todo'      = [todo EXCEPT ![p][w] = {}]
  /\ committed' = [committed EXCEPT ![p] = @ \ {w}]
  /\ outcome'   = [outcome EXCEPT ![p] = "error"]
  /\ UNCHANGED <<fileVars, nasVars, phase, snapshot>>

(* Every worker is done.  flush() returns or re-raises; flush_parallel()   *)
(* raises the first exception of any worker.                               *)
FlushEnds(p) ==
  /\ phase[p] = "flush" /\ todo[p] = Idle
  /\ phase' = [phase EXCEPT ![p] = "off"]
  /\ outcome' = [outcome EXCEPT ![p] = IF @ = "error" THEN "error" ELSE "ok"]
  /\ UNCHANGED <<fileVars, nasVars, snapshot, todo, committed>>

(* The process is killed, or the machine goes down.  The files remain.     *)
Crash(p) ==
  /\ phase[p] # "off"
  /\ phase'     = [phase EXCEPT ![p] = "off"]
  /\ snapshot'  = [snapshot EXCEPT ![p] = {}]
  /\ todo'      = [todo EXCEPT ![p] = Idle]
  /\ committed' = [committed EXCEPT ![p] = {}]
  /\ outcome'   = [outcome EXCEPT ![p] = "none"]
  /\ UNCHANGED <<fileVars, nasVars>>
-----------------------------------------------------------------------------
Next ==
  \E p \in Proc :
    \/ StartFetch(p)
    \/ \E s \in Stmts : BufferWrite(p, s)
    \/ FetchFails(p)
    \/ FetchDone(p)
    \/ \E n \in Worker : FlushCommand(p, n)
    \/ \E w \in Worker : NasCommit(p, w) \/ LocalDelete(p, w) \/ WorkerFails(p, w)
    \/ FlushEnds(p)
    \/ Crash(p)

Spec == Init /\ [][Next]_vars

(***************************************************************************)
(* Fairness.  Whenever rows are waiting somebody runs a flush again, be it *)
(* the next scheduled sync (its fetch ends) or the flush command that the  *)
(* failure message asks for; and neither the NAS nor the buffer file fails *)
(* for ever, so a step that is tried again and again succeeds some time.   *)
(* A worker gets on with its row or raises.                                *)
(***************************************************************************)
Fairness ==
  \A p \in Proc :
    /\ SF_vars(FetchDone(p) \/ FlushCommand(p, 1))
    /\ WF_vars(FlushEnds(p))
    /\ \A w \in Worker :
         /\ SF_vars(NasCommit(p, w))
         /\ SF_vars(LocalDelete(p, w))
         /\ WF_vars(NasCommit(p, w) \/ LocalDelete(p, w) \/ WorkerFails(p, w))

FairSpec == Spec /\ Fairness
-----------------------------------------------------------------------------
(***************************************************************************)
(* Properties.                                                             *)
(***************************************************************************)

(* Whatever fails, crashes or runs concurrently, a statement that a fetch  *)
(* issued is on the NAS or still in the buffer file: flush() deletes a row *)
(* only after its own statement was committed.                             *)
NoLostWrite ==
  \A i \in 1..Len(written) : i \in applied \/ \E r \in pending : r.w = i

(* What makes NoLostWrite inductive: a key never names two rows, even when *)
(* one of them is only remembered by a flush that read it earlier; and a   *)
(* worker that is about to delete a row has committed it.                  *)
Live == pending \cup UNION {todo[p][w] : p \in Proc, w \in Worker}

OneRowPerKey == \A q, r \in Live : q.seq = r.seq => q = r

CommittedIsApplied ==
  \A p \in Proc : \A w \in committed[p] :
    \A r \in todo[p][w] : IsNext(r, todo[p][w]) => r.w \in applied

BufferInv == OneRowPerKey /\ CommittedIsApplied /\ NoLostWrite

(* With one sequential flush at a time the NAS is always what executing    *)
(* some prefix of the writes directly would have left, across crashes      *)
(* between the two commits and the replays they cause.                     *)
PrefixConsistent ==
  \E n \in 0..Len(written) : applied = 1..n /\ nas = prefix[n + 1]

(* What makes PrefixConsistent inductive: keys are positions; the rows a   *)
(* flush has left begin where the buffer begins; at most the last write    *)
(* applied is still in the buffer.                                         *)
KeyIsPosition ==
  /\ lastSeq = Len(written)
  /\ \A r \in Live : r.seq = r.w

PrefixIsReplay ==
  \A i \in 1..Len(written) : prefix[i + 1] = Apply(written[i], i, prefix[i])

TodoFromFirst ==
  \A p \in Proc, w \in Worker : \A r \in todo[p][w] :
    r \in pending /\ \A q \in pending : q.seq <= r.seq => q \in todo[p][w]

AppliedUpTo(n) ==
  /\ applied = 1..n /\ nas = prefix[n + 1]
  /\ \A r \in pending : r.w >= n

SequentialInv ==
  /\ BufferInv /\ KeyIsPosition /\ PrefixIsReplay /\ TodoFromFirst
  /\ \E n \in 0..Len(written) : AppliedUpTo(n)
  /\ IsFiniteSet(pending)

(* A flush that returns without an exception, sequential or parallel, has  *)
(* delivered every row it read, and has left none of them in the file.     *)
OkMeansDelivered ==
  \A p \in Proc : outcome[p] = "ok" =>
    \A r \in snapshot[p] : r.w \in applied /\ r \notin pending

(* A statement the NAS rejects is not skipped: a sequential flush stops at *)
(* it, every time, and nothing issued later overtakes it.                  *)
PoisonNotSkipped ==
  \A i \in applied, j \in 1..Len(written) : j <= i => written[j] \notin Poison

(* Used on independent rows only, and followed by sequential flushes or    *)
(* further parallel ones, flush_parallel leaves the tables as the writes   *)
(* in their order would have, once the buffer is empty.                    *)
DrainedIsCurrent ==
  pending = {} => nas = prefix[Len(prefix)]

(* One sequential flush at a time implements the queue: a commit delivers  *)
(* the oldest write that is missing on the NAS, or changes nothing there.  *)
Queue == INSTANCE WriteQueue
ImplementsQueue == Queue!QSpec

(* Every statement reaches the NAS in the end, unless one that the NAS     *)
(* rejects was issued before it or is it.                                  *)
EventuallyDelivered ==
  \A i \in 1..MaxWrites :
    (i <= Len(written) /\ \A j \in 1..i : written[j] \notin Poison)
      ~> (i \in applied)
=============================================================================
