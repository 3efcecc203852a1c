------------------------- MODULE LocalBufferProofs --------------------------
(***************************************************************************)
(* Proofs about LocalBuffer, for any number of processes, workers, keys    *)
(* and writes.                                                             *)
(***************************************************************************)
EXTENDS LocalBuffer, FiniteSetTheorems, TLAPS

(* Executing a statement on well-formed tables leaves well-formed tables.  *)
LEMMA ApplyType ==
  ASSUME NEW s \in Stmt, NEW i \in Nat, NEW t \in Table
  PROVE  Apply(s, i, t) \in Table
<1>1. s.op \in {"upsert", "ignore", "update", "join"} /\ s.key \in Key /\ s.src \in Key
  BY DEF Stmt
<1>2. \A k \in Key : t[k].val \in Nat /\ t[k].ann \in Nat
  BY DEF Table
<1>3. Upsert(s, i, t) \in Table
  BY <1>1, <1>2 DEF Upsert, Table
<1>4. InsertIgnore(s, i, t) \in Table
  BY <1>3 DEF InsertIgnore
<1>5. Update(s, i, t) \in Table
  BY <1>1, <1>2 DEF Update, Table
<1>6. UpdateJoin(s, t) \in Table
  BY <1>1, <1>2 DEF UpdateJoin, Table
<1> QED
  BY <1>1, <1>3, <1>4, <1>5, <1>6 DEF Apply

(***************************************************************************)
(* Type correctness.  A growing Row is what every step but BufferWrite     *)
(* leaves alone.                                                           *)
(***************************************************************************)
LEMMA RowGrows ==
  ASSUME TypeOK, written' \in Seq(Stmts), lastSeq' \in Nat,
         Len(written') >= Len(written), lastSeq' >= lastSeq
  PROVE  Row \subseteq Row'
<1> SUFFICES ASSUME NEW r \in Row PROVE r \in Row'
  OBVIOUS
<1>1. r.seq \in 1..lastSeq /\ r.w \in 1..Len(written) /\ r = [seq |-> r.seq, w |-> r.w]
  BY DEF Row
<1>2. Len(written) \in Nat /\ lastSeq \in Nat /\ Len(written') \in Nat
  BY DEF TypeOK
<1>3. r.seq \in 1..lastSeq' /\ r.w \in 1..Len(written')
  BY <1>1, <1>2
<1> QED
  BY <1>1, <1>3 DEF Row

LEMMA ChunksType ==
  ASSUME NEW rows, NEW n
  PROVE  Chunks(rows, n) \in [Worker -> SUBSET rows]
BY DEF Chunks

THEOREM TypeCorrect == Spec => []TypeOK
<1>1. Init => TypeOK
  <2> SUFFICES ASSUME Init PROVE TypeOK
    OBVIOUS
  <2>1. EmptyTable \in Table
    BY DEF EmptyTable, Table, Absent
  <2>2. Idle \in [Worker -> SUBSET Row]
    BY DEF Idle
  <2> QED
    BY <2>1, <2>2 DEF Init, TypeOK
<1>2. TypeOK /\ [Next]_vars => TypeOK'
  <2> SUFFICES ASSUME TypeOK, [Next]_vars PROVE TypeOK'
    OBVIOUS
  <2> USE DEF TypeOK
  <2>1. ASSUME NEW p \in Proc, StartFetch(p) PROVE TypeOK'
    BY <2>1 DEF StartFetch, Row, fileVars, nasVars
  <2>2. ASSUME NEW p \in Proc, NEW s \in Stmts, BufferWrite(p, s) PROVE TypeOK'
    <3> DEFINE i == Len(written) + 1
    <3>1. i \in Nat \ {0} /\ NextSeq \in Nat \ {0}
      BY DEF NextSeq
    <3>2. written' \in Seq(Stmts) /\ Len(written') = i /\ lastSeq' = lastSeq + 1
      BY <2>2 DEF BufferWrite, NextSeq
    <3>3. Row \subseteq Row'
      BY <3>2, RowGrows
    <3>4. prefix' \in Seq(Table) /\ Len(prefix') = Len(written') + 1
      <4>1. prefix[i] \in Table
        BY <3>1
      <4>2. Apply(s, i, prefix[i]) \in Table
        BY <3>1, <4>1, StmtsAssumption, ApplyType
      <4>3. prefix' = Append(prefix, Apply(s, i, prefix[i]))
        BY <2>2 DEF BufferWrite
      <4> QED
        BY <3>2, <4>2, <4>3
    <3>5. [seq |-> NextSeq, w |-> i] \in Row'
      BY <3>1, <3>2 DEF Row, NextSeq
    <3>6. pending' \in SUBSET Row'
      BY <2>2, <3>3, <3>5 DEF BufferWrite
    <3>7. applied' \in SUBSET (1..Len(written'))
      BY <2>2, <3>2 DEF BufferWrite, nasVars
    <3>8. todo' \in [Proc -> [Worker -> SUBSET Row']] /\ snapshot' \in [Proc -> SUBSET Row']
      BY <2>2, <3>3 DEF BufferWrite, procVars
    <3> QED
      BY <2>2, <3>2, <3>4, <3>6, <3>7, <3>8 DEF BufferWrite, nasVars, procVars
  <2>3. ASSUME NEW p \in Proc, FetchFails(p) PROVE TypeOK'
    BY <2>3 DEF FetchFails, Row, fileVars, nasVars
  <2>4. ASSUME NEW p \in Proc, NEW n, BeginFlush(p, n) PROVE TypeOK'
    <3>1. Chunks(pending, n) \in [Worker -> SUBSET Row]
      BY ChunksType
    <3> QED
      BY <2>4, <3>1 DEF BeginFlush, Row, fileVars, nasVars
  <2>5. ASSUME NEW p \in Proc, NEW w \in Worker, NasCommit(p, w) PROVE TypeOK'
    <3> PICK r \in todo[p][w] :
           /\ nas' = Apply(written[r.w], r.w, nas)
           /\ applied' = applied \cup {r.w}
      BY <2>5 DEF NasCommit
    <3>1. r.w \in 1..Len(written) /\ r.w \in Nat /\ written[r.w] \in Stmt
      BY StmtsAssumption DEF Row
    <3>2. nas' \in Table
      BY <3>1, ApplyType
    <3>3. applied' \in SUBSET (1..Len(written))
      BY <3>1
    <3> QED
      BY <2>5, <3>2, <3>3 DEF NasCommit, Row, fileVars
  <2>6. ASSUME NEW p \in Proc, NEW w \in Worker, LocalDelete(p, w) PROVE TypeOK'
    BY <2>6 DEF LocalDelete, Row, nasVars
  <2>7. ASSUME NEW p \in Proc, NEW w \in Worker, WorkerFails(p, w) PROVE TypeOK'
    BY <2>7 DEF WorkerFails, Row, fileVars, nasVars
  <2>8. ASSUME NEW p \in Proc, FlushEnds(p) PROVE TypeOK'
    BY <2>8 DEF FlushEnds, Row, fileVars, nasVars
  <2>9. ASSUME NEW p \in Proc, Crash(p) PROVE TypeOK'
    <3>1. Idle \in [Worker -> SUBSET Row]
      BY DEF Idle
    <3> QED
      BY <2>9, <3>1 DEF Crash, Row, fileVars, nasVars
  <2>10. CASE UNCHANGED vars
    BY <2>10 DEF vars, fileVars, nasVars, procVars, Row
  <2> QED
    BY <2>1, <2>2, <2>3, <2>4, <2>5, <2>6, <2>7, <2>8, <2>9, <2>10
    DEF Next, FetchDone, FlushCommand
<1> QED
  BY <1>1, <1>2, PTL DEF Spec
-----------------------------------------------------------------------------
(***************************************************************************)
(* No write is lost, with any number of concurrent flushes.                *)
(***************************************************************************)
LEMMA LiveType ==
  ASSUME TypeOK
  PROVE  Live \subseteq Row /\ \A r \in Live : r.seq \in 1..lastSeq /\ r.w \in Nat
BY DEF TypeOK, Live, Row

(* A step that adds no row to the buffer nor to a worker, and forgets no   *)
(* applied write, keeps the keys apart.                                    *)
LEMMA KeysStayApart ==
  ASSUME OneRowPerKey, Live' \subseteq Live
  PROVE  OneRowPerKey'
BY DEF OneRowPerKey

(* BufferInv is preserved by every step.                                   *)
LEMMA BufferStep ==
  ASSUME TypeOK, TypeOK', BufferInv, [Next]_vars
  PROVE  BufferInv'
<1> USE DEF BufferInv
<1>1. ASSUME NEW p \in Proc, NEW s \in Stmts, BufferWrite(p, s) PROVE BufferInv'
  <2> DEFINE new == [seq |-> NextSeq, w |-> Len(written) + 1]
  <2>1. Live' = Live \cup {new}
    BY <1>1 DEF BufferWrite, procVars, Live
  <2>2. \A r \in Live : r.seq # new.seq
    BY LiveType DEF NextSeq, TypeOK
  <2>3. OneRowPerKey'
    BY <2>1, <2>2 DEF OneRowPerKey
  <2>4. CommittedIsApplied'
    BY <1>1 DEF BufferWrite, CommittedIsApplied, nasVars, procVars, IsNext
  <2>5. written' = Append(written, s) /\ pending' = pending \cup {new} /\ applied' = applied
    BY <1>1 DEF BufferWrite, nasVars
  <2>6. \A i \in 1..Len(written') : i \in 1..Len(written) \/ i = Len(written) + 1
    BY <2>5 DEF TypeOK
  <2>7. NoLostWrite'
    <3> SUFFICES ASSUME NEW i \in 1..Len(written')
                 PROVE  i \in applied' \/ \E r \in pending' : r.w = i
      BY DEF NoLostWrite
    <3>1. CASE i \in 1..Len(written)
      BY <2>5, <3>1 DEF NoLostWrite
    <3>2. CASE i = Len(written) + 1
      <4>1. new \in pending' /\ new.w = i
        BY <2>5, <3>2
      <4> QED
        BY <4>1
    <3> QED
      BY <2>6, <3>1, <3>2
  <2> QED
    BY <2>3, <2>4, <2>7
<1>2. ASSUME NEW p \in Proc, NEW n, BeginFlush(p, n) PROVE BufferInv'
  <2>1. \A w \in Worker : todo'[p][w] \subseteq pending
    BY <1>2, ChunksType DEF BeginFlush, TypeOK
  <2>2. \A q \in Proc \ {p} : todo'[q] = todo[q] /\ committed'[q] = committed[q]
    BY <1>2 DEF BeginFlush, TypeOK
  <2>3. Live' \subseteq Live
    BY <1>2, <2>1, <2>2 DEF BeginFlush, Live, fileVars
  <2>4. committed'[p] = {}
    BY <1>2 DEF BeginFlush, TypeOK
  <2>5. CommittedIsApplied'
    BY <1>2, <2>2, <2>4 DEF CommittedIsApplied, BeginFlush, nasVars, IsNext
  <2>6. NoLostWrite'
    BY <1>2 DEF BeginFlush, fileVars, nasVars, NoLostWrite
  <2> QED
    BY <2>3, <2>5, <2>6, KeysStayApart
<1>3. ASSUME NEW p \in Proc, NEW w \in Worker, NasCommit(p, w) PROVE BufferInv'
  <2> PICK r \in todo[p][w] : IsNext(r, todo[p][w]) /\ applied' = applied \cup {r.w}
    BY <1>3 DEF NasCommit
  <2>1. UNCHANGED <<fileVars, todo>>
    BY <1>3 DEF NasCommit
  <2>2. Live' = Live
    BY <2>1 DEF Live, fileVars
  <2>3. \A q \in todo[p][w] : IsNext(q, todo[p][w]) => q = r
    BY LiveType DEF IsNext, OneRowPerKey, Live
  <2>4. ASSUME NEW q \in Proc, NEW v \in committed'[q],
               NEW x \in todo'[q][v], IsNext(x, todo'[q][v])
        PROVE  x.w \in applied'
    <3>1. CASE q = p /\ v = w
      BY <2>1, <2>3, <2>4, <3>1
    <3>2. CASE ~ (q = p /\ v = w)
      <4>1. v \in committed[q]
        BY <1>3, <3>2 DEF NasCommit, TypeOK
      <4> QED
        BY <2>1, <2>4, <4>1 DEF CommittedIsApplied
    <3> QED
      BY <3>1, <3>2
  <2>5. NoLostWrite'
    BY <2>1 DEF NoLostWrite, fileVars
  <2>6. CommittedIsApplied'
    BY <2>4 DEF CommittedIsApplied
  <2> QED
    BY <2>2, <2>5, <2>6, KeysStayApart
<1>4. ASSUME NEW p \in Proc, NEW w \in Worker, LocalDelete(p, w) PROVE BufferInv'
  <2> PICK r \in todo[p][w] :
         /\ IsNext(r, todo[p][w])
         /\ pending' = {q \in pending : q.seq # r.seq}
         /\ todo' = [todo EXCEPT ![p][w] = @ \ {r}]
    BY <1>4 DEF LocalDelete
  <2>1. \A q \in Proc, v \in Worker : todo'[q][v] \subseteq todo[q][v]
    BY DEF TypeOK
  <2>2. Live' \subseteq Live
    BY <2>1 DEF Live
  <2>3. r \in Live /\ r.w \in applied
    BY <1>4 DEF LocalDelete, CommittedIsApplied, Live
  <2>4. NoLostWrite'
    <3> SUFFICES ASSUME NEW i \in 1..Len(written), i \notin applied
                 PROVE  \E q \in pending' : q.w = i
      BY <1>4 DEF LocalDelete, NoLostWrite, nasVars
    <3> PICK q \in pending : q.w = i
      BY DEF NoLostWrite
    <3>1. q \in Live /\ q # r
      BY <2>3 DEF Live
    <3> QED
      BY <2>3, <3>1 DEF OneRowPerKey
  <2>5. \A q \in Proc : \A v \in committed'[q] :
          v \in committed[q] /\ todo'[q][v] = todo[q][v]
    BY <1>4 DEF LocalDelete, TypeOK
  <2>6. CommittedIsApplied'
    BY <1>4, <2>5 DEF CommittedIsApplied, LocalDelete, nasVars, IsNext
  <2> QED
    BY <2>2, <2>4, <2>6, KeysStayApart
<1>5. ASSUME NEW p \in Proc, NEW w \in Worker, WorkerFails(p, w) PROVE BufferInv'
  <2>1. \A q \in Proc, v \in Worker : todo'[q][v] \subseteq todo[q][v]
    BY <1>5 DEF WorkerFails, TypeOK
  <2>2. Live' \subseteq Live
    BY <1>5, <2>1 DEF Live, WorkerFails, fileVars
  <2>3. \A q \in Proc : \A v \in committed'[q] :
          v \in committed[q] /\ todo'[q][v] = todo[q][v]
    BY <1>5 DEF WorkerFails, TypeOK
  <2>4. CommittedIsApplied'
    BY <1>5, <2>3 DEF CommittedIsApplied, WorkerFails, nasVars, IsNext
  <2>5. NoLostWrite'
    BY <1>5 DEF WorkerFails, fileVars, nasVars, NoLostWrite
  <2> QED
    BY <2>2, <2>4, <2>5, KeysStayApart
<1>6. ASSUME NEW p \in Proc, Crash(p) PROVE BufferInv'
  <2>1. \A q \in Proc, v \in Worker : todo'[q][v] \subseteq todo[q][v]
    BY <1>6 DEF Crash, Idle, TypeOK
  <2>2. Live' \subseteq Live
    BY <1>6, <2>1 DEF Live, Crash, fileVars
  <2>3. \A q \in Proc : \A v \in committed'[q] :
          v \in committed[q] /\ todo'[q][v] = todo[q][v]
    BY <1>6 DEF Crash, TypeOK
  <2>4. CommittedIsApplied'
    BY <1>6, <2>3 DEF CommittedIsApplied, Crash, nasVars, IsNext
  <2>5. NoLostWrite'
    BY <1>6 DEF Crash, fileVars, nasVars, NoLostWrite
  <2> QED
    BY <2>2, <2>4, <2>5, KeysStayApart
<1>7. ASSUME UNCHANGED <<fileVars, nasVars, todo, committed>> PROVE BufferInv'
  BY <1>7 DEF fileVars, nasVars, OneRowPerKey, Live, CommittedIsApplied, IsNext, NoLostWrite
<1>8. CASE UNCHANGED vars
  BY <1>7, <1>8 DEF vars, procVars
<1> QED
  BY <1>1, <1>2, <1>3, <1>4, <1>5, <1>6, <1>7, <1>8
  DEF Next, StartFetch, FetchFails, FetchDone, FlushCommand, FlushEnds

(* Every statement a fetch issued is on the NAS or in the buffer file, for *)
(* any number of commands, workers and statements.                         *)
THEOREM NothingLost == Spec => []NoLostWrite
<1>1. Init => BufferInv
  BY DEF Init, BufferInv, OneRowPerKey, Live, Idle, CommittedIsApplied, NoLostWrite
<1>2. TypeOK /\ TypeOK' /\ BufferInv /\ [Next]_vars => BufferInv'
  BY BufferStep
<1>3. BufferInv => NoLostWrite
  BY DEF BufferInv
<1> QED
  BY <1>1, <1>2, <1>3, TypeCorrect, PTL DEF Spec
-----------------------------------------------------------------------------
(***************************************************************************)
(* A flush that returns has delivered what it read.                        *)
(***************************************************************************)

(* Cutting c rows into chunks needs no more chunks than there are workers. *)
LEMMA ChunkOf ==
  ASSUME NEW c \in Nat \ {0}, NEW m \in Nat \ {0}, NEW x \in Nat, x < c
  PROVE  /\ (c + m - 1) \div m \in Nat \ {0}
         /\ x \div ((c + m - 1) \div m) \in 0..m - 1
<1> DEFINE size == (c + m - 1) \div m
           k    == x \div size
<1>1. size \in Nat /\ c + m - 1 < m * (size + 1) /\ size > 0
  <2>1. \A a \in Nat, b \in Nat \ {0} : a \div b \in Nat /\ a < b * (a \div b + 1)
    OBVIOUS
  <2>2. c + m - 1 \in Nat
    OBVIOUS
  <2>3. size \in Nat /\ c + m - 1 < m * (size + 1)
    BY <2>1, <2>2
  <2>4. size = 0 => m * (size + 1) = m
    OBVIOUS
  <2> QED BY <2>3, <2>4
<1> HIDE DEF size
<1>2. m * (size + 1) = m * size + m /\ m * size \in Nat
  BY <1>1
<1>3. c <= m * size
  BY <1>1, <1>2
<1>4. k \in Nat /\ size * k <= x
  <2>1. \A a \in Nat, b \in Nat \ {0} : a \div b \in Nat /\ b * (a \div b) <= a
    OBVIOUS
  <2> QED BY <1>1, <2>1
<1> HIDE DEF k
<1>5. k < m
  <2> SUFFICES ASSUME k >= m PROVE FALSE
    BY <1>4
  <2>1. size * k >= size * m
    <3>1. \A a, b, d \in Nat : b >= d => a * b >= a * d
      OBVIOUS
    <3> QED BY <1>1, <1>4, <3>1
  <2>2. size * m = m * size
    BY <1>1
  <2> DEFINE a == size * k
             b == m * size
  <2>3. /\ a \in Nat /\ b \in Nat
        /\ a >= b /\ c <= b /\ a <= x
    BY <1>1, <1>3, <1>4, <2>1, <2>2
  <2> HIDE DEF a, b
  <2> QED BY <2>3
<1> QED BY <1>1, <1>4, <1>5 DEF size, k

(* Every row that a flush reads is in the chunk of one of its workers.     *)
LEMMA ChunksCover ==
  ASSUME NEW rows, IsFiniteSet(rows), NEW n \in Worker,
         NEW r \in rows, \A q \in rows : q.seq \in Nat
  PROVE  \E w \in Worker : r \in Chunks(rows, n)[w]
<1> DEFINE c == Cardinality(rows)
           m == Max({1, Min({n, c})})
           x == Position(r, rows)
<1>1. c \in Nat \ {0} /\ n \in 1..MaxWorkers /\ MaxWorkers \in Nat
  BY FS_CardinalityType, FS_EmptySet, WorkersAssumption DEF Worker
<1>2. m \in 1..MaxWorkers
  <2>1. Min({n, c}) \in {n, c} /\ Min({n, c}) <= n
    BY <1>1 DEF Min
  <2>2. \A y \in Nat : Max({1, y}) \in {1, y} /\ Max({1, y}) >= 1
    BY DEF Max
  <2> QED BY <1>1, <2>1, <2>2
<1>3. x \in Nat /\ x < c
  <2> DEFINE B == {q \in rows : q.seq < r.seq}
  <2>1. B \subseteq rows /\ r \notin B
    OBVIOUS
  <2>2. Cardinality(B) \in Nat /\ Cardinality(B) < c
    BY <2>1, FS_Subset, FS_CardinalityType
  <2> QED BY <2>2 DEF Position
<1> HIDE DEF c, m, x
<1>4. x \div ((c + m - 1) \div m) \in 0..m - 1
  <2>1. m \in Nat \ {0}
    BY <1>1, <1>2
  <2> QED BY <1>1, <1>3, <2>1, ChunkOf, Zenon
<1> DEFINE w == x \div ((c + m - 1) \div m) + 1
<1>5. w \in Worker /\ x \div ((c + m - 1) \div m) = w - 1
  BY <1>1, <1>2, <1>4 DEF Worker
<1>6. Chunks(rows, n)[w] =
        {q \in rows : Position(q, rows) \div ((c + m - 1) \div m) = w - 1}
  BY <1>5 DEF Chunks, c, m
<1>7. r \in Chunks(rows, n)[w]
  BY <1>5, <1>6 DEF x
<1> QED BY <1>5, <1>7

(* What a flush has read is delivered and gone, or still to do by it.      *)
Accounted(p) ==
  \A r \in snapshot[p] :
    \/ r.w \in applied /\ r \notin pending
    \/ phase[p] = "flush" /\ \E w \in Worker : r \in todo[p][w]

(* Unless a worker of it has raised an exception.                          *)
FlushInv ==
  /\ IsFiniteSet(pending)
  /\ \A p \in Proc :
       /\ outcome[p] = "ok" => phase[p] = "off"
       /\ outcome[p] = "ok" \/ (phase[p] = "flush" /\ outcome[p] # "error") => Accounted(p)

(* What others do keeps it: they only add rows with new keys, deliver and  *)
(* delete.                                                                 *)
LEMMA AccountedKept ==
  ASSUME NEW p \in Proc, Accounted(p),
         snapshot'[p] = snapshot[p], phase'[p] = phase[p], todo'[p] = todo[p],
         applied \subseteq applied',
         \A r \in snapshot[p] : r \in pending' => r \in pending
  PROVE  Accounted(p)'
BY DEF Accounted

LEMMA FlushStep ==
  ASSUME TypeOK, BufferInv, FlushInv, [Next]_vars
  PROVE  FlushInv'
<1>1. ASSUME NEW p \in Proc,
             \A q \in Proc \ {p} : /\ snapshot'[q] = snapshot[q] /\ phase'[q] = phase[q]
                                   /\ todo'[q] = todo[q] /\ outcome'[q] = outcome[q],
             applied \subseteq applied', IsFiniteSet(pending'),
             \A q \in Proc \ {p} : \A r \in snapshot[q] : r \in pending' => r \in pending,
             outcome'[p] = "ok" => phase'[p] = "off",
             outcome'[p] = "ok" \/ (phase'[p] = "flush" /\ outcome'[p] # "error")
               => Accounted(p)'
      PROVE  FlushInv'
  <2>1. ASSUME NEW q \in Proc \ {p}
        PROVE  /\ outcome'[q] = "ok" => phase'[q] = "off"
               /\ outcome'[q] = "ok" \/ (phase'[q] = "flush" /\ outcome'[q] # "error")
                    => Accounted(q)'
    BY <1>1, <2>1, AccountedKept DEF FlushInv
  <2> QED BY <1>1, <2>1 DEF FlushInv
<1>2. ASSUME NEW p \in Proc, StartFetch(p) \/ FetchFails(p) \/ Crash(p) PROVE FlushInv'
  <2>1. /\ pending' = pending /\ applied' = applied
        /\ \A q \in Proc \ {p} : /\ snapshot'[q] = snapshot[q] /\ phase'[q] = phase[q]
                                 /\ todo'[q] = todo[q] /\ outcome'[q] = outcome[q]
    BY <1>2 DEF StartFetch, FetchFails, Crash, fileVars, nasVars, TypeOK
  <2>2. /\ phase'[p] # "flush"
        /\ outcome'[p] # "ok"
    BY <1>2 DEF StartFetch, FetchFails, Crash, TypeOK, FlushInv
  <2> QED BY <1>1, <2>1, <2>2 DEF FlushInv
<1>3. ASSUME NEW p \in Proc, NEW s \in Stmts, BufferWrite(p, s) PROVE FlushInv'
  <2> DEFINE row == [seq |-> NextSeq, w |-> Len(written) + 1]
  <2>1. /\ pending' = pending \cup {row} /\ applied' = applied
        /\ UNCHANGED <<snapshot, phase, todo, outcome>>
    BY <1>3 DEF BufferWrite, nasVars, procVars
  <2>2. \A q \in Proc : \A r \in snapshot[q] : r # row
    <3>1. \A q \in Proc : \A r \in snapshot[q] : r.seq \in 1..lastSeq
      BY DEF TypeOK, Row
    <3>2. row.seq = lastSeq + 1 /\ lastSeq \in Nat
      BY DEF NextSeq, TypeOK
    <3> QED BY <3>1, <3>2
  <2>3. IsFiniteSet(pending')
    BY <2>1, FS_AddElement DEF FlushInv
  <2>4. \A q \in Proc : Accounted(q) => Accounted(q)'
    BY <2>1, <2>2, AccountedKept
  <2> QED BY <2>1, <2>3, <2>4 DEF FlushInv
<1>4. ASSUME NEW p \in Proc, NEW n \in Worker, BeginFlush(p, n) PROVE FlushInv'
  <2>1. /\ pending' = pending /\ applied' = applied
        /\ \A q \in Proc \ {p} : /\ snapshot'[q] = snapshot[q] /\ phase'[q] = phase[q]
                                 /\ todo'[q] = todo[q] /\ outcome'[q] = outcome[q]
        /\ snapshot'[p] = pending /\ todo'[p] = Chunks(pending, n)
        /\ phase'[p] = "flush" /\ outcome'[p] = "none"
    BY <1>4 DEF BeginFlush, fileVars, nasVars, TypeOK
  <2>2. \A r \in pending : \E w \in Worker : r \in Chunks(pending, n)[w]
    BY ChunksCover DEF FlushInv, TypeOK, Row
  <2>3. Accounted(p)'
    BY <2>1, <2>2 DEF Accounted
  <2> QED BY <1>1, <2>1, <2>3 DEF FlushInv
<1>5. ASSUME NEW p \in Proc, NEW w \in Worker, NasCommit(p, w) PROVE FlushInv'
  <2>1. /\ pending' = pending /\ applied \subseteq applied'
        /\ UNCHANGED <<snapshot, phase, todo, outcome>>
    BY <1>5 DEF NasCommit, fileVars
  <2>2. \A q \in Proc : Accounted(q) => Accounted(q)'
    BY <2>1, AccountedKept
  <2> QED BY <2>1, <2>2 DEF FlushInv
<1>6. ASSUME NEW p \in Proc, NEW w \in Worker, LocalDelete(p, w) PROVE FlushInv'
  <2> PICK r \in todo[p][w] :
         /\ IsNext(r, todo[p][w])
         /\ pending' = {q \in pending : q.seq # r.seq}
         /\ todo' = [todo EXCEPT ![p][w] = @ \ {r}]
    BY <1>6 DEF LocalDelete
  <2>1. /\ w \in committed[p] /\ UNCHANGED <<applied, snapshot, phase, outcome>>
    BY <1>6 DEF LocalDelete, nasVars
  <2>2. r.w \in applied /\ r \notin pending'
    BY <2>1 DEF BufferInv, CommittedIsApplied
  <2>3. \A q \in Proc \ {p} : todo'[q] = todo[q]
    BY DEF TypeOK
  <2>4. \A v \in Worker : \A x \in todo[p][v] : x = r \/ x \in todo'[p][v]
    BY DEF TypeOK
  <2>5. Accounted(p) => Accounted(p)'
    BY <2>1, <2>2, <2>4 DEF Accounted
  <2>6. IsFiniteSet(pending')
    BY FS_Subset DEF FlushInv
  <2> QED BY <1>1, <2>1, <2>3, <2>5, <2>6 DEF FlushInv
<1>7. ASSUME NEW p \in Proc, NEW w \in Worker, WorkerFails(p, w) PROVE FlushInv'
  <2>1. /\ pending' = pending /\ applied' = applied /\ snapshot' = snapshot /\ phase' = phase
        /\ \A q \in Proc \ {p} : todo'[q] = todo[q] /\ outcome'[q] = outcome[q]
        /\ outcome'[p] = "error"
    BY <1>7 DEF WorkerFails, fileVars, nasVars, TypeOK
  <2> QED BY <1>1, <2>1 DEF FlushInv
<1>8. ASSUME NEW p \in Proc, FlushEnds(p) PROVE FlushInv'
  <2>1. /\ pending' = pending /\ applied' = applied /\ snapshot' = snapshot /\ todo' = todo
        /\ \A q \in Proc \ {p} : phase'[q] = phase[q] /\ outcome'[q] = outcome[q]
        /\ phase[p] = "flush" /\ phase'[p] = "off" /\ todo[p] = Idle
        /\ outcome'[p] = "ok" => outcome[p] # "error"
    BY <1>8 DEF FlushEnds, fileVars, nasVars, TypeOK
  <2>2. \A w \in Worker : todo[p][w] = {}
    BY <2>1 DEF Idle
  <2>3. outcome[p] # "error" => Accounted(p)'
    BY <2>1, <2>2 DEF FlushInv, Accounted
  <2> QED BY <1>1, <2>1, <2>3 DEF FlushInv
<1>9. CASE UNCHANGED vars
  <2>1. /\ pending' = pending /\ applied' = applied
        /\ UNCHANGED <<snapshot, phase, todo, outcome>>
    BY <1>9 DEF vars, fileVars, nasVars, procVars
  <2>2. \A q \in Proc : Accounted(q) => Accounted(q)'
    BY <2>1, AccountedKept
  <2> QED BY <2>1, <2>2 DEF FlushInv
<1>10. 1 \in Worker
  BY WorkersAssumption DEF Worker
<1> QED
  BY <1>2, <1>3, <1>4, <1>5, <1>6, <1>7, <1>8, <1>9, <1>10 DEF Next, FetchDone, FlushCommand

(* A flush that returns has delivered every row it read and left none in   *)
(* the file, for any number of commands, of sequential and of parallel     *)
(* workers, whatever the other commands buffer, deliver and delete.        *)
THEOREM OkIsDelivered == Spec => []OkMeansDelivered
<1>1. Init => BufferInv /\ FlushInv
  BY FS_EmptySet
  DEF Init, BufferInv, OneRowPerKey, Live, Idle, CommittedIsApplied, NoLostWrite, FlushInv
<1>2. TypeOK /\ TypeOK' /\ BufferInv /\ FlushInv /\ [Next]_vars => BufferInv' /\ FlushInv'
  BY BufferStep, FlushStep
<1>3. FlushInv => OkMeansDelivered
  BY DEF FlushInv, Accounted, OkMeansDelivered
<1> QED
  BY <1>1, <1>2, <1>3, TypeCorrect, PTL DEF Spec
-----------------------------------------------------------------------------
(***************************************************************************)
(* One flush at a time, and one worker each, as "futu sync", "futu flush"  *)
(* and "tushare flush" without --workers have: the NAS is always what a    *)
(* prefix of the writes leaves, and the buffer implements the queue of     *)
(* WriteQueue.                                                             *)
(***************************************************************************)

(* One process at a time, and also one worker in it.                       *)
Alone == \A p, q \in Proc : p = q

Sequential == MaxWorkers = 1 /\ Alone

(* A replay of the statement executed last changes nothing.                *)
LEMMA ApplyTwice ==
  ASSUME NEW s \in Stmt, NEW i \in Nat, NEW t \in Table
  PROVE  Apply(s, i, Apply(s, i, t)) = Apply(s, i, t)
<1>1. s.op \in {"upsert", "ignore", "update", "join"} /\ s.key \in Key /\ s.src \in Key
  BY DEF Stmt
<1>2. \A k \in Key : /\ t[k].val \in Nat /\ t[k].ann \in Nat
                     /\ t[k] = [val |-> t[k].val, ann |-> t[k].ann]
  BY DEF Table
<1>3. t = [k \in Key |-> t[k]]
  BY DEF Table
<1>4. CASE s.op = "upsert"
  BY <1>1, <1>2, <1>3, <1>4 DEF Apply, Upsert
<1>5. CASE s.op = "ignore"
  <2>1. CASE t[s.key].val = Absent
    BY <1>1, <1>2, <1>3, <1>5, <2>1 DEF Apply, InsertIgnore, Upsert
  <2>2. CASE t[s.key].val # Absent
    BY <1>5, <2>2 DEF Apply, InsertIgnore
  <2> QED
    BY <2>1, <2>2
<1>6. CASE s.op = "update"
  BY <1>1, <1>2, <1>3, <1>6 DEF Apply, Update
<1>7. CASE s.op = "join"
  BY <1>1, <1>2, <1>3, <1>7 DEF Apply, UpdateJoin
<1> QED
  BY <1>1, <1>4, <1>5, <1>6, <1>7

(* With one worker the chunk has, with a row, every row before it.         *)
LEMMA FirstChunk ==
  ASSUME NEW rows, IsFiniteSet(rows), \A r \in rows : r.seq \in Nat, NEW w \in Worker,
         NEW r \in Chunks(rows, 1)[w], NEW q \in rows, q.seq <= r.seq
  PROVE  q \in Chunks(rows, 1)[w]
<1> DEFINE c == Cardinality(rows)
           before(x) == {y \in rows : y.seq < x.seq}
<1>1. c \in Nat \ {0}
  BY FS_CardinalityType, FS_EmptySet
<1>2. Min({1, c}) = 1
  BY <1>1 DEF Min
<1>3. Max({1, 1}) = 1
  BY DEF Max
<1>4. (c + Max({1, Min({1, c})}) - 1) \div Max({1, Min({1, c})}) = c
  <2>1. \A d \in Nat : (d + 1 - 1) \div 1 = d
    OBVIOUS
  <2>2. Max({1, Min({1, c})}) = 1
    BY <1>2, <1>3
  <2>3. (c + 1 - 1) \div 1 = c
    BY <1>1, <2>1
  <2> QED
    BY <2>2, <2>3
<1>5. Chunks(rows, 1)[w] = {x \in rows : Cardinality(before(x)) \div c = w - 1}
  BY <1>4 DEF Chunks, Worker, Position
<1>6. r \in rows /\ Cardinality(before(r)) \div c = w - 1
  BY <1>5
<1>7. IsFiniteSet(before(r)) /\ Cardinality(before(r)) \in Nat
  BY FS_Subset, FS_CardinalityType
<1>8. before(q) \subseteq before(r)
  BY <1>6
<1>9. Cardinality(before(q)) \in Nat /\ Cardinality(before(q)) <= Cardinality(before(r))
  BY <1>7, <1>8, FS_Subset, FS_CardinalityType
<1>10. Cardinality(before(r)) < c
  <2>1. IsFiniteSet(rows \ {r}) /\ Cardinality(rows \ {r}) = c - 1
    BY <1>6, FS_RemoveElement
  <2>2. before(r) \subseteq rows \ {r}
    BY <1>6
  <2>3. Cardinality(before(r)) <= Cardinality(rows \ {r})
    BY <2>1, <2>2, FS_Subset
  <2> QED BY <1>1, <1>7, <2>1, <2>3
<1>11. \A d \in Nat \ {0}, m \in Nat, n \in Nat : m <= n /\ n < d => m \div d = n \div d
  <2> SUFFICES ASSUME NEW d \in Nat \ {0}, NEW m \in Nat, NEW n \in Nat, m <= n, n < d
               PROVE  m \div d = n \div d
    OBVIOUS
  <2>1. n \div d = 0
    OBVIOUS
  <2>2. m < d /\ m \div d = 0
    OBVIOUS
  <2> QED BY <2>1, <2>2
<1>12. Cardinality(before(q)) \div c = Cardinality(before(r)) \div c
  BY <1>1, <1>7, <1>9, <1>10, <1>11
<1> QED
  BY <1>5, <1>6, <1>12

-----------------------------------------------------------------------------
(* A commit on the NAS executes the oldest write that is missing there, or *)
(* repeats the last one and changes nothing.                               *)
LEMMA CommitStep ==
  ASSUME TypeOK, SequentialInv, NEW p \in Proc, NEW w \in Worker, NasCommit(p, w),
         NEW n \in 0..Len(written), AppliedUpTo(n)
  PROVE  \/ /\ n + 1 \in 1..Len(written)
            /\ applied' = 1..(n + 1)
            /\ nas' = Apply(written[n + 1], n + 1, nas)
            /\ \A q \in pending : q.w >= n + 1
         \/ applied' = applied /\ nas' = nas
<1> PICK r \in todo[p][w] :
       /\ IsNext(r, todo[p][w])
       /\ nas' = Apply(written[r.w], r.w, nas)
       /\ applied' = applied \cup {r.w}
  BY DEF NasCommit
<1>1. r \in pending /\ \A q \in pending : q.seq <= r.seq => q \in todo[p][w]
  BY DEF SequentialInv, TodoFromFirst
<1>2. \A q \in pending : q.seq = q.w /\ q.w \in 1..Len(written) /\ q.w >= n
  BY DEF SequentialInv, KeyIsPosition, Live, TypeOK, Row, AppliedUpTo
<1>3. Len(written) \in Nat /\ n \in Nat
  BY DEF TypeOK
<1>4. CASE r.w = n
  <2>1. n \in 1..Len(written) /\ applied' = applied
    BY <1>1, <1>2, <1>4 DEF AppliedUpTo
  <2>2. nas = Apply(written[n], n, prefix[n])
    BY <2>1 DEF AppliedUpTo, SequentialInv, PrefixIsReplay
  <2>3. written[n] \in Stmt /\ prefix[n] \in Table
    BY <2>1, StmtsAssumption DEF TypeOK
  <2>4. nas' = nas
    BY <1>3, <1>4, <2>2, <2>3, ApplyTwice
  <2> QED
    BY <2>1, <2>4
<1>5. CASE r.w # n
  <2>1. r.w > n /\ n + 1 \in 1..Len(written) /\ n + 1 \notin applied
    BY <1>1, <1>2, <1>3, <1>5 DEF AppliedUpTo
  <2> PICK q \in pending : q.w = n + 1
    BY <2>1 DEF SequentialInv, BufferInv, NoLostWrite
  <2>2. q \in todo[p][w]
    BY <1>1, <1>2, <1>3, <2>1
  <2>3. r.w = n + 1
    BY <1>1, <1>2, <1>3, <2>1, <2>2 DEF IsNext
  <2>4. \A x \in pending : x.w >= n + 1
    BY <1>1, <1>2, <1>3, <2>3 DEF IsNext
  <2>5. applied' = 1..(n + 1)
    BY <1>3, <2>3 DEF AppliedUpTo
  <2> QED
    BY <2>1, <2>3, <2>4, <2>5
<1> QED
  BY <1>4, <1>5

LEMMA SequentialStep ==
  ASSUME Sequential, TypeOK, TypeOK', SequentialInv, [Next]_vars
  PROVE  SequentialInv'
<1>1. BufferInv'
  BY BufferStep DEF SequentialInv
<1>2. PICK n \in 0..Len(written) : AppliedUpTo(n)
  BY DEF SequentialInv
<1>3. Worker = {1} /\ Len(written) \in Nat /\ n \in Nat
  BY DEF Sequential, Alone, Worker, TypeOK
<1>4. ASSUME NEW p \in Proc, NEW s \in Stmts, BufferWrite(p, s) PROVE SequentialInv'
  <2> DEFINE i == Len(written) + 1
             new == [seq |-> NextSeq, w |-> i]
  <2>1. /\ written' = Append(written, s) /\ Len(written') = i
        /\ prefix' = Append(prefix, Apply(s, i, prefix[i]))
        /\ pending' = pending \cup {new} /\ lastSeq' = lastSeq + 1
        /\ UNCHANGED <<applied, nas, todo>>
    BY <1>4 DEF BufferWrite, NextSeq, nasVars, procVars, TypeOK
  <2>2. new.seq = i /\ new.w = i /\ lastSeq = Len(written)
    BY DEF NextSeq, SequentialInv, KeyIsPosition
  <2>3. Live' = Live \cup {new}
    BY <2>1 DEF Live
  <2>4. KeyIsPosition'
    BY <2>1, <2>2, <2>3 DEF SequentialInv, KeyIsPosition
  <2>5. \A j \in 1..i : prefix'[j] = prefix[j]
    BY <2>1 DEF TypeOK
  <2>6. prefix'[i + 1] = Apply(s, i, prefix[i])
    BY <1>3, <2>1 DEF TypeOK
  <2>7. \A j \in 1..Len(written) : written'[j] = written[j]
    BY <2>1 DEF TypeOK
  <2>8. written'[i] = s
    BY <1>3, <2>1 DEF TypeOK
  <2>9. PrefixIsReplay'
    <3> SUFFICES ASSUME NEW j \in 1..i
                 PROVE  prefix'[j + 1] = Apply(written'[j], j, prefix'[j])
      BY <2>1 DEF PrefixIsReplay
    <3>1. CASE j = i
      BY <1>3, <2>5, <2>6, <2>8, <3>1
    <3>2. CASE j # i
      <4>1. j \in 1..Len(written) /\ j + 1 \in 1..i
        BY <1>3, <3>2
      <4> QED
        BY <2>5, <2>7, <4>1 DEF SequentialInv, PrefixIsReplay
    <3> QED
      BY <3>1, <3>2
  <2>10. TodoFromFirst'
    <3>1. \A q \in Proc, v \in Worker : \A r \in todo[q][v] : r.seq < new.seq
      BY <1>3, <2>2, LiveType DEF Live
    <3> SUFFICES ASSUME NEW q \in Proc, NEW v \in Worker, NEW r \in todo[q][v]
                 PROVE  /\ r \in pending'
                        /\ \A x \in pending' : x.seq <= r.seq => x \in todo[q][v]
      BY <2>1 DEF TodoFromFirst
    <3>2. r \in pending /\ \A x \in pending : x.seq <= r.seq => x \in todo[q][v]
      BY DEF SequentialInv, TodoFromFirst
    <3>3. r.seq < new.seq /\ r.seq \in Nat /\ new.seq \in Nat
      BY <1>3, <2>2, <3>1, <3>2, LiveType DEF Live
    <3>4. ~ (new.seq <= r.seq)
      BY <3>3
    <3> HIDE DEF new
    <3>5. r \in pending'
      BY <2>1, <3>2
    <3>6. ASSUME NEW x \in pending', x.seq <= r.seq PROVE x \in todo[q][v]
      <4>1. x \in pending
        BY <2>1, <3>4, <3>6
      <4> QED
        BY <3>2, <3>6, <4>1
    <3> QED
      BY <3>5, <3>6
  <2>11. AppliedUpTo(n)'
    <3> HIDE DEF new
    <3>1. n + 1 \in 1..i
      BY <1>3
    <3>2. nas' = prefix'[n + 1] /\ applied' = 1..n
      BY <1>2, <2>1, <2>5, <3>1 DEF AppliedUpTo
    <3>3. \A r \in pending : r.w >= n
      BY <1>2 DEF AppliedUpTo
    <3>4. new.w >= n
      BY <1>3, <2>2
    <3>5. \A r \in pending' : r.w >= n
      BY <2>1, <3>3, <3>4
    <3> QED
      BY <3>2, <3>5 DEF AppliedUpTo
  <2>12. IsFiniteSet(pending')
    BY <2>1, FS_AddElement DEF SequentialInv
  <2>13. n \in 0..Len(written')
    BY <1>3, <2>1
  <2> QED
    BY <1>1, <2>4, <2>9, <2>10, <2>11, <2>12, <2>13 DEF SequentialInv
<1>5. ASSUME UNCHANGED <<fileVars, nasVars>>, TodoFromFirst', Live' \subseteq Live
      PROVE  SequentialInv'
  <2>1. KeyIsPosition' /\ PrefixIsReplay' /\ IsFiniteSet(pending')
    BY <1>5 DEF fileVars, SequentialInv, KeyIsPosition, PrefixIsReplay
  <2>2. n \in 0..Len(written') /\ AppliedUpTo(n)'
    BY <1>2, <1>5 DEF fileVars, nasVars, AppliedUpTo
  <2> QED
    BY <1>1, <1>5, <2>1, <2>2 DEF SequentialInv
<1>6. ASSUME NEW p \in Proc, BeginFlush(p, 1) PROVE SequentialInv'
  <2>1. todo' = [todo EXCEPT ![p] = Chunks(pending, 1)] /\ UNCHANGED <<fileVars, nasVars>>
    BY <1>6 DEF BeginFlush
  <2>2. \A q \in Proc : q = p
    BY DEF Sequential, Alone
  <2>3. todo'[p][1] = Chunks(pending, 1)[1] /\ Chunks(pending, 1)[1] \subseteq pending
    BY <1>3, <2>1, ChunksType DEF TypeOK
  <2>4. \A r \in pending : r.seq \in Nat
    BY LiveType DEF Live
  <2>5. TodoFromFirst'
    <3> SUFFICES ASSUME NEW r \in Chunks(pending, 1)[1], NEW q \in pending, q.seq <= r.seq
                 PROVE  q \in Chunks(pending, 1)[1]
      BY <1>3, <2>1, <2>2, <2>3 DEF TodoFromFirst, fileVars
    <3> QED
      BY <2>4, FirstChunk DEF SequentialInv, Sequential, Worker
  <2>6. Live' \subseteq Live
    BY <1>3, <2>1, <2>2, <2>3 DEF Live, fileVars
  <2> QED
    BY <1>5, <2>1, <2>5, <2>6
<1>7. ASSUME NEW p \in Proc, NEW w \in Worker, NasCommit(p, w) PROVE SequentialInv'
  <2>1. UNCHANGED <<fileVars, todo>>
    BY <1>7 DEF NasCommit
  <2>2. KeyIsPosition' /\ PrefixIsReplay' /\ TodoFromFirst' /\ IsFiniteSet(pending')
    BY <2>1 DEF fileVars, SequentialInv, KeyIsPosition, PrefixIsReplay, TodoFromFirst, Live
  <2>3. \E m \in 0..Len(written') : AppliedUpTo(m)'
    <3>1. CASE applied' = applied /\ nas' = nas
      BY <1>2, <2>1, <3>1 DEF AppliedUpTo, fileVars
    <3>2. CASE /\ n + 1 \in 1..Len(written)
               /\ applied' = 1..(n + 1)
               /\ nas' = Apply(written[n + 1], n + 1, nas)
               /\ \A q \in pending : q.w >= n + 1
      <4>1. nas' = prefix[n + 2]
        BY <1>2, <1>3, <3>2 DEF AppliedUpTo, SequentialInv, PrefixIsReplay
      <4>2. AppliedUpTo(n + 1)'
        BY <1>3, <2>1, <3>2, <4>1 DEF AppliedUpTo, fileVars
      <4>3. n + 1 \in 0..Len(written')
        BY <1>3, <2>1, <3>2 DEF fileVars
      <4> QED
        BY <4>2, <4>3
    <3> QED
      BY <1>2, <1>7, <3>1, <3>2, CommitStep
  <2> QED
    BY <1>1, <2>2, <2>3 DEF SequentialInv
<1>8. ASSUME NEW p \in Proc, NEW w \in Worker, LocalDelete(p, w) PROVE SequentialInv'
  <2> PICK r \in todo[p][w] :
         /\ IsNext(r, todo[p][w])
         /\ pending' = {q \in pending : q.seq # r.seq}
         /\ todo' = [todo EXCEPT ![p][w] = @ \ {r}]
    BY <1>8 DEF LocalDelete
  <2>1. UNCHANGED <<written, prefix, lastSeq, applied, nas>>
    BY <1>8 DEF LocalDelete, nasVars
  <2>2. w = 1 /\ \A q \in Proc : q = p
    BY <1>3 DEF Sequential, Alone
  <2>3. todo'[p][w] = todo[p][w] \ {r}
    BY DEF TypeOK
  <2>4. Live' \subseteq Live
    BY <1>3, <2>2, <2>3 DEF Live
  <2>5. KeyIsPosition' /\ PrefixIsReplay'
    BY <2>1, <2>4 DEF SequentialInv, KeyIsPosition, PrefixIsReplay
  <2>6. \A x \in todo'[p][w] : x.seq # r.seq
    BY <2>3 DEF SequentialInv, BufferInv, OneRowPerKey, Live
  <2>7. TodoFromFirst'
    BY <1>3, <2>2, <2>3, <2>6 DEF SequentialInv, TodoFromFirst
  <2>8. AppliedUpTo(n)'
    BY <1>2, <2>1 DEF AppliedUpTo
  <2>9. IsFiniteSet(pending')
    BY FS_Subset DEF SequentialInv
  <2> QED
    BY <1>1, <2>1, <2>5, <2>7, <2>8, <2>9 DEF SequentialInv
<1>9. ASSUME UNCHANGED <<fileVars, nasVars>>,
             \A q \in Proc, v \in Worker : todo'[q][v] = todo[q][v] \/ todo'[q][v] = {}
      PROVE  SequentialInv'
  <2>1. Live' \subseteq Live
    BY <1>9 DEF Live, fileVars
  <2>2. TodoFromFirst'
    BY <1>9 DEF SequentialInv, TodoFromFirst, fileVars
  <2> QED
    BY <1>5, <1>9, <2>1, <2>2
<1>10. ASSUME NEW p \in Proc, NEW w \in Worker, WorkerFails(p, w) PROVE SequentialInv'
  <2>1. \A q \in Proc, v \in Worker : todo'[q][v] = todo[q][v] \/ todo'[q][v] = {}
    BY <1>10 DEF WorkerFails, TypeOK
  <2> QED
    BY <1>9, <1>10, <2>1 DEF WorkerFails
<1>11. ASSUME NEW p \in Proc, Crash(p) PROVE SequentialInv'
  <2>1. \A q \in Proc, v \in Worker : todo'[q][v] = todo[q][v] \/ todo'[q][v] = {}
    BY <1>11 DEF Crash, Idle, TypeOK
  <2> QED
    BY <1>9, <1>11, <2>1 DEF Crash
<1>12. CASE UNCHANGED vars
  BY <1>9, <1>12 DEF vars, procVars
<1> QED
  BY <1>3, <1>4, <1>6, <1>7, <1>8, <1>9, <1>10, <1>11, <1>12
  DEF Next, StartFetch, FetchFails, FetchDone, FlushCommand, FlushEnds

LEMMA SequentialInit ==
  ASSUME Init
  PROVE  SequentialInv
<1>1. Live = {} /\ pending = {} /\ Len(written) = 0
  BY DEF Init, Live, Idle
<1>2. BufferInv
  BY <1>1 DEF Init, BufferInv, OneRowPerKey, CommittedIsApplied, NoLostWrite
<1>3. KeyIsPosition /\ PrefixIsReplay /\ TodoFromFirst
  BY <1>1 DEF Init, KeyIsPosition, PrefixIsReplay, TodoFromFirst, Idle
<1>4. AppliedUpTo(0)
  BY <1>1 DEF Init, AppliedUpTo
<1>5. IsFiniteSet(pending)
  BY <1>1, FS_EmptySet
<1> QED
  BY <1>1, <1>2, <1>3, <1>4, <1>5 DEF SequentialInv

THEOREM SequentialInvariant ==
  ASSUME Sequential
  PROVE  Spec => []SequentialInv
<1>1. Init => SequentialInv
  BY SequentialInit
<1>2. TypeOK /\ TypeOK' /\ SequentialInv /\ [Next]_vars => SequentialInv'
  BY SequentialStep
<1> QED
  BY <1>1, <1>2, TypeCorrect, PTL DEF Spec

(* The NAS is always what executing a prefix of the writes directly would  *)
(* have left, whatever fails between the two commits of a row.             *)
THEOREM NasIsPrefix ==
  ASSUME Sequential
  PROVE  Spec => []PrefixConsistent
<1>1. SequentialInv => PrefixConsistent
  BY DEF SequentialInv, AppliedUpTo, PrefixConsistent
<1> QED
  BY <1>1, SequentialInvariant, PTL

(* No statement that the NAS rejects is ever counted as delivered.         *)
AppliedIsAccepted == \A i \in applied : written[i] \notin Poison

LEMMA AcceptedStep ==
  ASSUME TypeOK, AppliedIsAccepted, [Next]_vars
  PROVE  AppliedIsAccepted'
<1>1. ASSUME NEW p \in Proc, NEW s \in Stmts, BufferWrite(p, s) PROVE AppliedIsAccepted'
  <2>1. written' = Append(written, s) /\ applied' = applied
    BY <1>1 DEF BufferWrite, nasVars
  <2>2. \A i \in applied : written'[i] = written[i]
    BY <2>1 DEF TypeOK
  <2> QED
    BY <2>1, <2>2 DEF AppliedIsAccepted
<1>2. ASSUME NEW p \in Proc, NEW w \in Worker, NasCommit(p, w) PROVE AppliedIsAccepted'
  BY <1>2 DEF NasCommit, fileVars, AppliedIsAccepted
<1>3. CASE UNCHANGED <<written, applied>>
  BY <1>3 DEF AppliedIsAccepted
<1> QED
  BY <1>1, <1>2, <1>3
  DEF Next, StartFetch, FetchFails, FetchDone, FlushCommand, BeginFlush, LocalDelete,
      WorkerFails, FlushEnds, Crash, vars, fileVars, nasVars

(* A sequential flush never gets past a statement that the NAS rejects, on *)
(* any of its retries, and nothing issued later overtakes it.              *)
THEOREM RejectedStops ==
  ASSUME Sequential
  PROVE  Spec => []PoisonNotSkipped
<1>1. Init => AppliedIsAccepted
  BY DEF Init, AppliedIsAccepted
<1>2. TypeOK /\ AppliedIsAccepted /\ [Next]_vars => AppliedIsAccepted'
  BY AcceptedStep
<1>3. TypeOK /\ AppliedIsAccepted /\ PrefixConsistent => PoisonNotSkipped
  <2> SUFFICES ASSUME TypeOK, AppliedIsAccepted, NEW n \in 0..Len(written), applied = 1..n,
                      NEW i \in applied, NEW j \in 1..Len(written), j <= i
               PROVE  written[j] \notin Poison
    BY DEF PrefixConsistent, PoisonNotSkipped
  <2>1. Len(written) \in Nat
    BY DEF TypeOK
  <2>2. j \in applied
    BY <2>1
  <2> QED
    BY <2>2 DEF AppliedIsAccepted
<1> QED
  BY <1>1, <1>2, <1>3, TypeCorrect, NasIsPrefix, PTL DEF Spec
-----------------------------------------------------------------------------
(* A step of the buffer is a step of the queue, or none.                   *)
LEMMA QueueStep ==
  ASSUME TypeOK, SequentialInv, [Next]_vars
  PROVE  [Queue!QNext]_Queue!queueVars
<1> USE DEF Queue!QNext, Queue!queueVars
<1>1. ASSUME NEW p \in Proc, NEW s \in Stmts, BufferWrite(p, s)
      PROVE  [Queue!QNext]_Queue!queueVars
  <2>1. s \in Queue!Stmt
    BY StmtsAssumption DEF Stmt, Queue!Stmt
  <2>2. Queue!Accept(s)
    BY <1>1 DEF BufferWrite, nasVars, Queue!Accept
  <2> QED
    BY <2>1, <2>2
<1>2. ASSUME NEW p \in Proc, NEW w \in Worker, NasCommit(p, w)
      PROVE  [Queue!QNext]_Queue!queueVars
  <2>1. PICK n \in 0..Len(written) : AppliedUpTo(n)
    BY DEF SequentialInv
  <2>2. written' = written
    BY <1>2 DEF NasCommit, fileVars
  <2>3. CASE applied' = applied /\ nas' = nas
    BY <2>2, <2>3
  <2>4. CASE /\ n + 1 \in 1..Len(written)
             /\ applied' = 1..(n + 1)
             /\ nas' = Apply(written[n + 1], n + 1, nas)
    <3>1. applied = 1..n /\ n \in Nat
      BY <2>1 DEF AppliedUpTo
    <3>2. applied' = applied \cup {n + 1} /\ n + 1 \notin applied
      BY <2>4, <3>1
    <3>3. \A j \in 1..(n + 1 - 1) : j \in applied
      BY <3>1
    <3>4. nas' = Queue!Apply(written[n + 1], n + 1, nas)
      BY <2>4 DEF Apply, Upsert, InsertIgnore, Update, UpdateJoin, Absent,
                  Queue!Apply, Queue!Upsert, Queue!InsertIgnore, Queue!Update,
                  Queue!UpdateJoin, Queue!Absent
    <3>5. Queue!Deliver(n + 1)
      BY <2>2, <3>2, <3>3, <3>4 DEF Queue!Deliver
    <3> QED
      BY <2>4, <3>5
  <2> QED
    BY <1>2, <2>1, <2>3, <2>4, CommitStep
<1>3. CASE UNCHANGED <<written, applied, nas>>
  BY <1>3
<1> QED
  BY <1>1, <1>2, <1>3
  DEF Next, StartFetch, FetchFails, FetchDone, FlushCommand, BeginFlush, LocalDelete,
      WorkerFails, FlushEnds, Crash, vars, fileVars, nasVars

(* The buffer delivers each statement, in the order they were issued, and  *)
(* changes nothing else on the NAS.                                        *)
THEOREM BufferIsQueue ==
  ASSUME Sequential
  PROVE  Spec => ImplementsQueue
<1>1. Init => Queue!QInit
  BY DEF Init, Queue!QInit, EmptyTable, Queue!EmptyTable, Absent, Queue!Absent
<1>2. TypeOK /\ SequentialInv /\ [Next]_vars => [Queue!QNext]_Queue!queueVars
  BY QueueStep
<1> QED
  BY <1>1, <1>2, TypeCorrect, SequentialInvariant, PTL
  DEF Spec, ImplementsQueue, Queue!QSpec
-----------------------------------------------------------------------------
(***************************************************************************)
(* Flushes with several workers on rows that do not depend on one another. *)
(* The rows are executed in any order, some of them twice; what the        *)
(* waiting rows would leave in the end does not change.                    *)
(***************************************************************************)

(* What a statement makes of its key, which depends only on the rows it    *)
(* touches.                                                                *)
Cell(s, i, t) == Apply(s, i, t)[s.key]

LEMMA ApplyIsLocal ==
  ASSUME NEW s \in Stmt, NEW i \in Nat, NEW t \in Table
  PROVE  Apply(s, i, t) = [t EXCEPT ![s.key] = Cell(s, i, t)]
<1>1. s.op \in {"upsert", "ignore", "update", "join"} /\ s.key \in Key
  BY DEF Stmt
<1>2. t = [k \in Key |-> t[k]] /\ t[s.key].val \in Nat
  BY <1>1 DEF Table
<1>3. CASE s.op = "upsert"
  BY <1>1, <1>2, <1>3 DEF Cell, Apply, Upsert
<1>4. CASE s.op = "ignore"
  BY <1>1, <1>2, <1>4 DEF Cell, Apply, InsertIgnore, Upsert
<1>5. CASE s.op = "update"
  BY <1>1, <1>2, <1>5 DEF Cell, Apply, Update
<1>6. CASE s.op = "join"
  BY <1>1, <1>2, <1>6 DEF Cell, Apply, UpdateJoin
<1> QED BY <1>1, <1>3, <1>4, <1>5, <1>6

LEMMA CellIsLocal ==
  ASSUME NEW s \in Stmt, NEW i \in Nat, NEW t \in Table, NEW u \in Table,
         \A k \in Touches(s) : t[k] = u[k]
  PROVE  Cell(s, i, t) = Cell(s, i, u)
<1>1. s.op \in {"upsert", "ignore", "update", "join"} /\ s.key \in Key /\ s.src \in Key
  BY DEF Stmt
<1>2. t[s.key] = u[s.key] /\ (s.op = "join" => t[s.src] = u[s.src])
  BY DEF Touches
<1>3. t = [k \in Key |-> t[k]] /\ u = [k \in Key |-> u[k]]
  BY DEF Table
<1>4. CASE s.op = "upsert"
  BY <1>1, <1>2, <1>3, <1>4 DEF Cell, Apply, Upsert
<1>5. CASE s.op = "ignore"
  BY <1>1, <1>2, <1>3, <1>5 DEF Cell, Apply, InsertIgnore, Upsert
<1>6. CASE s.op = "update"
  BY <1>1, <1>2, <1>3, <1>6 DEF Cell, Apply, Update
<1>7. CASE s.op = "join"
  BY <1>1, <1>2, <1>3, <1>7 DEF Cell, Apply, UpdateJoin
<1> QED BY <1>1, <1>4, <1>5, <1>6, <1>7

(* Statements that do not depend on one another may change places.         *)
LEMMA ApplyCommutes ==
  ASSUME NEW s \in Stmt, NEW u \in Stmt, NEW i \in Nat, NEW j \in Nat, NEW t \in Table,
         Independent(s, u)
  PROVE  Apply(s, i, Apply(u, j, t)) = Apply(u, j, Apply(s, i, t))
<1> DEFINE a == Apply(s, i, t)
           b == Apply(u, j, t)
<1>1. /\ s.key \in Key /\ s.key \in Touches(s) /\ u.key \in Key /\ u.key \in Touches(u)
      /\ Touches(s) \cap Touches(u) = {}
  BY DEF Stmt, Touches, Independent
<1>2. a \in Table /\ b \in Table
  BY ApplyType
<1>3. /\ a = [t EXCEPT ![s.key] = Cell(s, i, t)]
      /\ b = [t EXCEPT ![u.key] = Cell(u, j, t)]
  BY ApplyIsLocal
<1>4. t = [k \in Key |-> t[k]]
  BY DEF Table
<1> HIDE DEF a, b
<1>5. Touches(s) \subseteq Key /\ Touches(u) \subseteq Key
  BY DEF Stmt, Touches
<1>6. \A k \in Touches(s) : b[k] = t[k]
  BY <1>1, <1>3, <1>4, <1>5
<1>7. \A k \in Touches(u) : a[k] = t[k]
  BY <1>1, <1>3, <1>4, <1>5
<1>8. Cell(s, i, b) = Cell(s, i, t) /\ Cell(u, j, a) = Cell(u, j, t)
  BY <1>2, <1>6, <1>7, CellIsLocal
<1>9. Apply(s, i, b) = [b EXCEPT ![s.key] = Cell(s, i, t)]
  BY <1>2, <1>8, ApplyIsLocal
<1>10. Apply(u, j, a) = [a EXCEPT ![u.key] = Cell(u, j, t)]
  BY <1>2, <1>8, ApplyIsLocal
<1>11. s.key # u.key
  BY <1>1
<1>12. Apply(s, i, b) = Apply(u, j, a)
  <2>1. a = [k \in Key |-> IF k = s.key THEN Cell(s, i, t) ELSE t[k]]
    BY <1>3, <1>4
  <2>2. b = [k \in Key |-> IF k = u.key THEN Cell(u, j, t) ELSE t[k]]
    BY <1>3, <1>4
  <2>3. Apply(s, i, b) = [k \in Key |-> IF k = s.key THEN Cell(s, i, t) ELSE b[k]]
    BY <1>9, <2>2
  <2>4. Apply(u, j, a) = [k \in Key |-> IF k = u.key THEN Cell(u, j, t) ELSE a[k]]
    BY <1>10, <2>1
  <2>5. \A k \in Key : (IF k = s.key THEN Cell(s, i, t) ELSE b[k])
                       = (IF k = u.key THEN Cell(u, j, t) ELSE a[k])
    BY <1>11, <2>1, <2>2
  <2> QED BY <2>3, <2>4, <2>5, Zenon
<1> QED BY <1>12 DEF a, b

(* What executing the i-th write makes of the tables.                      *)
Does(i, t) == Apply(written[i], i, t)

(* The tables that the rows waiting in the buffer will leave one after the *)
(* other: f[i] is the NAS when the waiting writes before the i-th one have *)
(* been executed, and in the end it is what all writes in their order      *)
(* would have left.  A row that a worker has committed and not deleted     *)
(* will change none of the tables before it.                               *)
Replays(f) ==
  /\ f \in [1..Len(written) + 1 -> Table]
  /\ f[1] = nas /\ f[Len(written) + 1] = prefix[Len(written) + 1]
  /\ \A r \in pending : f[r.w + 1] = Does(r.w, f[r.w])
  /\ \A i, j \in 1..Len(written) + 1 :
       i <= j /\ (\A r \in pending : ~ (i <= r.w /\ r.w < j)) => f[i] = f[j]
  /\ \A p \in Proc : \A w \in committed[p] : \A r \in todo[p][w] :
       IsNext(r, todo[p][w]) => \A i \in 1..r.w : Does(r.w, f[i]) = f[i]

(* The rows of a flush are waiting, each with one worker, and either they  *)
(* do not depend on one another or they are taken from the first one on.   *)
ReplayInv ==
  /\ KeyIsPosition
  /\ IsFiniteSet(pending)
  /\ \A p \in Proc : \A w \in Worker : todo[p][w] \subseteq pending
  /\ \A p \in Proc : \A v, w \in Worker : v # w => todo[p][v] \cap todo[p][w] = {}
  /\ \A p \in Proc : phase[p] # "flush" => todo[p] = Idle
  /\ \A p \in Proc : phase[p] = "flush" => PendingIndependent \/ TodoFromFirst
  /\ \E f : Replays(f)

(* Nothing is waiting at first.                                            *)
LEMMA ReplayInit ==
  ASSUME Init
  PROVE  ReplayInv
<1>1. /\ written = <<>> /\ prefix = <<EmptyTable>> /\ nas = EmptyTable /\ pending = {}
      /\ lastSeq = 0 /\ \A p \in Proc : phase[p] = "off" /\ todo[p] = Idle /\ committed[p] = {}
      /\ Len(written) = 0
  BY DEF Init
<1>2. \A p \in Proc, w \in Worker : todo[p][w] = {}
  BY <1>1 DEF Idle
<1>3. KeyIsPosition
  BY <1>1, <1>2 DEF KeyIsPosition, Live
<1>4. EmptyTable \in Table
  BY DEF EmptyTable, Table, Absent
<1> DEFINE f == [i \in 1..1 |-> EmptyTable]
<1>5. Replays(f)
  <2>1. f \in [1..Len(written) + 1 -> Table] /\ f[1] = EmptyTable
    BY <1>1, <1>4
  <2>2. prefix[Len(written) + 1] = EmptyTable /\ Len(written) + 1 = 1
    BY <1>1
  <2>3. \A i, j \in 1..Len(written) + 1 : f[i] = f[j]
    BY <1>1
  <2> HIDE DEF f
  <2> QED BY <1>1, <2>1, <2>2, <2>3 DEF Replays
<1>6. IsFiniteSet(pending)
  BY <1>1, FS_EmptySet
<1> QED BY <1>1, <1>2, <1>3, <1>5, <1>6 DEF ReplayInv

(* The rows that are waiting.                                              *)
LEMMA WaitingIs ==
  ASSUME TypeOK, ReplayInv, NEW r \in pending
  PROVE  /\ r.seq = r.w /\ r.w \in 1..Len(written) /\ r \in Row
         /\ written[r.w] \in Stmt /\ r.w \in Nat
         /\ \A q \in pending : q.w = r.w => q = r
<1>1. r \in Row /\ pending \subseteq Row
  BY DEF TypeOK
<1>2. r.seq = r.w /\ \A q \in pending : q.seq = q.w
  BY DEF ReplayInv, KeyIsPosition, Live
<1>3. r.w \in 1..Len(written) /\ r.w \in Nat
  BY <1>1 DEF Row, TypeOK
<1>4. written[r.w] \in Stmt
  BY <1>3, StmtsAssumption DEF TypeOK
<1>5. \A q \in pending : q.w = r.w => q = r
  BY <1>1, <1>2 DEF Row
<1> QED BY <1>1, <1>2, <1>3, <1>4, <1>5

(* Steps that only end something: the file and the NAS stay.               *)
LEMMA ReplayKept ==
  ASSUME TypeOK, ReplayInv, UNCHANGED <<fileVars, nasVars>>,
         \A p \in Proc, w \in Worker : todo'[p][w] = todo[p][w] \/ todo'[p][w] = {},
         \A p \in Proc : \A w \in committed'[p] :
           w \in Worker /\ (w \in committed[p] \/ todo'[p][w] = {}),
         \A p \in Proc : phase'[p] # "flush" => todo'[p] = Idle,
         \A p \in Proc : phase'[p] = "flush" => phase[p] = "flush"
  PROVE  ReplayInv'
<1>1. /\ written' = written /\ prefix' = prefix /\ pending' = pending
      /\ lastSeq' = lastSeq /\ nas' = nas
  BY DEF fileVars, nasVars
<1>2. KeyIsPosition'
  <2>1. Live' \subseteq Live
    BY <1>1 DEF Live
  <2> QED BY <1>1, <2>1 DEF ReplayInv, KeyIsPosition
<1>3. PICK f : Replays(f)
  BY DEF ReplayInv
<1>4. Replays(f)'
  <2>1. \A p \in Proc : \A w \in committed'[p] : \A r \in todo'[p][w] :
          w \in committed[p] /\ todo'[p][w] = todo[p][w]
    OBVIOUS
  <2>2. \A i, t : Does(i, t)' = Does(i, t)
    BY <1>1 DEF Does
  <2>3. \A p \in Proc : \A w \in committed'[p] : \A r \in todo'[p][w] :
          IsNext(r, todo'[p][w]) => \A i \in 1..r.w : Does(r.w, f[i]) = f[i]
    BY <1>3, <2>1 DEF Replays
  <2> QED BY <1>1, <1>3, <2>2, <2>3 DEF Replays, Does, IsNext
<1>5. \A p \in Proc : phase'[p] = "flush" => PendingIndependent' \/ TodoFromFirst'
  <2>1. PendingIndependent => PendingIndependent'
    BY <1>1 DEF PendingIndependent
  <2>2. TodoFromFirst => TodoFromFirst'
    BY <1>1 DEF TodoFromFirst
  <2> QED BY <2>1, <2>2 DEF ReplayInv
<1>6. /\ \A p \in Proc : \A w \in Worker : todo'[p][w] \subseteq pending'
      /\ \A p \in Proc : \A v, w \in Worker : v # w => todo'[p][v] \cap todo'[p][w] = {}
  <2>1. \A p \in Proc, w \in Worker : todo'[p][w] \subseteq todo[p][w]
    OBVIOUS
  <2> QED BY <1>1, <2>1 DEF ReplayInv
<1> QED BY <1>1, <1>2, <1>4, <1>5, <1>6 DEF ReplayInv

(* A statement is issued: one more table after the last one.               *)
LEMMA ReplayWrite ==
  ASSUME Alone, TypeOK, TypeOK', ReplayInv,
         NEW p \in Proc, NEW s \in Stmts, BufferWrite(p, s)
  PROVE  ReplayInv'
<1> DEFINE n   == Len(written)
           new == [seq |-> n + 1, w |-> n + 1]
<1>1. lastSeq = n /\ n \in Nat /\ s \in Stmt
  BY StmtsAssumption DEF ReplayInv, KeyIsPosition, TypeOK
<1>2. /\ written' = Append(written, s) /\ Len(written') = n + 1
      /\ prefix' = Append(prefix, Apply(s, n + 1, prefix[n + 1]))
      /\ pending' = pending \cup {new} /\ lastSeq' = n + 1
      /\ nas' = nas /\ todo' = todo /\ committed' = committed /\ phase' = phase
  BY <1>1 DEF BufferWrite, NextSeq, nasVars, procVars, TypeOK
<1>3. /\ \A i \in 1..n : written'[i] = written[i]
      /\ written'[n + 1] = s
      /\ Len(prefix) = n + 1
      /\ prefix'[n + 2] = Apply(s, n + 1, prefix[n + 1])
  BY <1>1, <1>2 DEF TypeOK
<1>4. \A q \in Proc : phase[q] = "fetch" /\ todo[q] = Idle
  BY DEF BufferWrite, Alone, ReplayInv
<1>5. \A q \in Proc, w \in Worker : todo[q][w] = {}
  BY <1>4 DEF Idle
<1>6. KeyIsPosition'
  <2>1. Live' = Live \cup {new}
    BY <1>2 DEF Live
  <2> QED BY <1>2, <2>1 DEF ReplayInv, KeyIsPosition
<1>7. PICK f : Replays(f)
  BY DEF ReplayInv
<1> PICK g : g = [i \in 1..n + 2 |-> IF i = n + 2 THEN Apply(s, n + 1, f[n + 1])
                                     ELSE f[i]]
  OBVIOUS
<1>8. f \in [1..n + 1 -> Table] /\ f[1] = nas /\ f[n + 1] = prefix[n + 1]
  BY <1>7 DEF Replays
<1>9. /\ g \in [1..Len(written') + 1 -> Table]
      /\ \A i \in 1..n + 1 : g[i] = f[i]
      /\ g[n + 2] = Apply(s, n + 1, f[n + 1])
  <2>1. Apply(s, n + 1, f[n + 1]) \in Table
    BY <1>1, <1>8, ApplyType
  <2>2. Len(written') + 1 = n + 2
    BY <1>1, <1>2
  <2> QED BY <1>1, <1>8, <2>1, <2>2
<1>10. g[1] = nas' /\ g[Len(written') + 1] = prefix'[Len(written') + 1]
  BY <1>1, <1>2, <1>3, <1>8, <1>9
<1>11. \A r \in pending' : g[r.w + 1] = Apply(written'[r.w], r.w, g[r.w])
  <2>1. ASSUME NEW r \in pending PROVE g[r.w + 1] = Apply(written'[r.w], r.w, g[r.w])
    <3>1. r.w \in 1..n /\ r.w + 1 \in 1..n + 1 /\ r.w \in 1..n + 1
      BY <1>1, WaitingIs
    <3>2. f[r.w + 1] = Apply(written[r.w], r.w, f[r.w])
      BY <1>7 DEF Replays, Does
    <3> QED BY <1>3, <1>9, <3>1, <3>2
  <2>2. g[new.w + 1] = Apply(written'[new.w], new.w, g[new.w])
    BY <1>1, <1>3, <1>9
  <2> HIDE DEF new
  <2> QED BY <1>2, <2>1, <2>2
<1>12. ASSUME NEW i \in 1..n + 2, NEW j \in 1..n + 2, i <= j,
              \A r \in pending' : ~ (i <= r.w /\ r.w < j)
       PROVE  g[i] = g[j]
  <2>1. ~ (i <= n + 1 /\ n + 1 < j)
    <3>1. new \in pending' /\ new.w = n + 1
      BY <1>2
    <3> QED BY <3>1, <1>12
  <2>2. CASE i = n + 2
    BY <1>1, <1>12, <2>2
  <2>3. CASE i # n + 2
    <3>1. i \in 1..n + 1 /\ j \in 1..n + 1
      BY <1>1, <2>1, <2>3
    <3>2. \A r \in pending : ~ (i <= r.w /\ r.w < j)
      BY <1>2, <1>12
    <3>3. f[i] = f[j]
      BY <1>7, <1>12, <3>1, <3>2 DEF Replays
    <3> QED BY <1>9, <3>1, <3>3
  <2> QED BY <2>2, <2>3
<1>13. Replays(g)'
  <2>1. Len(written') + 1 = n + 2
    BY <1>1, <1>2
  <2>2. \A i, j \in 1..Len(written') + 1 :
          i <= j /\ (\A r \in pending' : ~ (i <= r.w /\ r.w < j)) => g[i] = g[j]
    BY <1>12, <2>1
  <2>3. \A q \in Proc : \A w \in committed'[q] : todo'[q][w] = {}
    BY <1>2, <1>5 DEF TypeOK
  <2> QED BY <1>9, <1>10, <1>11, <2>2, <2>3 DEF Replays, Does
<1>14. IsFiniteSet(pending')
  BY <1>2, FS_AddElement DEF ReplayInv
<1>15. /\ \A q \in Proc : \A w \in Worker : todo'[q][w] \subseteq pending'
       /\ \A q \in Proc : \A v, w \in Worker : v # w => todo'[q][v] \cap todo'[q][w] = {}
       /\ \A q \in Proc : phase'[q] # "flush" /\ todo'[q] = Idle
  BY <1>2, <1>4, <1>5
<1> QED BY <1>6, <1>13, <1>14, <1>15 DEF ReplayInv

(* A flush begins: with one worker it takes the rows from the first one    *)
(* on, and with several they do not depend on one another.                 *)
LEMMA ReplayBegin ==
  ASSUME Alone, TypeOK, ReplayInv, NEW p \in Proc, NEW n \in Worker,
         n = 1 \/ PendingIndependent, BeginFlush(p, n)
  PROVE  ReplayInv'
<1>1. /\ todo' = [todo EXCEPT ![p] = Chunks(pending, n)]
      /\ committed' = [committed EXCEPT ![p] = {}]
      /\ written' = written /\ prefix' = prefix /\ pending' = pending
      /\ lastSeq' = lastSeq /\ nas' = nas
      /\ phase' = [phase EXCEPT ![p] = "flush"]
  BY DEF BeginFlush, fileVars, nasVars
<1>2. \A q \in Proc : q = p
  BY DEF Alone
<1>3. /\ todo'[p] = Chunks(pending, n) /\ committed'[p] = {} /\ phase'[p] = "flush"
  BY <1>1 DEF TypeOK
<1>4. \A w \in Worker : todo'[p][w] \subseteq pending
  BY <1>3, ChunksType
<1>5. \A v, w \in Worker : v # w => todo'[p][v] \cap todo'[p][w] = {}
  <2> SUFFICES ASSUME NEW v \in Worker, NEW w \in Worker, v # w,
                      NEW r \in Chunks(pending, n)[v] \cap Chunks(pending, n)[w]
               PROVE  FALSE
    BY <1>3
  <2> DEFINE workers == Max({1, Min({n, Cardinality(pending)})})
             size    == (Cardinality(pending) + workers - 1) \div workers
  <2>1. Chunks(pending, n) =
          [u \in Worker |-> {x \in pending : Position(x, pending) \div size = u - 1}]
    BY DEF Chunks
  <2> HIDE DEF size
  <2>2. Position(r, pending) \div size = v - 1 /\ Position(r, pending) \div size = w - 1
    BY <2>1
  <2>3. v - 1 = w - 1 /\ v \in Int /\ w \in Int
    BY <2>2 DEF Worker
  <2> QED BY <2>3
<1>6. KeyIsPosition'
  <2>1. Live' \subseteq Live
    BY <1>1, <1>2, <1>4 DEF Live
  <2> QED BY <1>1, <2>1 DEF ReplayInv, KeyIsPosition
<1>7. PendingIndependent' \/ TodoFromFirst'
  <2>1. CASE PendingIndependent
    BY <1>1, <2>1 DEF PendingIndependent
  <2>2. CASE n = 1
    <3>1. \A r \in pending : r.seq \in Nat
      BY WaitingIs
    <3>2. IsFiniteSet(pending)
      BY DEF ReplayInv
    <3>3. \A w \in Worker : \A r \in todo'[p][w] :
            r \in pending /\ \A q \in pending : q.seq <= r.seq => q \in todo'[p][w]
      BY <1>3, <1>4, <2>2, <3>1, <3>2, FirstChunk
    <3> QED BY <1>1, <1>2, <3>3 DEF TodoFromFirst
  <2> QED BY <2>1, <2>2
<1>8. PICK f : Replays(f)
  BY DEF ReplayInv
<1>9. Replays(f)'
  <2>1. \A q \in Proc : committed'[q] = {}
    BY <1>2, <1>3
  <2> QED BY <1>1, <1>8, <2>1 DEF Replays, Does
<1>10. IsFiniteSet(pending') /\ \A q \in Proc : phase'[q] = "flush"
  BY <1>1, <1>2, <1>3 DEF ReplayInv
<1>11. /\ \A q \in Proc : \A w \in Worker : todo'[q][w] \subseteq pending'
       /\ \A q \in Proc : \A v, w \in Worker : v # w => todo'[q][v] \cap todo'[q][w] = {}
  <2> SUFFICES ASSUME NEW q \in Proc
               PROVE  /\ \A w \in Worker : todo'[q][w] \subseteq pending'
                      /\ \A v, w \in Worker : v # w => todo'[q][v] \cap todo'[q][w] = {}
    OBVIOUS
  <2>1. q = p /\ pending' = pending
    BY <1>1, <1>2
  <2> QED BY <1>4, <1>5, <2>1
<1>12. /\ \A q \in Proc : phase'[q] # "flush" => todo'[q] = Idle
       /\ \A q \in Proc : phase'[q] = "flush" => PendingIndependent' \/ TodoFromFirst'
  BY <1>7, <1>10
<1> QED BY <1>6, <1>9, <1>10, <1>11, <1>12 DEF ReplayInv

(* The row a worker is at does not depend on one that waits before it, nor *)
(* on the row another worker is at.                                        *)
LEMMA NextIsFree ==
  ASSUME Alone, TypeOK, ReplayInv, NEW p \in Proc, phase[p] = "flush", NEW w \in Worker,
         NEW r \in todo[p][w], IsNext(r, todo[p][w])
  PROVE  /\ \A q \in pending : q.w < r.w => Independent(written[q.w], written[r.w])
         /\ \A v \in Worker \ {w} : \A q \in todo[p][v] :
              IsNext(q, todo[p][v]) => Independent(written[q.w], written[r.w])
<1>1. r \in pending /\ r.seq = r.w /\ r.w \in Nat
  BY WaitingIs DEF ReplayInv
<1>2. CASE PendingIndependent
  <2>1. \A q \in pending : q # r => Independent(written[q.w], written[r.w])
    BY <1>1, <1>2 DEF PendingIndependent
  <2>2. \A q \in pending : q.w < r.w => q # r
    BY <1>1
  <2>3. \A v \in Worker \ {w} : \A q \in todo[p][v] : q \in pending /\ q # r
    BY DEF ReplayInv
  <2> QED BY <2>1, <2>2, <2>3
<1>3. CASE TodoFromFirst
  <2>1. ASSUME NEW q \in pending, q.w < r.w PROVE FALSE
    <3>1. q.seq = q.w /\ q.w \in Nat
      BY WaitingIs
    <3>2. q \in todo[p][w]
      BY <1>1, <1>3, <2>1, <3>1 DEF TodoFromFirst
    <3> QED BY <1>1, <2>1, <3>1, <3>2 DEF IsNext
  <2>2. ASSUME NEW v \in Worker \ {w}, NEW q \in todo[p][v] PROVE FALSE
    <3>1. q \in pending
      BY DEF ReplayInv
    <3>2. q.seq = q.w /\ q.w \in Nat
      BY <3>1, WaitingIs
    <3>3. q.seq <= r.seq => q \in todo[p][w]
      BY <1>3, <3>1 DEF TodoFromFirst
    <3>4. r.seq <= q.seq => r \in todo[p][v]
      BY <1>1, <1>3 DEF TodoFromFirst
    <3>5. todo[p][v] \cap todo[p][w] = {}
      BY DEF ReplayInv
    <3> QED BY <1>1, <3>2, <3>3, <3>4, <3>5
  <2> QED BY <2>1, <2>2
<1> QED BY <1>2, <1>3 DEF ReplayInv

(* A row is committed before its turn, or in its turn, or once more: the   *)
(* tables before it have it now, and the rest is as it was.                *)
LEMMA ReplayCommit ==
  ASSUME Alone, TypeOK, ReplayInv, NEW p \in Proc, NEW w \in Worker, NasCommit(p, w)
  PROVE  ReplayInv'
<1>1. PICK r \in todo[p][w] :
        /\ IsNext(r, todo[p][w])
        /\ nas' = Apply(written[r.w], r.w, nas)
  BY DEF NasCommit
<1>2. /\ written' = written /\ prefix' = prefix /\ pending' = pending
      /\ lastSeq' = lastSeq /\ phase' = phase /\ todo' = todo
      /\ committed' = [committed EXCEPT ![p] = committed[p] \cup {w}]
      /\ phase[p] = "flush" /\ w \notin committed[p]
  BY DEF NasCommit, fileVars
<1>3. \A q \in Proc : q = p
  BY DEF Alone
<1>4. r \in pending
  BY DEF ReplayInv
<1>5. r.w \in 1..Len(written) /\ r.w \in Nat /\ written[r.w] \in Stmt /\ Len(written) \in Nat
  BY <1>4, WaitingIs DEF TypeOK
<1>6. /\ \A q \in pending : q.w < r.w => Independent(written[q.w], written[r.w])
      /\ \A v \in Worker \ {w} : \A q \in todo[p][v] :
           IsNext(q, todo[p][v]) => Independent(written[q.w], written[r.w])
  BY <1>1, <1>2, NextIsFree
<1>7. PICK f : Replays(f)
  BY DEF ReplayInv
<1> DEFINE n == Len(written) + 1
<1> PICK g : g = [i \in 1..n |-> IF i <= r.w THEN Does(r.w, f[i]) ELSE f[i]]
  OBVIOUS
<1>8. \A i \in 1..n : f[i] \in Table
  BY <1>7 DEF Replays
<1>9. \A i \in 1..n : Does(r.w, f[i]) \in Table /\ Does(r.w, Does(r.w, f[i])) = Does(r.w, f[i])
  BY <1>5, <1>8, ApplyType, ApplyTwice DEF Does
<1>10. /\ g \in [1..n -> Table]
       /\ \A i \in 1..n : i <= r.w => g[i] = Does(r.w, f[i])
       /\ \A i \in 1..n : ~ (i <= r.w) => g[i] = f[i]
  BY <1>8, <1>9
<1>11. g[1] = nas' /\ g[n] = prefix[n]
  <2>1. 1 \in 1..n /\ 1 <= r.w /\ n \in 1..n /\ ~ (n <= r.w)
    BY <1>5
  <2>2. f[1] = nas /\ f[n] = prefix[n]
    BY <1>7 DEF Replays
  <2> QED BY <1>1, <1>10, <2>1, <2>2 DEF Does
<1>12. ASSUME NEW q \in pending PROVE g[q.w + 1] = Does(q.w, g[q.w])
  <2>1. /\ q.w \in 1..n /\ q.w + 1 \in 1..n /\ q.w \in Nat /\ written[q.w] \in Stmt
        /\ q.w = r.w => q = r
    BY <1>4, <1>5, <1>12, WaitingIs
  <2>2. f[q.w + 1] = Does(q.w, f[q.w])
    BY <1>7 DEF Replays
  <2>3. CASE q.w < r.w
    <3>1. Independent(written[q.w], written[r.w])
      BY <1>6, <2>3
    <3>2. Does(q.w, Does(r.w, f[q.w])) = Does(r.w, Does(q.w, f[q.w]))
      BY <1>5, <1>8, <2>1, <3>1, ApplyCommutes DEF Does
    <3>3. g[q.w] = Does(r.w, f[q.w]) /\ g[q.w + 1] = Does(r.w, f[q.w + 1])
      BY <1>5, <1>10, <2>1, <2>3
    <3> QED BY <2>2, <3>2, <3>3
  <2>4. CASE q.w = r.w
    <3>1. g[q.w] = Does(r.w, f[q.w]) /\ g[q.w + 1] = f[q.w + 1]
      BY <1>5, <1>10, <2>1, <2>4
    <3> QED BY <1>9, <2>1, <2>2, <2>4, <3>1
  <2>5. CASE q.w > r.w
    <3>1. g[q.w] = f[q.w] /\ g[q.w + 1] = f[q.w + 1]
      BY <1>5, <1>10, <2>1, <2>5
    <3> QED BY <2>2, <3>1
  <2> QED BY <1>5, <2>1, <2>3, <2>4, <2>5
<1>13. ASSUME NEW i \in 1..n, NEW j \in 1..n, i <= j,
              \A q \in pending : ~ (i <= q.w /\ q.w < j)
       PROVE  g[i] = g[j]
  <2>1. f[i] = f[j]
    BY <1>7, <1>13 DEF Replays
  <2>2. ~ (i <= r.w /\ r.w < j)
    BY <1>4, <1>13
  <2>3. (i <= r.w /\ j <= r.w) \/ (~ (i <= r.w) /\ ~ (j <= r.w))
    BY <1>5, <1>13, <2>2
  <2> QED BY <1>10, <2>1, <2>3
<1>14. ASSUME NEW v \in committed'[p], NEW q \in todo[p][v], IsNext(q, todo[p][v]),
              NEW i \in 1..q.w
       PROVE  Does(q.w, g[i]) = g[i]
  <2>1. v \in committed[p] \/ v = w
    BY <1>2 DEF TypeOK
  <2>2. v \in Worker
    BY <2>1 DEF TypeOK
  <2>3. q \in pending
    BY <2>2 DEF ReplayInv
  <2>4. q.w \in 1..Len(written) /\ q.w \in Nat /\ written[q.w] \in Stmt /\ i \in 1..n
    BY <1>5, <2>3, WaitingIs
  <2>5. CASE v = w
    <3>1. q.seq = r.seq /\ q.seq = q.w /\ r.seq = r.w
      <4>1. q.seq = q.w /\ r.seq = r.w
        BY <1>4, <2>3, WaitingIs
      <4> QED BY <1>1, <1>5, <1>14, <2>4, <2>5, <4>1 DEF IsNext
    <3>2. q.w = r.w /\ i <= r.w
      <4>1. q.w = r.w
        BY <3>1
      <4>2. i \in 1..q.w
        BY <1>14
      <4> QED BY <1>5, <4>1, <4>2
    <3>3. g[i] = Does(r.w, f[i])
      BY <1>10, <2>4, <3>2
    <3>4. Does(r.w, Does(r.w, f[i])) = Does(r.w, f[i])
      BY <1>9, <2>4
    <3> QED BY <3>2, <3>3, <3>4
  <2>6. CASE v # w
    <3>1. Does(q.w, f[i]) = f[i]
      BY <1>7, <1>14, <2>1, <2>6 DEF Replays
    <3>2. Independent(written[q.w], written[r.w])
      BY <1>6, <1>14, <2>2, <2>6
    <3>3. Does(q.w, Does(r.w, f[i])) = Does(r.w, Does(q.w, f[i]))
      BY <1>5, <1>8, <2>4, <3>2, ApplyCommutes DEF Does
    <3>4. g[i] = Does(r.w, f[i]) \/ g[i] = f[i]
      BY <1>10, <2>4
    <3> QED BY <3>1, <3>3, <3>4
  <2> QED BY <2>5, <2>6
<1>15. Replays(g)'
  <2>1. \A i, t : Does(i, t)' = Does(i, t)
    BY <1>2 DEF Does
  <2>2. \A q \in Proc : \A v \in committed'[q] : \A x \in todo'[q][v] :
          IsNext(x, todo'[q][v]) => \A i \in 1..x.w : Does(x.w, g[i]) = g[i]
    <3> SUFFICES ASSUME NEW q \in Proc, NEW v \in committed'[q], NEW x \in todo'[q][v],
                        IsNext(x, todo'[q][v]), NEW i \in 1..x.w
                 PROVE  Does(x.w, g[i]) = g[i]
      OBVIOUS
    <3>1. q = p /\ todo' = todo
      BY <1>2, <1>3
    <3>2. v \in committed'[p] /\ x \in todo[p][v] /\ IsNext(x, todo[p][v])
      BY <3>1
    <3> QED BY <1>14, <3>2
  <2> HIDE DEF n
  <2>3. /\ g \in [1..n -> Table] /\ g[1] = nas' /\ g[n] = prefix'[n]
        /\ \A q \in pending' : g[q.w + 1] = Does(q.w, g[q.w])
        /\ \A i, j \in 1..n :
             i <= j /\ (\A q \in pending' : ~ (i <= q.w /\ q.w < j)) => g[i] = g[j]
    BY <1>2, <1>10, <1>11, <1>12, <1>13
  <2>4. n = Len(written') + 1
    BY <1>2 DEF n
  <2>5. /\ g \in [1..Len(written') + 1 -> Table]
        /\ g[1] = nas' /\ g[Len(written') + 1] = prefix'[Len(written') + 1]
        /\ \A i, j \in 1..Len(written') + 1 :
             i <= j /\ (\A q \in pending' : ~ (i <= q.w /\ q.w < j)) => g[i] = g[j]
    BY <2>3, <2>4
  <2>6. \A q \in pending' : g[q.w + 1] = Does(q.w, g[q.w])'
    BY <1>2, <2>3 DEF Does
  <2>7. \A q \in Proc : \A v \in committed'[q] : \A x \in todo'[q][v] :
          IsNext(x, todo'[q][v]) => \A i \in 1..x.w : Does(x.w, g[i])' = g[i]
    <3> SUFFICES ASSUME NEW q \in Proc, NEW v \in committed'[q], NEW x \in todo'[q][v],
                        IsNext(x, todo'[q][v]), NEW i \in 1..x.w
                 PROVE  Does(x.w, g[i])' = g[i]
      OBVIOUS
    <3>1. Does(x.w, g[i]) = g[i]
      BY <2>2
    <3> QED BY <1>2, <3>1 DEF Does
  <2> QED BY <2>5, <2>6, <2>7 DEF Replays
<1>16. KeyIsPosition' /\ PendingIndependent' = PendingIndependent /\ TodoFromFirst' = TodoFromFirst
  BY <1>2 DEF ReplayInv, KeyIsPosition, Live, PendingIndependent, TodoFromFirst
<1> QED BY <1>2, <1>15, <1>16 DEF ReplayInv

(* A row is deleted when nothing before it is left to change.              *)
LEMMA ReplayDelete ==
  ASSUME Alone, TypeOK, ReplayInv, NEW p \in Proc, NEW w \in Worker, LocalDelete(p, w)
  PROVE  ReplayInv'
<1>1. PICK r \in todo[p][w] :
        /\ IsNext(r, todo[p][w])
        /\ pending' = {q \in pending : q.seq # r.seq}
        /\ todo' = [todo EXCEPT ![p][w] = todo[p][w] \ {r}]
  BY DEF LocalDelete
<1>2. /\ written' = written /\ prefix' = prefix /\ lastSeq' = lastSeq /\ nas' = nas
      /\ phase' = phase
      /\ committed' = [committed EXCEPT ![p] = committed[p] \ {w}]
      /\ phase[p] = "flush" /\ w \in committed[p]
  BY DEF LocalDelete, nasVars
<1>3. \A q \in Proc : q = p
  BY DEF Alone
<1>4. r \in pending
  BY DEF ReplayInv
<1>5. r.w \in 1..Len(written) /\ r.w \in Nat /\ r.seq = r.w /\ Len(written) \in Nat
  BY <1>4, WaitingIs DEF TypeOK
<1>6. \A q \in pending : q.seq = q.w /\ q.w \in Nat /\ (q.w = r.w => q = r)
  BY <1>4, WaitingIs
<1>7. pending' = pending \ {r}
  BY <1>1, <1>5, <1>6
<1>8. /\ todo'[p][w] = todo[p][w] \ {r}
      /\ \A v \in Worker \ {w} : todo'[p][v] = todo[p][v]
      /\ committed'[p] = committed[p] \ {w}
  BY <1>1, <1>2 DEF TypeOK
<1>9. /\ \A v \in Worker : todo[p][v] \subseteq pending
      /\ \A u, v \in Worker : u # v => todo[p][u] \cap todo[p][v] = {}
  BY DEF ReplayInv
<1>10. \A v \in Worker : todo'[p][v] = todo[p][v] \ {r}
  BY <1>8, <1>9
<1>11. PICK f : Replays(f)
  BY DEF ReplayInv
<1>12. f[r.w + 1] = f[r.w] /\ \A i \in 1..r.w : f[i] = Does(r.w, f[i])
  <2>1. \A i \in 1..r.w : Does(r.w, f[i]) = f[i]
    BY <1>1, <1>2, <1>11 DEF Replays
  <2>2. f[r.w + 1] = Does(r.w, f[r.w])
    BY <1>4, <1>11 DEF Replays
  <2>3. r.w \in 1..r.w
    BY <1>5
  <2> QED BY <2>1, <2>2, <2>3
<1>13. ASSUME NEW i \in 1..Len(written) + 1, NEW j \in 1..Len(written) + 1, i <= j,
              \A q \in pending' : ~ (i <= q.w /\ q.w < j)
       PROVE  f[i] = f[j]
  <2>1. CASE i <= r.w /\ r.w < j
    <3>1. r.w \in 1..Len(written) + 1 /\ r.w + 1 \in 1..Len(written) + 1
      BY <1>5
    <3>2. \A q \in pending : q.w \in Nat /\ (q = r \/ ~ (i <= q.w /\ q.w < j))
      BY <1>6, <1>7, <1>13
    <3>3. /\ i <= r.w /\ r.w + 1 <= j
          /\ \A q \in pending : ~ (i <= q.w /\ q.w < r.w)
          /\ \A q \in pending : ~ (r.w + 1 <= q.w /\ q.w < j)
      BY <1>5, <2>1, <3>2
    <3>4. f[i] = f[r.w] /\ f[r.w + 1] = f[j]
      <4>1. \A x, y \in 1..Len(written) + 1 :
              x <= y /\ (\A q \in pending : ~ (x <= q.w /\ q.w < y)) => f[x] = f[y]
        BY <1>11 DEF Replays
      <4> QED BY <3>1, <3>3, <4>1
    <3> QED BY <1>12, <3>4
  <2>2. CASE ~ (i <= r.w /\ r.w < j)
    <3>1. \A q \in pending : ~ (i <= q.w /\ q.w < j)
      BY <1>7, <1>13, <2>2
    <3> QED BY <1>11, <1>13, <3>1 DEF Replays
  <2> QED BY <2>1, <2>2
<1>14. Replays(f)'
  <2>1. /\ f \in [1..Len(written') + 1 -> Table]
        /\ f[1] = nas' /\ f[Len(written') + 1] = prefix'[Len(written') + 1]
    BY <1>2, <1>11 DEF Replays
  <2>2. \A i, j \in 1..Len(written') + 1 :
          i <= j /\ (\A q \in pending' : ~ (i <= q.w /\ q.w < j)) => f[i] = f[j]
    BY <1>2, <1>13
  <2>3. \A q \in pending' : f[q.w + 1] = Does(q.w, f[q.w])'
    <3>1. \A q \in pending' : f[q.w + 1] = Does(q.w, f[q.w])
      BY <1>7, <1>11 DEF Replays
    <3> QED BY <1>2, <3>1 DEF Does
  <2>4. \A q \in Proc : \A v \in committed'[q] : \A x \in todo'[q][v] :
          IsNext(x, todo'[q][v]) => \A i \in 1..x.w : Does(x.w, f[i])' = f[i]
    <3> SUFFICES ASSUME NEW q \in Proc, NEW v \in committed'[q], NEW x \in todo'[q][v],
                        IsNext(x, todo'[q][v]), NEW i \in 1..x.w
                 PROVE  Does(x.w, f[i])' = f[i]
      OBVIOUS
    <3>1. q = p /\ v \in committed[p] /\ v # w
      BY <1>3, <1>8
    <3>2. v \in Worker
      BY <3>1 DEF TypeOK
    <3>3. todo'[q][v] = todo[p][v]
      BY <1>8, <3>1, <3>2
    <3>4. Does(x.w, f[i]) = f[i]
      BY <1>11, <3>1, <3>3 DEF Replays
    <3> QED BY <1>2, <3>4 DEF Does
  <2> QED BY <2>1, <2>2, <2>3, <2>4 DEF Replays
<1>15. KeyIsPosition'
  <2>1. Live' \subseteq Live
    BY <1>3, <1>7, <1>10 DEF Live
  <2> QED BY <1>2, <2>1 DEF ReplayInv, KeyIsPosition
<1>16. IsFiniteSet(pending')
  BY <1>7, FS_Subset DEF ReplayInv
<1>17. /\ \A q \in Proc : \A v \in Worker : todo'[q][v] \subseteq pending'
       /\ \A q \in Proc : \A u, v \in Worker : u # v => todo'[q][u] \cap todo'[q][v] = {}
       /\ \A q \in Proc : phase'[q] = "flush"
  <2> SUFFICES ASSUME NEW q \in Proc
               PROVE  /\ \A v \in Worker : todo'[q][v] \subseteq pending'
                      /\ \A u, v \in Worker : u # v => todo'[q][u] \cap todo'[q][v] = {}
                      /\ phase'[q] = "flush"
    OBVIOUS
  <2>1. q = p
    BY <1>3
  <2> QED BY <1>2, <1>7, <1>9, <1>10, <2>1
<1>18. PendingIndependent' \/ TodoFromFirst'
  <2>1. CASE PendingIndependent
    BY <1>2, <1>7, <2>1 DEF PendingIndependent
  <2>2. CASE TodoFromFirst
    <3> SUFFICES ASSUME NEW q \in Proc, NEW v \in Worker, NEW x \in todo'[q][v]
                 PROVE  /\ x \in pending'
                        /\ \A y \in pending' : y.seq <= x.seq => y \in todo'[q][v]
      BY DEF TodoFromFirst
    <3>1. q = p /\ x \in todo[p][v] /\ x # r
      BY <1>3, <1>10
    <3>2. x \in pending /\ \A y \in pending : y.seq <= x.seq => y \in todo[p][v]
      BY <2>2, <3>1 DEF TodoFromFirst
    <3> QED BY <1>7, <1>10, <3>1, <3>2
  <2> QED BY <1>2, <2>1, <2>2 DEF ReplayInv
<1> QED BY <1>14, <1>15, <1>16, <1>17, <1>18 DEF ReplayInv

(* Every step of one process keeps it, with several workers on independent *)
(* rows only.                                                              *)
LEMMA ReplayStep ==
  ASSUME Alone, Disciplined = TRUE, TypeOK, TypeOK', ReplayInv, [Next]_vars
  PROVE  ReplayInv'
<1>1. CASE UNCHANGED vars
  <2>1. /\ UNCHANGED <<fileVars, nasVars>>
        /\ todo' = todo /\ committed' = committed /\ phase' = phase
    BY <1>1 DEF vars, fileVars, nasVars, procVars
  <2>2. \A p \in Proc : committed'[p] \subseteq Worker
    BY <2>1 DEF TypeOK
  <2> QED BY <2>1, <2>2, ReplayKept DEF ReplayInv
<1>2. ASSUME NEW p \in Proc, StartFetch(p) \/ FetchFails(p) PROVE ReplayInv'
  <2>1. /\ UNCHANGED <<fileVars, nasVars>> /\ todo' = todo /\ committed' = committed
        /\ phase[p] # "flush"
    BY <1>2 DEF StartFetch, FetchFails
  <2>2. \A q \in Proc : q = p
    BY DEF Alone
  <2>3. \A q \in Proc : phase'[q] # "flush" /\ todo'[q] = Idle
    BY <1>2, <2>1, <2>2 DEF StartFetch, FetchFails, ReplayInv, TypeOK
  <2>4. \A q \in Proc : committed'[q] \subseteq Worker
    BY <2>1 DEF TypeOK
  <2> QED BY <2>1, <2>3, <2>4, ReplayKept
<1>3. ASSUME NEW p \in Proc, NEW w \in Worker, WorkerFails(p, w) PROVE ReplayInv'
  <2>1. /\ UNCHANGED <<fileVars, nasVars>> /\ phase' = phase /\ phase[p] = "flush"
        /\ todo' = [todo EXCEPT ![p][w] = {}]
        /\ committed' = [committed EXCEPT ![p] = committed[p] \ {w}]
    BY <1>3 DEF WorkerFails
  <2>2. \A q \in Proc : q = p
    BY DEF Alone
  <2>3. \A q \in Proc, v \in Worker : todo'[q][v] = todo[q][v] \/ todo'[q][v] = {}
    BY <2>1 DEF TypeOK
  <2>4. \A q \in Proc : committed'[q] \subseteq committed[q] /\ committed[q] \subseteq Worker
    BY <2>1 DEF TypeOK
  <2>5. \A q \in Proc : phase'[q] = "flush" /\ phase[q] = "flush"
    BY <2>1, <2>2
  <2> QED BY <2>1, <2>3, <2>4, <2>5, ReplayKept
<1>4. ASSUME NEW p \in Proc, FlushEnds(p) PROVE ReplayInv'
  <2>1. /\ UNCHANGED <<fileVars, nasVars>> /\ todo' = todo /\ committed' = committed
        /\ todo[p] = Idle /\ phase' = [phase EXCEPT ![p] = "off"]
    BY <1>4 DEF FlushEnds
  <2>2. \A q \in Proc : q = p
    BY DEF Alone
  <2>3. \A q \in Proc : phase'[q] = "off" /\ todo'[q] = Idle
    BY <2>1, <2>2 DEF TypeOK
  <2>4. \A q \in Proc : committed'[q] \subseteq Worker
    BY <2>1 DEF TypeOK
  <2> QED BY <2>1, <2>3, <2>4, ReplayKept
<1>5. ASSUME NEW p \in Proc, Crash(p) PROVE ReplayInv'
  <2>1. /\ UNCHANGED <<fileVars, nasVars>>
        /\ todo' = [todo EXCEPT ![p] = Idle] /\ committed' = [committed EXCEPT ![p] = {}]
        /\ phase' = [phase EXCEPT ![p] = "off"]
    BY <1>5 DEF Crash
  <2>2. \A q \in Proc : q = p
    BY DEF Alone
  <2>3. \A q \in Proc : phase'[q] = "off" /\ todo'[q] = Idle /\ committed'[q] = {}
    BY <2>1, <2>2 DEF TypeOK
  <2>4. \A q \in Proc, v \in Worker : todo'[q][v] = {}
    BY <2>3 DEF Idle
  <2> QED BY <2>1, <2>3, <2>4, ReplayKept
<1>6. ASSUME NEW p \in Proc, NEW n \in Worker, FlushCommand(p, n) PROVE ReplayInv'
  <2>1. n = 1 \/ PendingIndependent
    BY <1>6 DEF FlushCommand, Worker
  <2>2. BeginFlush(p, n)
    BY <1>6 DEF FlushCommand
  <2> QED BY <2>1, <2>2, ReplayBegin
<1>7. ASSUME NEW p \in Proc, FetchDone(p) PROVE ReplayInv'
  <2>1. 1 \in Worker
    BY WorkersAssumption DEF Worker
  <2>2. BeginFlush(p, 1)
    BY <1>7 DEF FetchDone
  <2> QED BY <2>1, <2>2, ReplayBegin
<1> QED
  BY <1>1, <1>2, <1>3, <1>4, <1>5, <1>6, <1>7, ReplayWrite, ReplayCommit, ReplayDelete
  DEF Next

(* When the buffer is empty the NAS is what all writes in their order      *)
(* leave, whatever flushes with one worker or several, failed, killed and  *)
(* repeated, have emptied it: flush and flush_parallel end the same.       *)
THEOREM DrainedLeavesAll ==
  ASSUME Alone, Disciplined = TRUE
  PROVE  Spec => []DrainedIsCurrent
<1>1. Init => ReplayInv
  BY ReplayInit
<1>2. TypeOK /\ TypeOK' /\ ReplayInv /\ [Next]_vars => ReplayInv'
  BY ReplayStep
<1>3. TypeOK /\ ReplayInv => DrainedIsCurrent
  <2> SUFFICES ASSUME TypeOK, ReplayInv, pending = {}
               PROVE  nas = prefix[Len(prefix)]
    BY DEF DrainedIsCurrent
  <2>1. PICK f : Replays(f)
    BY DEF ReplayInv
  <2>2. Len(prefix) = Len(written) + 1 /\ Len(written) \in Nat
    BY DEF TypeOK
  <2>3. 1 \in 1..Len(written) + 1 /\ Len(written) + 1 \in 1..Len(written) + 1
        /\ 1 <= Len(written) + 1
    BY <2>2
  <2>4. f[1] = f[Len(written) + 1]
    BY <2>1, <2>3 DEF Replays
  <2> QED BY <2>1, <2>2, <2>4 DEF Replays
<1> QED BY <1>1, <1>2, <1>3, TypeCorrect, PTL DEF Spec
=============================================================================
