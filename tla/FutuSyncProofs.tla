--------------------------- MODULE FutuSyncProofs ---------------------------
(***************************************************************************)
(* Proofs about FutuSync, for any streams, tickers, phases, scopes and     *)
(* refresh periods, and any number of runs that are killed and flushes     *)
(* that are cut off: what sync_log calls ok with rows has rows on the NAS, *)
(* what failed is asked for again, financial rows get their dates, and,    *)
(* where nothing fails, every ticker is asked for in time.                 *)
(*                                                                         *)
(* The invariants are about the buffer, a queue of which everything so far *)
(* delivered came first.  Before an ok mark with rows, its rows are        *)
(* buffered, or they are on the NAS.                                       *)
(***************************************************************************)
EXTENDS FutuSync, SequenceTheorems, WellFoundedInduction, TLAPS

OkWithRows(w) == w.kind = "ok" /\ w.added > 0

(* x holds the rows that w marks.                                          *)
RowsFor(x, w) ==
  x.kind = "rows" /\ x.stream = w.stream /\ x.ticker = w.ticker /\ x.date = w.date

(* The rows of every ok mark come before it.                               *)
OwnRows(q) ==
  \A i \in 1..Len(q) : OkWithRows(q[i]) => \E j \in 1..i - 1 : RowsFor(q[j], q[i])

(* They do, or they are on the NAS.                                        *)
Backed(q) ==
  \A i \in 1..Len(q) : OkWithRows(q[i]) =>
    \/ q[i].date \in rows[q[i].stream][q[i].ticker]
    \/ \E j \in 1..i - 1 : RowsFor(q[j], q[i])

DataOK ==
  /\ now \in Nat
  /\ syncLog \in PerTicker(LogEntry)
  /\ rows \in PerTicker(SUBSET Nat)
  /\ buffer \in Seq(Write)

BufferInv == DataOK /\ MarkedHasRows /\ Backed(buffer)

(* What is cut off at the end leaves the rest with its rows.               *)
LEMMA PrefixOwnRows ==
  ASSUME NEW q \in Seq(Write), OwnRows(q), NEW n \in 0..Len(q)
  PROVE  SubSeq(q, 1, n) \in Seq(Write) /\ OwnRows(SubSeq(q, 1, n))
<1> DEFINE p == SubSeq(q, 1, n)
<1>1. Len(q) \in Nat /\ \A i \in 1..n : q[i] \in Write
  BY LenProperties, ElementOfSeq
<1>2. p \in Seq(Write) /\ Len(p) = n /\ \A i \in 1..n : p[i] = q[i]
  BY <1>1, SubSeqProperties
<1> HIDE DEF p
<1>3. OwnRows(p)
  BY <1>1, <1>2 DEF OwnRows
<1> QED BY <1>2, <1>3 DEF p

(* Writes with their own rows may follow any backed buffer.                *)
LEMMA ConcatBacked ==
  ASSUME NEW b \in Seq(Write), NEW q \in Seq(Write), Backed(b), OwnRows(q)
  PROVE  b \o q \in Seq(Write) /\ Backed(b \o q)
<1> DEFINE c == b \o q
<1>1. /\ c \in Seq(Write) /\ Len(c) = Len(b) + Len(q) /\ Len(b) \in Nat /\ Len(q) \in Nat
      /\ \A i \in 1..Len(b) + Len(q) : c[i] = IF i <= Len(b) THEN b[i] ELSE q[i - Len(b)]
  BY ConcatProperties, LenProperties
<1> HIDE DEF c
<1>2. ASSUME NEW i \in 1..Len(c), OkWithRows(c[i])
      PROVE  \/ c[i].date \in rows[c[i].stream][c[i].ticker]
             \/ \E j \in 1..i - 1 : RowsFor(c[j], c[i])
  <2>1. CASE i <= Len(b)
    <3>1. i \in 1..Len(b) /\ c[i] = b[i] /\ \A j \in 1..i - 1 : c[j] = b[j]
      BY <1>1, <2>1
    <3> QED BY <1>2, <3>1 DEF Backed
  <2>2. CASE i > Len(b)
    <3>1. i - Len(b) \in 1..Len(q) /\ c[i] = q[i - Len(b)]
      BY <1>1, <2>2
    <3>2. PICK j \in 1..(i - Len(b)) - 1 : RowsFor(q[j], q[i - Len(b)])
      BY <1>2, <3>1 DEF OwnRows
    <3>3. /\ j + Len(b) \in 1..i - 1 /\ j + Len(b) \in 1..Len(b) + Len(q)
          /\ j + Len(b) > Len(b) /\ (j + Len(b)) - Len(b) = j
      BY <1>1, <2>2, <3>1, <3>2
    <3>4. c[j + Len(b)] = q[j]
      BY <1>1, <3>3
    <3> QED BY <3>1, <3>2, <3>3, <3>4
  <2> QED BY <1>1, <2>1, <2>2
<1> QED BY <1>1, <1>2 DEF Backed, c

(* A turn writes a mark, and before it the rows if there are any.          *)
LEMMA TurnWritesAre ==
  ASSUME now \in Nat, NEW s \in Stream, NEW t \in Ticker,
         NEW r \in {"rows", "nothing", "error", "part"}
  PROVE  LET W == Writes(s, t, r)
         IN  /\ W \in Seq(Write) /\ RowsOf(s, t) \in Write /\ MarkOf(s, t, r) \in Write
             /\ IF r \in {"rows", "part"}
                THEN Len(W) = 2 /\ W[1] = RowsOf(s, t) /\ W[2] = MarkOf(s, t, r)
                ELSE Len(W) = 1 /\ W[1] = MarkOf(s, t, r)
<1> DEFINE x == RowsOf(s, t)
           m == MarkOf(s, t, r)
<1>1. today \in Nat
  BY TimeAssumption DEF TimeAssumption, today
<1>2. x \in Write /\ m \in Write
  BY <1>1 DEF RowsOf, MarkOf, Write
<1>3. Writes(s, t, r) = (IF r \in {"rows", "part"} THEN <<x>> ELSE <<>>) \o <<m>>
  BY DEF Writes, RowsIn
<1> HIDE DEF x, m
<1>4. CASE r \in {"rows", "part"}
  <2>1. <<x>> \in Seq(Write) /\ <<m>> \in Seq(Write)
    BY <1>2
  <2>2. /\ <<x>> \o <<m>> \in Seq(Write) /\ Len(<<x>> \o <<m>>) = 2
        /\ (<<x>> \o <<m>>)[1] = x /\ (<<x>> \o <<m>>)[2] = m
    BY <2>1, ConcatProperties
  <2> QED BY <1>2, <1>3, <1>4, <2>2 DEF x, m
<1>5. CASE r \notin {"rows", "part"}
  <2>1. <<m>> \in Seq(Write)
    BY <1>2
  <2>2. Writes(s, t, r) = <<m>>
    BY <1>3, <1>5, <2>1, ConcatEmptySeq
  <2> QED BY <1>2, <1>5, <2>1, <2>2 DEF x, m
<1> QED BY <1>4, <1>5

(* So the rows of an ok mark come before it.                               *)
LEMMA TurnWrites ==
  ASSUME now \in Nat, NEW s \in Stream, NEW t \in Ticker,
         NEW r \in {"rows", "nothing", "error", "part"}
  PROVE  Writes(s, t, r) \in Seq(Write) /\ OwnRows(Writes(s, t, r))
<1> DEFINE x == RowsOf(s, t)
           m == MarkOf(s, t, r)
           W == Writes(s, t, r)
<1>1. /\ W \in Seq(Write)
      /\ IF r \in {"rows", "part"} THEN Len(W) = 2 /\ W[1] = x /\ W[2] = m
                                    ELSE Len(W) = 1 /\ W[1] = m
  BY TurnWritesAre
<1>2. RowsFor(x, m)
  BY DEF MarkOf, RowsOf, RowsFor
<1>3. ~ OkWithRows(x) /\ (r # "rows" => ~ OkWithRows(m))
  BY DEF RowsOf, MarkOf, OkWithRows
<1> HIDE DEF x, m, W
<1>4. OwnRows(W)
  BY <1>1, <1>2, <1>3 DEF OwnRows
<1> QED BY <1>1, <1>4 DEF W

(* So does the end of a phase: the UPDATE of the dates marks nothing.      *)
LEMMA PhaseEndWrites ==
  PhaseWrites \in Seq(Write) /\ OwnRows(PhaseWrites)
<1>1. Dates \in Write /\ ~ OkWithRows(Dates)
  BY StreamAssumption DEF StreamAssumption, Dates, Write, OkWithRows
<1> DEFINE d == Dates
<1> HIDE DEF d
<1>2. PhaseWrites = <<d>> \/ PhaseWrites = <<>>
  BY DEF PhaseWrites, d
<1>3. <<d>> \in Seq(Write) /\ OwnRows(<<d>>) /\ <<>> \in Seq(Write) /\ OwnRows(<<>>)
  BY <1>1 DEF OwnRows, d
<1> QED BY <1>2, <1>3

(* A step that only adds such writes to the buffer keeps the invariant.    *)
LEMMA Buffers ==
  ASSUME BufferInv, NEW q \in Seq(Write), OwnRows(q), buffer' = buffer \o q,
         UNCHANGED <<now, syncLog, rows>>
  PROVE  BufferInv'
<1>1. buffer' \in Seq(Write) /\ Backed(buffer')
  BY ConcatBacked DEF BufferInv, DataOK
<1>2. MarkedHasRows' /\ (now \in Nat)' /\ (syncLog \in PerTicker(LogEntry))'
      /\ (rows \in PerTicker(SUBSET Nat))'
  BY DEF BufferInv, DataOK, MarkedHasRows
<1> QED BY <1>1, <1>2 DEF BufferInv, DataOK, Backed

(* So does a step that leaves the buffer and the NAS alone.                *)
LEMMA LeavesAlone ==
  ASSUME BufferInv, UNCHANGED <<syncLog, rows, buffer>>, now' \in Nat
  PROVE  BufferInv'
  BY DEF BufferInv, DataOK, MarkedHasRows, Backed

(* A delivery takes the first write.  Rows stay with the marks that follow *)
(* them: they are on the NAS now.  A mark finds its rows there: no write   *)
(* came before it.                                                         *)
LEMMA DeliverStep == BufferInv /\ Deliver => BufferInv'
<1> SUFFICES ASSUME BufferInv, Deliver PROVE BufferInv'
  OBVIOUS
<1> DEFINE w == Head(buffer)
<1>1. /\ buffer \in Seq(Write) /\ buffer # <<>> /\ Len(buffer) \in Nat \ {0}
      /\ buffer' = Tail(buffer) /\ w = buffer[1] /\ now' = now
  BY EmptySeq DEF BufferInv, DataOK, Deliver
<1>2. /\ w \in Write /\ buffer' \in Seq(Write) /\ Len(buffer') = Len(buffer) - 1
      /\ \A i \in 1..Len(buffer') : buffer'[i] = buffer[i + 1]
  BY <1>1, HeadTailProperties
<1>3. w.stream \in Stream /\ w.ticker \in Ticker /\ w.date \in Nat /\ w.added \in 0..1
  BY <1>2 DEF Write
<1> HIDE DEF w
<1>4. ASSUME \A s \in Stream, t \in Ticker : rows[s][t] \subseteq rows'[s][t],
             w.kind = "rows" => w.date \in rows'[w.stream][w.ticker]
      PROVE  Backed(buffer)'
  <2> SUFFICES ASSUME NEW i \in 1..Len(buffer'), OkWithRows(buffer'[i])
               PROVE  \/ buffer'[i].date \in rows'[buffer'[i].stream][buffer'[i].ticker]
                      \/ \E j \in 1..i - 1 : RowsFor(buffer'[j], buffer'[i])
    BY DEF Backed
  <2> DEFINE m == buffer[i + 1]
  <2>1. i + 1 \in 1..Len(buffer) /\ buffer'[i] = m /\ i \in Nat
    BY <1>1, <1>2
  <2>2. m.stream \in Stream /\ m.ticker \in Ticker
    <3>1. buffer[i + 1] \in Write
      BY <1>1, <2>1, ElementOfSeq
    <3> QED BY <3>1 DEF Write
  <2>3. CASE m.date \in rows[m.stream][m.ticker]
    BY <1>4, <2>1, <2>2, <2>3
  <2>4. CASE \E j \in 1..(i + 1) - 1 : RowsFor(buffer[j], m)
    <3>1. PICK j \in 1..i : RowsFor(buffer[j], m)
      BY <2>1, <2>4
    <3>2. CASE j = 1
      <4>1. w.kind = "rows" /\ w.stream = m.stream /\ w.ticker = m.ticker /\ w.date = m.date
        BY <1>1, <3>1, <3>2 DEF RowsFor
      <4> QED BY <1>4, <2>1, <4>1
    <3>3. CASE j # 1
      <4>1. j - 1 \in 1..i - 1 /\ j - 1 \in 1..Len(buffer') /\ (j - 1) + 1 = j
        BY <1>1, <1>2, <2>1, <3>3
      <4>2. buffer'[j - 1] = buffer[j]
        BY <1>2, <4>1
      <4> QED BY <2>1, <3>1, <4>1, <4>2
    <3> QED BY <3>2, <3>3
  <2> QED BY <2>1, <2>3, <2>4 DEF BufferInv, Backed
<1>5. CASE w.kind = "rows"
  <2>1. /\ rows' = [rows EXCEPT ![w.stream][w.ticker] = @ \cup {w.date}]
        /\ syncLog' = syncLog
    BY <1>5 DEF Deliver, w
  <2>2. rows' \in PerTicker(SUBSET Nat)
    BY <1>3, <2>1 DEF BufferInv, DataOK, PerTicker
  <2>3. /\ \A s \in Stream, t \in Ticker : rows[s][t] \subseteq rows'[s][t]
        /\ w.date \in rows'[w.stream][w.ticker]
    BY <1>3, <2>1 DEF BufferInv, DataOK, PerTicker
  <2>4. MarkedHasRows'
    BY <2>1, <2>3 DEF BufferInv, MarkedHasRows
  <2> QED BY <1>1, <1>2, <1>4, <2>1, <2>2, <2>3, <2>4 DEF BufferInv, DataOK
<1>6. CASE w.kind \in {"ok", "error"}
  <2>1. /\ syncLog' = [syncLog EXCEPT ![w.stream][w.ticker] = Stamp(w, @)]
        /\ rows' = rows
    BY <1>6 DEF Deliver, w
  <2> DEFINE old == syncLog[w.stream][w.ticker]
  <2>2. old \in LogEntry /\ now \in Nat
    BY <1>3 DEF BufferInv, DataOK, PerTicker
  <2>3. Stamp(w, old) \in LogEntry
    BY <1>3, <1>6, <2>2 DEF Stamp, LogEntry
  <2>4. OkWithRows(w) => w.date \in rows[w.stream][w.ticker]
    <3>1. 1 \in 1..Len(buffer) /\ 1..1 - 1 = {}
      BY <1>1
    <3> QED BY <1>1, <3>1 DEF BufferInv, Backed
  <2>5. /\ syncLog' \in PerTicker(LogEntry)
        /\ \A s \in Stream, t \in Ticker :
             syncLog'[s][t] = IF s = w.stream /\ t = w.ticker THEN Stamp(w, old)
                              ELSE syncLog[s][t]
    BY <1>3, <2>1, <2>3 DEF BufferInv, DataOK, PerTicker
  <2>6. Stamp(w, old).status = "ok" /\ Stamp(w, old).added > 0 =>
          Stamp(w, old).date \in rows[w.stream][w.ticker]
    BY <1>6, <2>4 DEF Stamp, OkWithRows
  <2>7. MarkedHasRows'
    BY <2>1, <2>5, <2>6 DEF BufferInv, MarkedHasRows
  <2>8. Backed(buffer)'
    BY <1>4, <1>6, <2>1
  <2> QED BY <1>1, <1>2, <2>1, <2>5, <2>7, <2>8 DEF BufferInv, DataOK
<1>7. CASE w.kind = "dates"
  <2>1. UNCHANGED <<syncLog, rows>>
    BY <1>7 DEF Deliver, w
  <2>2. Backed(buffer)'
    BY <1>4, <1>7, <2>1
  <2> QED BY <1>1, <1>2, <2>1, <2>2 DEF BufferInv, DataOK, MarkedHasRows
<1> QED BY <1>5, <1>6, <1>7 DEF Deliver, w

(* Nothing is marked in the first state.                                   *)
LEMMA SyncInit == Init => BufferInv
<1> SUFFICES ASSUME Init PROVE BufferInv
  OBVIOUS
<1>1. now \in Nat /\ buffer \in Seq(Write) /\ Len(buffer) = 0
  BY EmptySeq DEF Init
<1>2. Never \in LogEntry
  BY DEF Never, LogEntry
<1>3. syncLog \in PerTicker(LogEntry) /\ rows \in PerTicker(SUBSET Nat)
  BY <1>2 DEF Init, PerTicker
<1>4. \A s \in Stream, t \in Ticker : syncLog[s][t].status = "none"
  BY DEF Init, Never
<1> QED BY <1>1, <1>3, <1>4 DEF BufferInv, DataOK, MarkedHasRows, Backed

(* Every step keeps the rows before the marks.                             *)
LEMMA SyncStep == BufferInv /\ [Next]_vars => BufferInv'
<1> SUFFICES ASSUME BufferInv, [Next]_vars PROVE BufferInv'
  OBVIOUS
<1>0. now \in Nat /\ buffer \in Seq(Write)
  BY DEF BufferInv, DataOK
<1>1. CASE Tick
  BY <1>0, <1>1, LeavesAlone DEF Tick, nasVars
<1>2. CASE \/ MissRun \/ FlushCommand \/ FlushEnds \/ FlushFails \/ RunRaises
           \/ \E run \in Runs : StartRun(run[1], run[2])
           \/ \E s \in Stream : ReadFresh(s)
           \/ \E s \in Stream, t \in Ticker : BatchRaises(s, t)
  <2>1. UNCHANGED <<now, syncLog, rows, buffer>>
    BY <1>2, Zenon DEF MissRun, FlushCommand, FlushEnds, FlushFails, RunRaises, StartRun,
       ReadFresh, BatchRaises, nasVars
  <2> QED BY <1>0, <2>1, LeavesAlone
<1>3. ASSUME NEW s \in Stream, NEW t \in Ticker, NEW r \in Results[s],
             Collect(s, t, r) \/ Killed(s, t, r)
      PROVE  BufferInv'
  <2>1. r \in {"rows", "nothing", "error", "part"}
    BY ResultAssumption DEF ResultAssumption
  <2>2. Writes(s, t, r) \in Seq(Write) /\ OwnRows(Writes(s, t, r))
    BY <1>0, <2>1, TurnWrites
  <2>3. CASE Collect(s, t, r)
    <3>1. buffer' = buffer \o Writes(s, t, r) /\ UNCHANGED <<now, syncLog, rows>>
      BY <2>3, Zenon DEF Collect, nasVars
    <3> QED BY <2>2, <3>1, Buffers
  <2>4. CASE Killed(s, t, r)
    <3>1. PICK n \in 0..Len(Writes(s, t, r)) :
             buffer' = buffer \o SubSeq(Writes(s, t, r), 1, n)
      BY <2>4, Zenon DEF Killed
    <3>2. UNCHANGED <<now, syncLog, rows>>
      BY <2>4, Zenon DEF Killed, nasVars
    <3>3. /\ SubSeq(Writes(s, t, r), 1, n) \in Seq(Write)
          /\ OwnRows(SubSeq(Writes(s, t, r), 1, n))
      BY <2>2, PrefixOwnRows
    <3> QED BY <3>1, <3>2, <3>3, Buffers
  <2> QED BY <1>3, <2>3, <2>4
<1>4. CASE PhaseEnds \/ FetchEnds
  <2>1. buffer' = buffer \o PhaseWrites /\ UNCHANGED <<now, syncLog, rows>>
    BY <1>4, Zenon DEF PhaseEnds, FetchEnds, nasVars
  <2> QED BY <2>1, PhaseEndWrites, Buffers
<1>5. CASE Deliver
  BY <1>5, DeliverStep
<1>6. CASE UNCHANGED vars
  <2>1. UNCHANGED <<now, syncLog, rows, buffer>>
    BY <1>6 DEF vars, nasVars
  <2> QED BY <1>0, <2>1, LeavesAlone
<1> QED BY <1>1, <1>2, <1>3, <1>4, <1>5, <1>6 DEF Next

(* Whatever is killed or cut off, the rows of an ok mark are on the NAS    *)
(* before it is.                                                           *)
THEOREM RowsBeforeMarks == Spec => []MarkedHasRows
<1>1. BufferInv => MarkedHasRows
  BY DEF BufferInv
<1> QED BY <1>1, SyncInit, SyncStep, PTL DEF Spec

(***************************************************************************)
(* The last mark of a failed ticker is an error: among the buffered        *)
(* writes, or on the NAS if none is buffered for it.                       *)
(***************************************************************************)
IsMark(w, s, t) == w.kind \in {"ok", "error"} /\ w.stream = s /\ w.ticker = t

NoMark(q, s, t) == \A i \in 1..Len(q) : ~ IsMark(q[i], s, t)

EndsInError(q, s, t) ==
  \E i \in 1..Len(q) :
    /\ IsMark(q[i], s, t) /\ q[i].kind = "error"
    /\ \A j \in i + 1..Len(q) : ~ IsMark(q[j], s, t)

Failed(s, t) ==
  \/ EndsInError(buffer, s, t)
  \/ NoMark(buffer, s, t) /\ syncLog[s][t].status = "error"

(* What the writes that follow do to that.                                 *)
LEMMA ConcatMarks ==
  ASSUME NEW b \in Seq(Write), NEW q \in Seq(Write), NEW s, NEW t
  PROVE  /\ EndsInError(q, s, t) => EndsInError(b \o q, s, t)
         /\ NoMark(q, s, t) /\ EndsInError(b, s, t) => EndsInError(b \o q, s, t)
         /\ NoMark(q, s, t) /\ NoMark(b, s, t) => NoMark(b \o q, s, t)
<1> DEFINE c == b \o q
           n == Len(b)
<1>1. /\ Len(c) = n + Len(q) /\ n \in Nat /\ Len(q) \in Nat
      /\ \A i \in 1..n + Len(q) : c[i] = IF i <= n THEN b[i] ELSE q[i - n]
  BY ConcatProperties, LenProperties
<1> HIDE DEF c, n
<1>2. /\ \A i \in 1..n : i \in 1..Len(c) /\ c[i] = b[i]
      /\ \A i \in 1..Len(q) : i + n \in 1..Len(c) /\ c[i + n] = q[i]
  <2>1. ASSUME NEW i \in 1..n PROVE i \in 1..Len(c) /\ c[i] = b[i]
    BY <1>1
  <2>2. ASSUME NEW i \in 1..Len(q) PROVE i + n \in 1..Len(c) /\ c[i + n] = q[i]
    <3>1. i + n \in 1..n + Len(q) /\ ~ (i + n <= n) /\ (i + n) - n = i
      BY <1>1
    <3> QED BY <1>1, <3>1
  <2> QED BY <2>1, <2>2
<1>3. ASSUME NEW i \in 1..Len(c)
      PROVE  i \in 1..n \/ (i - n \in 1..Len(q) /\ c[i] = q[i - n])
  BY <1>1
<1>4. ASSUME EndsInError(q, s, t) PROVE EndsInError(c, s, t)
  <2>1. PICK i \in 1..Len(q) : /\ IsMark(q[i], s, t) /\ q[i].kind = "error"
                               /\ \A j \in i + 1..Len(q) : ~ IsMark(q[j], s, t)
    BY <1>4 DEF EndsInError
  <2>2. ASSUME NEW j \in i + n + 1..Len(c) PROVE ~ IsMark(c[j], s, t)
    <3>1. j - n \in i + 1..Len(q) /\ j \in 1..Len(c) /\ ~ (j <= n)
      BY <1>1, <2>1, <2>2
    <3> QED BY <1>1, <2>1, <3>1
  <2> QED BY <1>2, <2>1, <2>2 DEF EndsInError
<1>5. ASSUME NoMark(q, s, t), EndsInError(b, s, t) PROVE EndsInError(c, s, t)
  <2>1. PICK i \in 1..n : /\ IsMark(b[i], s, t) /\ b[i].kind = "error"
                          /\ \A j \in i + 1..n : ~ IsMark(b[j], s, t)
    BY <1>5 DEF EndsInError, n
  <2>2. ASSUME NEW j \in i + 1..Len(c) PROVE ~ IsMark(c[j], s, t)
    <3>1. j \in 1..Len(c)
      BY <1>1, <2>1, <2>2
    <3>2. CASE j \in 1..n
      <4>1. j \in i + 1..n
        BY <1>1, <2>1, <2>2, <3>2
      <4> QED BY <1>2, <2>1, <3>2, <4>1
    <3>3. CASE j - n \in 1..Len(q) /\ c[j] = q[j - n]
      BY <1>5, <3>3 DEF NoMark
    <3> QED BY <1>3, <3>1, <3>2, <3>3
  <2> QED BY <1>2, <2>1, <2>2 DEF EndsInError
<1>6. ASSUME NoMark(q, s, t), NoMark(b, s, t) PROVE NoMark(c, s, t)
  BY <1>2, <1>3, <1>6 DEF NoMark, n
<1> QED BY <1>4, <1>5, <1>6 DEF c

(* What is cut off a turn's writes leaves at most the first of two.        *)
LEMMA OnlyOneBefore ==
  ASSUME NEW k \in {1, 2}, NEW n \in 0..k, n < k, NEW i \in 1..n
  PROVE  i = 1 /\ k = 2
  OBVIOUS

(* What a turn writes, in whole or cut off, does to it.                    *)
LEMMA TurnMarks ==
  ASSUME now \in Nat, NEW s \in Stream, NEW t \in Ticker,
         NEW r \in {"rows", "nothing", "error", "part"},
         NEW u \in Stream, NEW v \in Ticker,
         NEW n \in 0..Len(Writes(s, t, r)),
         <<u, v>> \in IF n < Len(Writes(s, t, r)) THEN erred ELSE Marked(s, t, r)
  PROVE  LET q == SubSeq(Writes(s, t, r), 1, n)
         IN  /\ q \in Seq(Write)
             /\ EndsInError(q, u, v) \/ (NoMark(q, u, v) /\ <<u, v>> \in erred)
<1> DEFINE x == RowsOf(s, t)
           m == MarkOf(s, t, r)
           W == Writes(s, t, r)
           q == SubSeq(W, 1, n)
<1>1. /\ W \in Seq(Write)
      /\ IF r \in {"rows", "part"} THEN Len(W) = 2 /\ W[1] = x /\ W[2] = m
                                    ELSE Len(W) = 1 /\ W[1] = m
  BY TurnWritesAre
<1>2. q \in Seq(Write) /\ Len(q) = n /\ \A i \in 1..n : q[i] = W[i]
  <2>1. \A i \in 1..n : W[i] \in Write
    BY <1>1, ElementOfSeq
  <2> QED BY <1>1, <2>1, SubSeqProperties
<1>3. ~ IsMark(x, u, v) /\ (IsMark(m, u, v) => u = s /\ v = t)
  BY DEF RowsOf, MarkOf, IsMark
<1>4. r \in {"error", "part"} => IsMark(m, s, t) /\ m.kind = "error"
  BY DEF MarkOf, IsMark
<1>5. CASE n < Len(W)
  <2>1. ASSUME NEW i \in 1..n PROVE q[i] = x
    <3>1. Len(W) \in {1, 2}
      BY <1>1
    <3>0. Len(W) \in Nat /\ n \in 0..Len(W)
      BY <3>1
    <3>2. i = 1 /\ Len(W) = 2
      BY <1>5, <3>1, <3>0, OnlyOneBefore
    <3>3. W[1] = x
      BY <1>1, <3>2
    <3> QED BY <1>2, <3>2, <3>3
  <2>2. <<u, v>> \in erred
    BY <1>5
  <2> QED BY <1>2, <1>3, <2>1, <2>2 DEF NoMark
<1>6. CASE ~ n < Len(W)
  <2>1. n = Len(W) /\ <<u, v>> \in Marked(s, t, r)
    <3>1. n = Len(W)
      BY <1>1, <1>6
    <3> QED BY <1>6, <3>1
  <2>2. CASE u = s /\ v = t
    <3>1. r \in {"error", "part"}
      BY <2>1, <2>2 DEF Marked
    <3>2. q[n] = m /\ n \in 1..Len(q) /\ n + 1..Len(q) = {}
      BY <1>1, <1>2, <2>1
    <3>3. EndsInError(q, u, v)
      BY <1>4, <2>2, <3>1, <3>2 DEF EndsInError
    <3> QED BY <1>2, <3>3
  <2>3. CASE ~ (u = s /\ v = t)
    <3>1. <<u, v>> \in erred
      BY <2>1, <2>3 DEF Marked
    <3>2. \A i \in 1..n : q[i] \in {x, m}
      BY <1>1, <1>2, <2>1
    <3>3. NoMark(q, u, v)
      BY <1>2, <1>3, <2>3, <3>2 DEF NoMark
    <3> QED BY <1>2, <3>1, <3>3
  <2> QED BY <2>2, <2>3
<1> QED BY <1>5, <1>6

(* A mark is in the buffer until it is on the NAS.                         *)
LEMMA DeliverMarks ==
  ASSUME DataOK, Deliver, NEW s \in Stream, NEW t \in Ticker, Failed(s, t)
  PROVE  Failed(s, t)'
<1> DEFINE w == Head(buffer)
           n == Len(buffer)
<1>1. /\ buffer \in Seq(Write) /\ buffer # <<>> /\ n \in Nat \ {0}
      /\ buffer' = Tail(buffer) /\ w = buffer[1]
  BY EmptySeq DEF DataOK, Deliver
<1>2. /\ w \in Write /\ Len(buffer') = n - 1
      /\ \A i \in 1..n - 1 : buffer'[i] = buffer[i + 1]
  BY <1>1, HeadTailProperties
<1>3. w.stream \in Stream /\ w.ticker \in Ticker
  BY <1>2 DEF Write
<1>4. /\ IsMark(w, s, t) => syncLog'[s][t].status = w.kind
      /\ ~ IsMark(w, s, t) => syncLog'[s][t] = syncLog[s][t]
  <2>1. CASE w.kind \in {"ok", "error"}
    <3>1. syncLog' = [syncLog EXCEPT ![w.stream][w.ticker] = Stamp(w, @)]
      BY <2>1 DEF Deliver
    <3>2. syncLog'[s][t] = IF s = w.stream /\ t = w.ticker
                           THEN Stamp(w, syncLog[s][t]) ELSE syncLog[s][t]
      BY <1>3, <3>1 DEF DataOK, PerTicker
    <3>3. Stamp(w, syncLog[s][t]).status = w.kind
      BY DEF Stamp
    <3> HIDE DEF w
    <3> QED BY <2>1, <3>2, <3>3 DEF IsMark
  <2>2. CASE w.kind \notin {"ok", "error"}
    <3>1. syncLog' = syncLog
      BY <2>2 DEF Deliver
    <3> QED BY <2>2, <3>1 DEF IsMark
  <2> QED BY <2>1, <2>2
<1> HIDE DEF w, n
<1>5. CASE EndsInError(buffer, s, t)
  <2>1. PICK i \in 1..n : /\ IsMark(buffer[i], s, t) /\ buffer[i].kind = "error"
                          /\ \A j \in i + 1..n : ~ IsMark(buffer[j], s, t)
    BY <1>5 DEF EndsInError, n
  <2>2. \A j \in i..n - 1 : j \in 1..n - 1 /\ j + 1 \in i + 1..n
    BY <1>1, <2>1
  <2>3. \A j \in i..n - 1 : ~ IsMark(buffer'[j], s, t)
    BY <1>2, <2>1, <2>2
  <2>4. CASE i = 1
    <3>1. syncLog'[s][t].status = "error"
      BY <1>1, <1>4, <2>1, <2>4
    <3>2. NoMark(buffer', s, t)
      BY <1>2, <2>3, <2>4 DEF NoMark
    <3> QED BY <3>1, <3>2 DEF Failed, NoMark
  <2>5. CASE i # 1
    <3>1. i - 1 \in 1..n - 1 /\ (i - 1) + 1 = i
      BY <1>1, <2>1, <2>5
    <3>2. buffer'[i - 1] = buffer[i]
      BY <1>2, <3>1
    <3>3. EndsInError(buffer', s, t)
      BY <1>2, <2>1, <2>3, <3>1, <3>2 DEF EndsInError
    <3> QED BY <3>3 DEF Failed, EndsInError
  <2> QED BY <2>4, <2>5
<1>6. CASE NoMark(buffer, s, t) /\ syncLog[s][t].status = "error"
  <2>1. 1 \in 1..n /\ \A i \in 1..n - 1 : i + 1 \in 1..n
    BY <1>1
  <2>2. ~ IsMark(w, s, t) /\ NoMark(buffer', s, t)
    BY <1>1, <1>2, <1>6, <2>1 DEF NoMark, n
  <2> QED BY <1>4, <1>6, <2>2 DEF Failed, NoMark
<1> QED BY <1>5, <1>6 DEF Failed

(* Other writes that end in the mark of a failed ticker, or do not mark    *)
(* it.                                                                     *)
LEMMA BufferedMarks ==
  ASSUME DataOK, NEW q \in Seq(Write), buffer' = buffer \o q, UNCHANGED syncLog,
         NEW s \in Stream, NEW t \in Ticker,
         EndsInError(q, s, t) \/ (NoMark(q, s, t) /\ Failed(s, t))
  PROVE  Failed(s, t)'
<1>1. buffer \in Seq(Write)
  BY DEF DataOK
<1>2. EndsInError(buffer', s, t) \/ (NoMark(buffer', s, t) /\ syncLog'[s][t].status = "error")
  BY <1>1, ConcatMarks DEF Failed
<1> QED BY <1>2 DEF Failed, EndsInError, NoMark

MarksOfErred == \A s \in Stream, t \in Ticker : <<s, t>> \in erred => Failed(s, t)

TodoOK == todo \in [Stream -> SUBSET Ticker]

(* In the first state nothing has failed.                                  *)
LEMMA ErredInit == Init => MarksOfErred /\ TodoOK
  BY DEF Init, MarksOfErred, TodoOK

(* Every step keeps the marks of what failed.                              *)
LEMMA ErredStep == BufferInv /\ MarksOfErred /\ [Next]_vars => MarksOfErred'
<1> SUFFICES ASSUME BufferInv, MarksOfErred, [Next]_vars,
                    NEW u \in Stream, NEW v \in Ticker, <<u, v>> \in erred'
             PROVE  Failed(u, v)'
  BY DEF MarksOfErred
<1>0. DataOK /\ now \in Nat /\ buffer \in Seq(Write)
  BY DEF BufferInv, DataOK
<1>1. CASE \/ Tick \/ MissRun \/ FlushCommand \/ FlushEnds \/ FlushFails \/ RunRaises
           \/ \E run \in Runs : StartRun(run[1], run[2])
           \/ \E s \in Stream : ReadFresh(s)
           \/ \E s \in Stream, t \in Ticker : BatchRaises(s, t)
           \/ UNCHANGED vars
  <2>1. UNCHANGED <<syncLog, buffer, erred>>
    BY <1>1, Zenon DEF Tick, MissRun, FlushCommand, FlushEnds, FlushFails, RunRaises,
       StartRun, ReadFresh, BatchRaises, nasVars, histVars, vars
  <2> QED BY <2>1 DEF MarksOfErred, Failed, EndsInError, NoMark
<1>2. ASSUME NEW s \in Stream, NEW t \in Ticker, NEW r \in Results[s],
             Collect(s, t, r) \/ Killed(s, t, r)
      PROVE  Failed(u, v)'
  <2> DEFINE W == Writes(s, t, r)
  <2>1. r \in {"rows", "nothing", "error", "part"}
    BY ResultAssumption DEF ResultAssumption
  <2>2. PICK n \in 0..Len(W) :
           /\ buffer' = buffer \o SubSeq(W, 1, n) /\ UNCHANGED syncLog
           /\ erred' = IF n < Len(W) THEN erred ELSE Marked(s, t, r)
    <3>1. CASE Collect(s, t, r)
      <4>1. W \in Seq(Write)
        BY <1>0, <2>1, TurnWrites
      <4>2. Len(W) \in 0..Len(W) /\ ~ Len(W) < Len(W) /\ SubSeq(W, 1, Len(W)) = W
        BY <4>1, LenProperties, SubSeqFull
      <4>3. /\ buffer' = buffer \o W /\ UNCHANGED syncLog /\ erred' = Marked(s, t, r)
        BY <3>1, Zenon DEF Collect, nasVars
      <4> HIDE DEF W
      <4> QED BY <4>2, <4>3
    <3>2. CASE Killed(s, t, r)
      BY <3>2, Zenon DEF Killed, nasVars
    <3> QED BY <1>2, <3>1, <3>2
  <2>3. <<u, v>> \in IF n < Len(W) THEN erred ELSE Marked(s, t, r)
    BY <2>2
  <2> DEFINE q == SubSeq(W, 1, n)
  <2>4. q \in Seq(Write) /\ (EndsInError(q, u, v) \/ (NoMark(q, u, v) /\ <<u, v>> \in erred))
    BY <1>0, <2>1, <2>3, TurnMarks
  <2> QED BY <1>0, <2>2, <2>4, BufferedMarks DEF MarksOfErred
<1>3. CASE PhaseEnds \/ FetchEnds
  <2>1. buffer' = buffer \o PhaseWrites /\ UNCHANGED <<syncLog, erred>>
    BY <1>3, Zenon DEF PhaseEnds, FetchEnds, nasVars, histVars
  <2>2. PhaseWrites \in Seq(Write) /\ NoMark(PhaseWrites, u, v)
    <3> DEFINE d == Dates
    <3>1. ~ IsMark(d, u, v)
      BY DEF Dates, IsMark
    <3> HIDE DEF d
    <3>2. PhaseWrites = <<d>> \/ PhaseWrites = <<>>
      BY DEF PhaseWrites, d
    <3>3. NoMark(<<d>>, u, v) /\ NoMark(<<>>, u, v)
      BY <3>1 DEF NoMark
    <3> QED BY <3>2, <3>3, PhaseEndWrites
  <2> QED BY <1>0, <2>1, <2>2, BufferedMarks DEF MarksOfErred
<1>4. CASE Deliver
  <2>1. erred' = erred
    BY <1>4 DEF Deliver, histVars
  <2> QED BY <1>0, <1>4, <2>1, DeliverMarks DEF MarksOfErred
<1> QED BY <1>1, <1>2, <1>3, <1>4 DEF Next

(* A stream's tickers stay tickers.                                        *)
LEMMA TodoStep == TodoOK /\ [Next]_vars => TodoOK'
<1> SUFFICES ASSUME TodoOK, [Next]_vars PROVE TodoOK'
  OBVIOUS
<1>1. CASE \/ Tick \/ MissRun \/ FlushCommand \/ FlushEnds \/ FlushFails \/ RunRaises
           \/ PhaseEnds \/ FetchEnds \/ Deliver \/ UNCHANGED vars
  <2>1. UNCHANGED todo
    BY <1>1, Zenon DEF Tick, MissRun, FlushCommand, FlushEnds, FlushFails, RunRaises,
       PhaseEnds, FetchEnds, Deliver, runVars, vars
  <2> QED BY <2>1 DEF TodoOK
<1>2. ASSUME NEW run \in Runs, StartRun(run[1], run[2]) PROVE TodoOK'
  <2>1. todo' = [s \in Stream |-> {}]
    BY <1>2, Zenon DEF StartRun
  <2> QED BY <2>1 DEF TodoOK
<1>3. ASSUME NEW s \in Stream, ReadFresh(s) PROVE TodoOK'
  <2>1. PICK S \in SUBSET Tickers[s] : todo' = [todo EXCEPT ![s] = S]
    BY <1>3 DEF ReadFresh
  <2>2. S \in SUBSET Ticker
    BY <2>1, StreamAssumption DEF StreamAssumption
  <2> QED BY <2>1, <2>2 DEF TodoOK
<1>4. ASSUME NEW s \in Stream, NEW t \in Ticker PROVE BatchRaises(s, t) => TodoOK'
  BY Zenon DEF BatchRaises, TodoOK
<1>5. ASSUME NEW s \in Stream, NEW t \in Ticker, NEW r \in Results[s],
             Collect(s, t, r) \/ Killed(s, t, r)
      PROVE  TodoOK'
  <2>1. \/ todo' = [todo EXCEPT ![s] = @ \ {t}]
        \/ todo' = [x \in Stream |-> {}]
    BY <1>5, Zenon DEF Collect, Killed
  <2> QED BY <2>1 DEF TodoOK
<1> QED BY <1>1, <1>2, <1>3, <1>4, <1>5 DEF Next

(* What a run may skip does not include what failed last, once its mark is *)
(* on the NAS.                                                             *)
THEOREM FailedIsAskedAgain == Spec => FailedIsRetried
<1> DEFINE Retried == \A s \in Stream : ReadFresh(s) /\ buffer = <<>> =>
                        \A t \in Tickers[s] : <<s, t>> \in erred => t \in todo'[s]
<1>1. MarksOfErred /\ TodoOK => Retried
  <2> SUFFICES ASSUME MarksOfErred, TodoOK, NEW s \in Stream, ReadFresh(s), buffer = <<>>,
                      NEW t \in Tickers[s], <<s, t>> \in erred
               PROVE  t \in todo'[s]
    OBVIOUS
  <2>1. t \in Ticker
    BY StreamAssumption DEF StreamAssumption
  <2>2. syncLog[s][t].status = "error"
    <3>1. Len(buffer) = 0
      OBVIOUS
    <3> QED BY <2>1, <3>1 DEF MarksOfErred, Failed, EndsInError
  <2>3. t \in {v \in Tickers[s] : forced \/ ~ Fresh(s, v)}
    BY <2>2 DEF Fresh
  <2>4. todo' = [todo EXCEPT ![s] = {v \in Tickers[s] : forced \/ ~ Fresh(s, v)}]
    BY DEF ReadFresh
  <2> HIDE DEF Fresh
  <2> QED BY <2>3, <2>4 DEF TodoOK
<1>2. Init => BufferInv /\ MarksOfErred /\ TodoOK
  BY SyncInit, ErredInit
<1>3. /\ BufferInv /\ MarksOfErred /\ TodoOK /\ [Next]_vars
         => (BufferInv /\ MarksOfErred /\ TodoOK)'
  BY SyncStep, ErredStep, TodoStep
<1> QED BY <1>1, <1>2, <1>3, PTL DEF Spec, FailedIsRetried

(***************************************************************************)
(* Types, and where a run is: it is in a phase of its scope, and the       *)
(* streams it is at belong to that phase.                                  *)
(***************************************************************************)
ControlOK ==
  /\ phase \in {"idle", "fetch", "flush"} /\ forced \in BOOLEAN /\ raised \in BOOLEAN
  /\ scope \subseteq 1..Len(Phases) /\ at \in Nat
  /\ started \in Nat /\ unread \subseteq Stream
  /\ called \in PerTicker(Nat) /\ missed \in [Stream -> Nat] /\ cut \in Nat
  /\ erred \subseteq Stream \X Ticker
  /\ failures \in Nat

InPhase ==
  /\ phase = "idle" => scope = {}
  /\ phase = "fetch" => at \in scope /\ started = today
  /\ phase = "fetch" =>
       \A s \in Stream : s \in unread \/ todo[s] # {} => s \in Phases[at]

RunInv == dated \in [Ticker -> SUBSET Nat] /\ ControlOK /\ InPhase

(* A set of naturals has a least element, and Min is that.                 *)
LEMMA MinNat ==
  ASSUME NEW T \in SUBSET Nat, T # {}
  PROVE  Min(T) \in T /\ \A y \in T : Min(T) <= y
<1> DEFINE R == {ss \in Nat \X Nat : ss[1] < ss[2]}
<1>1. IsWellFoundedOn(R, Nat)
  BY NatLessThanWellFounded DEF OpToRel
<1> HIDE DEF R
<1>2. \E x \in T : \A y \in T : ~ (<<y, x>> \in R)
  BY <1>1, WFMin
<1>3. \A x, y \in Nat : ~ (<<y, x>> \in R) => x <= y
  BY DEF R
<1>4. \E x \in T : \A y \in T : x <= y
  BY <1>2, <1>3
<1> QED BY <1>4 DEF Min

(* Today is the day the clock is in.                                       *)
LEMMA TodayIs ==
  ASSUME now \in Nat
  PROVE  /\ today \in Nat /\ Day \in Nat \ {0}
         /\ today * Day <= now /\ now < (today + 1) * Day
         /\ now % Day \in 0..Day - 1
<1>1. \A n \in Nat, d \in Nat \ {0} : n % d \in 0..d - 1 /\ n \div d \in Nat
  OBVIOUS
<1>2. \A n \in Nat, d \in Nat \ {0} : n = d * (n \div d) + (n % d)
  OBVIOUS
<1>3. \A q \in Nat, d \in Nat \ {0} : q * d = d * q /\ (q + 1) * d = d * q + d
  OBVIOUS
<1>4. now \in Nat /\ Day \in Nat \ {0}
  BY TimeAssumption DEF TimeAssumption
<1> DEFINE q == now \div Day
           r == now % Day
           m == Day * q
<1>5. now = m + r /\ r \in 0..Day - 1 /\ q \in Nat
  BY <1>1, <1>2, <1>4
<1>6. q * Day = m /\ (q + 1) * Day = m + Day /\ m \in Nat
  BY <1>3, <1>4, <1>5
<1>7. today = q
  BY DEF today
<1> HIDE DEF q, r, m
<1>8. q * Day <= now /\ now < (q + 1) * Day
  BY <1>4, <1>5, <1>6
<1> QED BY <1>4, <1>5, <1>7, <1>8 DEF r

(* It changes when the next tick is the first of a day.                    *)
LEMMA NextTick ==
  ASSUME now \in Nat, now' = now + 1
  PROVE  /\ today' \in {today, today + 1}
         /\ today' # today => (now + 1) % Day = 0
<1>1. \A n \in Nat, d \in Nat \ {0} :
         /\ (n + 1) \div d \in {n \div d, (n \div d) + 1}
         /\ (n + 1) \div d # n \div d => (n + 1) % d = 0
  OBVIOUS
<1> QED BY <1>1, TimeAssumption DEF TimeAssumption, today

(* A phase holds streams.                                                  *)
LEMMA PhasesHoldStreams ==
  /\ DOMAIN Phases = 1..Len(Phases) /\ Len(Phases) \in Nat
  /\ \A p \in 1..Len(Phases) : Phases[p] \subseteq Stream
  BY StreamAssumption, LenProperties, ElementOfSeq DEF StreamAssumption

(* Nothing runs in the first state.                                        *)
LEMMA RunInit == Init => RunInv
<1> SUFFICES ASSUME Init PROVE RunInv
  OBVIOUS
<1>1. dated \in [Ticker -> SUBSET Nat] /\ ControlOK
  BY DEF Init, ControlOK, PerTicker
<1>2. InPhase
  BY DEF Init, InPhase
<1> QED BY <1>1, <1>2 DEF RunInv

(* Day by day, what a run has passed by has a later day.                   *)
LEMMA PassedByOK ==
  ASSUME RunInv, now \in Nat, NEW S
  PROVE  /\ PassedBy(S) \in [Stream -> Nat]
         /\ \A s \in Stream : PassedBy(S)[s] =
              IF \E p \in S : s \in Phases[p] THEN today ELSE missed[s]
  BY TodayIs DEF PassedBy, RunInv, ControlOK

(* A run starts in the first phase of its scope.                           *)
LEMMA StartStep ==
  ASSUME RunInv, now \in Nat, NEW run \in Runs, StartRun(run[1], run[2])
  PROVE  RunInv' /\ at' \in scope' /\ \A p \in scope' : at' <= p
<1>1. run[1] \subseteq 1..Len(Phases) /\ run[1] # {} /\ run[2] \in BOOLEAN
  BY StreamAssumption DEF StreamAssumption
<1>2. Min(run[1]) \in run[1] /\ \A p \in run[1] : Min(run[1]) <= p
  <2>1. run[1] \in SUBSET Nat
    BY <1>1, PhasesHoldStreams
  <2> QED BY <1>1, <2>1, MinNat
<1>3. /\ phase' = "fetch" /\ scope' = run[1] /\ at' = Min(run[1]) /\ forced' = run[2]
      /\ started' = today /\ todo' = [s \in Stream |-> {}] /\ raised' = FALSE
      /\ missed' = PassedBy(DOMAIN Phases \ run[1])
      /\ UNCHANGED <<now, syncLog, rows, dated, called, cut, erred, failures>>
  BY DEF StartRun, nasVars
<1>4. unread' = Phases[at']
  BY DEF StartRun
<1>5. at' \in 1..Len(Phases) /\ Phases[at'] \subseteq Stream /\ at' \in Nat
  BY <1>1, <1>2, <1>3, PhasesHoldStreams
<1>6. today \in Nat /\ today' = today /\ missed' \in [Stream -> Nat]
  <2>1. today \in Nat
    BY TodayIs
  <2>2. today' = today
    BY <1>3 DEF today
  <2>3. missed' \in [Stream -> Nat]
    BY <1>3, PassedByOK
  <2> QED BY <2>1, <2>2, <2>3
<1>7. ControlOK'
  BY <1>1, <1>3, <1>4, <1>5, <1>6 DEF RunInv, ControlOK
<1>8. InPhase'
  BY <1>2, <1>3, <1>4, <1>5, <1>6 DEF InPhase
<1> QED BY <1>2, <1>3, <1>7, <1>8 DEF RunInv

(* The next phase is the first of the scope after the present one.         *)
LEMMA LaterIs ==
  ASSUME RunInv, Later # {}
  PROVE  /\ Min(Later) \in scope /\ Min(Later) > at
         /\ \A p \in scope : p > at => Min(Later) <= p
<1>1. Later \in SUBSET Nat
  <2>1. scope \subseteq 1..Len(Phases) /\ Len(Phases) \in Nat
    BY PhasesHoldStreams DEF RunInv, ControlOK
  <2>2. ASSUME NEW p \in Later PROVE p \in Nat
    BY <2>1, <2>2 DEF Later
  <2> QED BY <2>2
<1>2. Min(Later) \in Later /\ \A p \in Later : Min(Later) <= p
  BY <1>1, MinNat
<1> QED BY <1>2 DEF Later

(* The next phase begins.                                                  *)
LEMMA PhaseEndsStep ==
  ASSUME RunInv, TodoOK, now \in Nat, PhaseEnds
  PROVE  RunInv'
<1>1. /\ phase = "fetch" /\ Later # {} /\ at' = Min(Later) /\ unread' = Phases[at']
      /\ \A s \in Stream : todo[s] = {}
  BY DEF PhaseEnds, StreamsDone
<1>2. UNCHANGED <<now, dated, phase, scope, forced, started, todo, raised, called, missed,
                  cut, erred, failures>>
  BY DEF PhaseEnds, nasVars, histVars
<1>3. at' \in scope /\ at' \in 1..Len(Phases) /\ Phases[at'] \subseteq Stream /\ at' \in Nat
  <2>1. at' \in scope
    BY <1>1, LaterIs
  <2>2. scope \subseteq 1..Len(Phases)
    BY DEF RunInv, ControlOK
  <2> QED BY <2>1, <2>2, PhasesHoldStreams
<1>4. today' = today
  BY <1>2 DEF today
<1>5. ControlOK'
  BY <1>1, <1>2, <1>3 DEF RunInv, ControlOK
<1>6. InPhase'
  BY <1>1, <1>2, <1>3, <1>4 DEF RunInv, InPhase
<1> QED BY <1>2, <1>5, <1>6 DEF RunInv

(* The UPDATE adds dates of rows.                                          *)
LEMMA DatedStep ==
  ASSUME BufferInv, RunInv, Deliver
  PROVE  dated' \in [Ticker -> SUBSET Nat]
<1>1. \A t \in Ticker : WithDates(t) \subseteq Nat
  BY StreamAssumption DEF StreamAssumption, WithDates, BufferInv, DataOK, PerTicker
<1>2. dated' = dated \/ dated' = [t \in Ticker |-> dated[t] \cup WithDates(t)]
  BY DEF Deliver
<1>3. dated \in [Ticker -> SUBSET Nat]
  BY DEF RunInv
<1> QED BY <1>1, <1>2, <1>3

(* Every step keeps a run where it is or ends it.                          *)
LEMMA RunStep == BufferInv /\ RunInv /\ TodoOK /\ [Next]_vars => RunInv'
<1> SUFFICES ASSUME BufferInv, RunInv, TodoOK, [Next]_vars PROVE RunInv'
  OBVIOUS
<1>0. /\ now \in Nat /\ today \in Nat /\ (now' = now => today' = today)
      /\ dated \in [Ticker -> SUBSET Nat] /\ ControlOK /\ InPhase
  <2>1. now \in Nat
    BY DEF BufferInv, DataOK
  <2> QED BY <2>1, TodayIs DEF RunInv, today
<1>1. CASE Tick
  <2>1. /\ UNCHANGED <<dated, phase, scope, at, forced, started, unread, todo, raised,
                       called, missed, cut, erred, failures>>
        /\ now' = now + 1
    BY <1>1, Zenon DEF Tick, nasVars, runVars, histVars
  <2>2. phase = "fetch" => today' = today
    BY <1>0, <1>1, NextTick DEF Tick
  <2>3. ControlOK'
    BY <1>0, <2>1 DEF ControlOK
  <2>4. InPhase'
    BY <1>0, <2>1, <2>2 DEF InPhase
  <2> QED BY <1>0, <2>1, <2>3, <2>4 DEF RunInv
<1>2. CASE MissRun
  <2>1. /\ UNCHANGED <<now, dated, phase, scope, at, forced, unread, todo, raised,
                       called, missed, cut, erred>>
        /\ started' = today /\ failures' = failures + 1
    BY <1>2, Zenon DEF MissRun, nasVars
  <2>2. phase = "idle"
    BY <1>2, Zenon DEF MissRun
  <2>3. ControlOK'
    BY <1>0, <2>1 DEF ControlOK
  <2>4. InPhase'
    BY <1>0, <2>1, <2>2 DEF InPhase
  <2> QED BY <1>0, <2>1, <2>3, <2>4 DEF RunInv
<1>3. ASSUME NEW run \in Runs, StartRun(run[1], run[2]) PROVE RunInv'
  BY <1>0, <1>3, StartStep
<1>4. ASSUME NEW s \in Stream, ReadFresh(s) PROVE RunInv'
  <2>1. /\ UNCHANGED <<now, dated, phase, scope, at, forced, started, raised,
                       called, missed, cut, erred, failures>>
        /\ unread' = unread \ {s} /\ s \in unread /\ phase = "fetch"
    BY <1>4, Zenon DEF ReadFresh, nasVars, histVars
  <2>2. PICK S : todo' = [todo EXCEPT ![s] = S]
    BY <1>4 DEF ReadFresh
  <2>3. ControlOK'
    BY <1>0, <2>1 DEF ControlOK
  <2>4. \A u \in Stream : u # s => todo'[u] = todo[u]
    BY <2>2 DEF TodoOK
  <2>5. InPhase'
    BY <1>0, <2>1, <2>4 DEF InPhase
  <2> QED BY <1>0, <2>1, <2>3, <2>5 DEF RunInv
<1>5. ASSUME NEW s \in Stream, NEW t \in Ticker, NEW r \in Results[s], Collect(s, t, r)
      PROVE  RunInv'
  <2>1. /\ UNCHANGED <<now, dated, phase, scope, at, forced, started, unread, raised,
                       missed, cut, failures>>
        /\ phase = "fetch" /\ t \in todo[s]
        /\ called' = [called EXCEPT ![s][t] = today]
        /\ erred' = Marked(s, t, r) /\ todo' = [todo EXCEPT ![s] = @ \ {t}]
    BY <1>5, Zenon DEF Collect, CallApi, nasVars
  <2>2. ControlOK'
    BY <1>0, <2>1 DEF ControlOK, PerTicker, Marked
  <2>3. \A u \in Stream : todo'[u] # {} => todo[u] # {}
    BY <2>1 DEF TodoOK
  <2>4. InPhase'
    BY <1>0, <2>1, <2>3 DEF InPhase
  <2> QED BY <1>0, <2>1, <2>2, <2>4 DEF RunInv
<1>6. ASSUME NEW s \in Stream, NEW t \in Ticker, NEW r \in Results[s], Killed(s, t, r)
      PROVE  RunInv'
  <2>1. /\ UNCHANGED <<now, dated, started, missed, cut>>
        /\ called' = [called EXCEPT ![s][t] = today]
        /\ erred' \in {erred, Marked(s, t, r)}
        /\ phase' = "idle" /\ scope' = {} /\ at' = 0 /\ forced' = FALSE /\ raised' = FALSE
        /\ unread' = {} /\ failures' = failures + 1
    BY <1>6, Zenon DEF Killed, CallApi, nasVars
  <2>4. called' \in PerTicker(Nat)
    BY <1>0, <2>1 DEF ControlOK, PerTicker
  <2>5. erred' \subseteq Stream \X Ticker
    BY <1>0, <2>1 DEF ControlOK, Marked
  <2>6. /\ UNCHANGED <<started, missed, cut>>
        /\ phase' = "idle" /\ scope' = {} /\ at' = 0 /\ forced' = FALSE /\ raised' = FALSE
        /\ unread' = {} /\ failures' = failures + 1
    BY <2>1
  <2>2. ControlOK'
    <3>1. /\ phase' \in {"idle", "fetch", "flush"} /\ forced' \in BOOLEAN /\ raised' \in BOOLEAN
          /\ scope' \subseteq 1..Len(Phases) /\ at' \in Nat /\ unread' \subseteq Stream
      BY <2>6
    <3>2. /\ started' \in Nat /\ missed' \in [Stream -> Nat] /\ cut' \in Nat
          /\ failures' \in Nat
      BY <1>0, <2>6 DEF ControlOK
    <3> QED BY <2>4, <2>5, <3>1, <3>2, Zenon DEF ControlOK, PerTicker
  <2>3. InPhase'
    BY <2>6 DEF InPhase
  <2> QED BY <1>0, <2>1, <2>2, <2>3 DEF RunInv
<1>7. ASSUME NEW s \in Stream, NEW t \in Ticker, BatchRaises(s, t) PROVE RunInv'
  <2>1. /\ UNCHANGED <<now, dated, phase, scope, at, forced, started, unread, missed, cut,
                       erred, failures>>
        /\ phase = "fetch"
        /\ called' = [called EXCEPT ![s][t] = today] /\ raised' = TRUE
        /\ todo' = [todo EXCEPT ![s] = {}]
    BY <1>7, Zenon DEF BatchRaises, CallApi, nasVars
  <2>2. ControlOK'
    BY <1>0, <2>1 DEF ControlOK, PerTicker
  <2>3. \A u \in Stream : todo'[u] # {} => todo[u] # {}
    BY <2>1 DEF TodoOK
  <2>4. InPhase'
    BY <1>0, <2>1, <2>3 DEF InPhase
  <2> QED BY <1>0, <2>1, <2>2, <2>4 DEF RunInv
<1>8. CASE PhaseEnds
  BY <1>0, <1>8, PhaseEndsStep
<1>9. CASE RunRaises
  <2>1. /\ UNCHANGED <<now, dated, started, unread, todo, called, erred, failures>>
        /\ phase' = "idle" /\ scope' = {} /\ at' = 0 /\ raised' = FALSE /\ forced' = FALSE
        /\ missed' = PassedBy(Later) /\ cut' \in {cut, today}
    BY <1>9, Zenon DEF RunRaises, nasVars
  <2>2. missed' \in [Stream -> Nat]
    BY <1>0, <2>1, PassedByOK
  <2>3. ControlOK'
    BY <1>0, <2>1, <2>2 DEF ControlOK
  <2>4. InPhase'
    BY <2>1 DEF InPhase
  <2> QED BY <1>0, <2>1, <2>3, <2>4 DEF RunInv
<1>10. CASE FetchEnds \/ FlushCommand \/ FlushEnds
  <2>1. /\ UNCHANGED <<now, dated, started, unread, todo, raised, called, missed, cut, erred,
                       failures>>
        /\ phase' \in {"flush", "idle"} /\ at' \in {at, 0}
        /\ scope' \in {scope, {}}
        /\ phase' = "idle" => scope' = {}
    BY <1>10 DEF FetchEnds, FlushCommand, FlushEnds, nasVars, histVars
  <2>4. forced' \in BOOLEAN
    BY <1>0, <1>10, Zenon DEF FetchEnds, FlushCommand, FlushEnds, ControlOK
  <2>2. ControlOK'
    BY <1>0, <2>1, <2>4 DEF ControlOK
  <2>3. InPhase'
    BY <2>1 DEF InPhase
  <2> QED BY <1>0, <2>1, <2>2, <2>3 DEF RunInv
<1>11. CASE FlushFails
  <2>1. /\ UNCHANGED <<now, dated, at, forced, started, unread, todo, raised, called, missed,
                       cut, erred>>
        /\ phase' = "idle" /\ scope' = {} /\ failures' = failures + 1
    BY <1>11, Zenon DEF FlushFails, nasVars
  <2>2. ControlOK'
    BY <1>0, <2>1 DEF ControlOK
  <2>3. InPhase'
    BY <2>1 DEF InPhase
  <2> QED BY <1>0, <2>1, <2>2, <2>3 DEF RunInv
<1>12. CASE Deliver
  <2>1. /\ UNCHANGED <<now, phase, scope, at, forced, started, unread, todo, raised,
                       called, missed, cut, erred, failures>>
        /\ phase = "flush"
    BY <1>12, Zenon DEF Deliver, runVars, histVars
  <2>2. dated' \in [Ticker -> SUBSET Nat]
    BY <1>12, DatedStep
  <2>3. ControlOK'
    BY <1>0, <2>1 DEF ControlOK
  <2>4. InPhase'
    BY <1>0, <2>1 DEF InPhase
  <2> QED BY <2>2, <2>3, <2>4 DEF RunInv
<1>13. CASE UNCHANGED vars
  <2>1. UNCHANGED <<now, dated, phase, scope, at, forced, started, unread, todo, raised,
                    called, missed, cut, erred, failures>>
    BY <1>13 DEF vars, nasVars, runVars, histVars
  <2>2. ControlOK'
    BY <1>0, <2>1 DEF ControlOK
  <2>3. InPhase'
    BY <1>0, <2>1 DEF InPhase
  <2> QED BY <1>0, <2>1, <2>2, <2>3 DEF RunInv
<1> QED BY <1>1, <1>2, <1>3, <1>4, <1>5, <1>6, <1>7, <1>8, <1>9, <1>10, <1>11, <1>12, <1>13
        DEF Next

(* The invariant of the runs and of their buffer.                          *)
SyncInv == BufferInv /\ RunInv /\ TodoOK

(* It holds in the first state.                                            *)
LEMMA SyncInvInit == Init => SyncInv
  BY SyncInit, RunInit, ErredInit DEF SyncInv

(* Every step keeps it.                                                    *)
LEMMA SyncInvStep == SyncInv /\ [Next]_vars => SyncInv'
  BY SyncStep, RunStep, TodoStep DEF SyncInv

(* The variables keep their types.                                         *)
THEOREM SyncTypeOK == Spec => []TypeOK
<1>1. SyncInv => TypeOK
  BY DEF SyncInv, BufferInv, DataOK, RunInv, ControlOK, TodoOK, TypeOK
<1> QED BY <1>1, SyncInvInit, SyncInvStep, PTL DEF Spec

(***************************************************************************)
(* The announcement dates: after the earnings phase of a run, an UPDATE    *)
(* follows every financial and every earnings row in the buffer, or there  *)
(* is no such row left and the dates are there.                            *)
(***************************************************************************)
NeedsDates(w) == w.kind = "rows" /\ w.stream \in {Financial, Earnings}

NothingToDate(q) == \A i \in 1..Len(q) : ~ NeedsDates(q[i])

EndsInDates(q) ==
  \E i \in 1..Len(q) : q[i].kind = "dates" /\ \A j \in i + 1..Len(q) : ~ NeedsDates(q[j])

AllDated == \A t \in Ticker : WithDates(t) \subseteq dated[t]

Covered == EndsInDates(buffer) \/ (NothingToDate(buffer) /\ AllDated)

(* The run has been through the earnings phase.                            *)
PastEarnings ==
  \/ phase = "fetch" /\ \E p \in scope : p < at /\ Earnings \in Phases[p]
  \/ phase = "flush" /\ \E p \in scope : Earnings \in Phases[p]

DatesInv == PastEarnings => Covered

(* What follows the UPDATE and needs no date does not matter.              *)
LEMMA ConcatDates ==
  ASSUME NEW b \in Seq(Write), NEW q \in Seq(Write)
  PROVE  /\ EndsInDates(q) => EndsInDates(b \o q)
         /\ NothingToDate(q) /\ EndsInDates(b) => EndsInDates(b \o q)
         /\ NothingToDate(q) /\ NothingToDate(b) => NothingToDate(b \o q)
<1> DEFINE c == b \o q
           n == Len(b)
<1>1. /\ Len(c) = n + Len(q) /\ n \in Nat /\ Len(q) \in Nat
      /\ \A i \in 1..n + Len(q) : c[i] = IF i <= n THEN b[i] ELSE q[i - n]
  BY ConcatProperties, LenProperties
<1> HIDE DEF c, n
<1>2. ASSUME NEW i \in 1..Len(c)
      PROVE  (i \in 1..n /\ c[i] = b[i]) \/ (i - n \in 1..Len(q) /\ c[i] = q[i - n])
  BY <1>1
<1>3. ASSUME EndsInDates(q) PROVE EndsInDates(c)
  <2>1. PICK i \in 1..Len(q) : /\ q[i].kind = "dates"
                               /\ \A j \in i + 1..Len(q) : ~ NeedsDates(q[j])
    BY <1>3 DEF EndsInDates
  <2>2. i + n \in 1..Len(c) /\ c[i + n] = q[i]
    <3>1. i + n \in 1..n + Len(q) /\ ~ (i + n <= n) /\ (i + n) - n = i
      BY <1>1
    <3> QED BY <1>1, <3>1
  <2>3. ASSUME NEW j \in i + n + 1..Len(c) PROVE ~ NeedsDates(c[j])
    <3>1. j - n \in i + 1..Len(q) /\ j \in 1..Len(c) /\ ~ (j <= n)
      BY <1>1, <2>1, <2>3
    <3> QED BY <1>1, <2>1, <3>1
  <2> QED BY <2>1, <2>2, <2>3 DEF EndsInDates
<1>4. ASSUME NothingToDate(q), EndsInDates(b) PROVE EndsInDates(c)
  <2>1. PICK i \in 1..n : /\ b[i].kind = "dates"
                          /\ \A j \in i + 1..n : ~ NeedsDates(b[j])
    BY <1>4 DEF EndsInDates, n
  <2>2. i \in 1..Len(c) /\ c[i] = b[i]
    BY <1>1
  <2>3. ASSUME NEW j \in i + 1..Len(c) PROVE ~ NeedsDates(c[j])
    <3>1. j \in 1..Len(c) /\ (j \in 1..n => j \in i + 1..n)
      BY <1>1, <2>1, <2>3
    <3> QED BY <1>2, <1>4, <2>1, <3>1 DEF NothingToDate
  <2> QED BY <2>1, <2>2, <2>3 DEF EndsInDates
<1>5. ASSUME NothingToDate(q), NothingToDate(b) PROVE NothingToDate(c)
  BY <1>2, <1>5 DEF NothingToDate, n
<1> QED BY <1>3, <1>4, <1>5 DEF c

(* A turn of another stream writes nothing that needs dates.               *)
LEMMA OtherTurn ==
  ASSUME now \in Nat, NEW s \in Stream, NEW t \in Ticker, s \notin {Financial, Earnings},
         NEW r \in {"rows", "nothing", "error", "part"}
  PROVE  Writes(s, t, r) \in Seq(Write) /\ NothingToDate(Writes(s, t, r))
<1> DEFINE x == RowsOf(s, t)
           m == MarkOf(s, t, r)
           W == Writes(s, t, r)
<1>1. /\ W \in Seq(Write)
      /\ IF r \in {"rows", "part"} THEN Len(W) = 2 /\ W[1] = x /\ W[2] = m
                                    ELSE Len(W) = 1 /\ W[1] = m
  BY TurnWritesAre
<1>2. ~ NeedsDates(x) /\ ~ NeedsDates(m)
  BY DEF RowsOf, MarkOf, NeedsDates
<1> HIDE DEF x, m, W
<1>3. NothingToDate(W)
  BY <1>1, <1>2 DEF NothingToDate
<1> QED BY <1>1, <1>3 DEF W

(* The end of the earnings phase writes the UPDATE, and that of another    *)
(* phase nothing.                                                          *)
LEMMA PhaseEndDates ==
  /\ PhaseWrites \in Seq(Write)
  /\ IF Earnings \in Phases[at] THEN EndsInDates(PhaseWrites) ELSE NothingToDate(PhaseWrites)
<1> DEFINE d == Dates
<1>1. d.kind = "dates"
  BY DEF Dates
<1> HIDE DEF d
<1>2. EndsInDates(<<d>>) /\ NothingToDate(<<>>)
  BY <1>1 DEF EndsInDates, NothingToDate
<1>3. PhaseWrites = IF Earnings \in Phases[at] THEN <<d>> ELSE <<>>
  BY DEF PhaseWrites, d
<1> QED BY <1>2, <1>3, PhaseEndWrites

(* The delivery of a write keeps the UPDATE behind what it is for, or has  *)
(* done it.                                                                *)
LEMMA DeliverDates ==
  ASSUME BufferInv, RunInv, Deliver, Covered
  PROVE  Covered'
<1> DEFINE w == Head(buffer)
           n == Len(buffer)
<1>1. /\ buffer \in Seq(Write) /\ buffer # <<>> /\ n \in Nat \ {0}
      /\ buffer' = Tail(buffer) /\ w = buffer[1]
  BY EmptySeq DEF BufferInv, DataOK, Deliver
<1>2. /\ w \in Write /\ Len(buffer') = n - 1
      /\ \A i \in 1..n - 1 : buffer'[i] = buffer[i + 1]
  BY <1>1, HeadTailProperties
<1>3. w.stream \in Stream /\ w.ticker \in Ticker
  BY <1>2 DEF Write
<1>4. \/ w.kind = "rows" /\ rows' = [rows EXCEPT ![w.stream][w.ticker] = @ \cup {w.date}]
         /\ dated' = dated
      \/ w.kind \in {"ok", "error"} /\ UNCHANGED <<rows, dated>>
      \/ w.kind = "dates" /\ rows' = rows
         /\ dated' = [t \in Ticker |-> dated[t] \cup WithDates(t)]
  BY DEF Deliver
<1>5. rows \in PerTicker(SUBSET Nat) /\ dated \in [Ticker -> SUBSET Nat]
      /\ {Financial, Earnings} \subseteq Stream
  BY StreamAssumption DEF StreamAssumption, BufferInv, DataOK, RunInv
<1> HIDE DEF w, n
<1>6. CASE EndsInDates(buffer)
  <2>1. PICK i \in 1..n : /\ buffer[i].kind = "dates"
                          /\ \A j \in i + 1..n : ~ NeedsDates(buffer[j])
    BY <1>6 DEF EndsInDates, n
  <2>2. \A j \in i..n - 1 : j \in 1..n - 1 /\ j + 1 \in i + 1..n
    BY <1>1, <2>1
  <2>3. \A j \in i..n - 1 : ~ NeedsDates(buffer'[j])
    BY <1>2, <2>1, <2>2
  <2>4. CASE i = 1
    <3>1. w.kind = "dates"
      BY <1>1, <2>1, <2>4
    <3>2. rows' = rows /\ dated' = [t \in Ticker |-> dated[t] \cup WithDates(t)]
      BY <1>4, <3>1
    <3>3. AllDated'
      BY <3>2 DEF AllDated, WithDates
    <3>4. NothingToDate(buffer')
      BY <1>2, <2>3, <2>4 DEF NothingToDate
    <3> QED BY <3>3, <3>4 DEF Covered, NothingToDate
  <2>5. CASE i # 1
    <3>1. i - 1 \in 1..n - 1 /\ (i - 1) + 1 = i
      BY <1>1, <2>1, <2>5
    <3>2. buffer'[i - 1] = buffer[i]
      BY <1>2, <3>1
    <3>3. EndsInDates(buffer')
      BY <1>2, <2>1, <2>3, <3>1, <3>2 DEF EndsInDates
    <3> QED BY <3>3 DEF Covered, EndsInDates
  <2> QED BY <2>4, <2>5
<1>7. CASE NothingToDate(buffer) /\ AllDated
  <2>1. 1 \in 1..n /\ \A i \in 1..n - 1 : i + 1 \in 1..n
    BY <1>1
  <2>2. ~ NeedsDates(w) /\ NothingToDate(buffer')
    BY <1>1, <1>2, <1>7, <2>1 DEF NothingToDate, n
  <2>3. \A t \in Ticker : rows'[Financial][t] = rows[Financial][t]
                          /\ rows'[Earnings][t] = rows[Earnings][t]
    <3>1. CASE w.kind = "rows"
      <4>1. w.stream \notin {Financial, Earnings}
        BY <2>2, <3>1 DEF NeedsDates
      <4>2. rows' = [rows EXCEPT ![w.stream][w.ticker] = @ \cup {w.date}]
        BY <1>4, <3>1
      <4> QED BY <1>3, <1>5, <4>1, <4>2 DEF PerTicker
    <3>2. CASE w.kind # "rows"
      BY <1>4, <3>2
    <3> QED BY <3>1, <3>2
  <2>4. \A t \in Ticker : dated[t] \subseteq dated'[t]
    BY <1>4, <1>5
  <2>5. AllDated'
    BY <1>7, <2>3, <2>4 DEF AllDated, WithDates
  <2> QED BY <2>2, <2>5 DEF Covered, NothingToDate
<1> QED BY <1>6, <1>7 DEF Covered

(* Writes that do not need dates leave it covered, and so does the UPDATE. *)
LEMMA BufferedDates ==
  ASSUME DataOK, NEW q \in Seq(Write), buffer' = buffer \o q, UNCHANGED <<rows, dated>>,
         EndsInDates(q) \/ (NothingToDate(q) /\ Covered)
  PROVE  Covered'
<1>1. buffer \in Seq(Write)
  BY DEF DataOK
<1>2. EndsInDates(buffer') \/ (NothingToDate(buffer') /\ AllDated)
  BY <1>1, ConcatDates DEF Covered
<1>3. AllDated => AllDated'
  BY DEF AllDated, WithDates
<1> QED BY <1>2, <1>3 DEF Covered, EndsInDates, NothingToDate

(* No stream that needs dates is collected after the earnings.             *)
LEMMA NotAfterEarnings ==
  ASSUME SyncInv, phase = "fetch", PastEarnings, NEW s \in Stream, todo[s] # {}
  PROVE  s \notin {Financial, Earnings}
<1>1. s \in Phases[at] /\ at \in scope /\ scope \subseteq 1..Len(Phases)
  BY DEF SyncInv, RunInv, ControlOK, InPhase
<1>2. PICK p \in scope : p < at /\ Earnings \in Phases[p]
  BY DEF PastEarnings
<1>3. p \in DOMAIN Phases /\ at \in DOMAIN Phases /\ p \in Nat /\ at \in Nat
  BY <1>1, <1>2, PhasesHoldStreams
<1>4. \A q1, q2 \in DOMAIN Phases : Earnings \in Phases[q1] /\ Earnings \in Phases[q2] => q1 = q2
  BY StreamAssumption, PhaseAssumption DEF StreamAssumption, PhaseAssumption
<1>5. Financial \in Phases[at] => at <= p
  BY <1>2, <1>3, PhaseAssumption DEF PhaseAssumption
<1> QED BY <1>1, <1>2, <1>3, <1>4, <1>5

(* Nothing is past the earnings in the first state.                        *)
LEMMA DatesInit == Init => DatesInv
  BY DEF Init, DatesInv, PastEarnings

(* Every step keeps it covered.                                            *)
LEMMA DatesStep == SyncInv /\ DatesInv /\ [Next]_vars => DatesInv'
<1> SUFFICES ASSUME SyncInv, DatesInv, [Next]_vars, PastEarnings' PROVE Covered'
  BY DEF DatesInv
<1>0. BufferInv /\ RunInv /\ DataOK /\ now \in Nat /\ TodoOK
  BY DEF SyncInv, BufferInv, DataOK
<1>1. ASSUME PastEarnings, UNCHANGED <<rows, dated, buffer>> PROVE Covered'
  BY <1>1 DEF DatesInv, Covered, EndsInDates, NothingToDate, AllDated, WithDates
<1>2. CASE \/ Tick \/ MissRun \/ (\E s \in Stream : ReadFresh(s))
           \/ (\E s \in Stream, t \in Ticker : BatchRaises(s, t)) \/ UNCHANGED vars
  <2>1. UNCHANGED <<rows, dated, buffer, phase, scope, at>>
    BY <1>2, Zenon DEF Tick, MissRun, ReadFresh, BatchRaises, nasVars, runVars, vars
  <2>2. PastEarnings
    BY <2>1 DEF PastEarnings
  <2> QED BY <1>1, <2>1, <2>2
<1>3. ASSUME NEW run \in Runs, StartRun(run[1], run[2]) PROVE Covered'
  <2>1. phase' = "fetch"
    BY <1>3, Zenon DEF StartRun
  <2>2. at' \in scope' /\ (\A p \in scope' : at' <= p) /\ RunInv'
    BY <1>0, <1>3, StartStep
  <2>3. scope' \subseteq 1..Len(Phases)
    BY <2>2 DEF RunInv, ControlOK
  <2>4. \A p \in scope' : ~ (p < at')
    BY <2>2, <2>3, PhasesHoldStreams
  <2> QED BY <2>1, <2>4 DEF PastEarnings
<1>4. ASSUME NEW s \in Stream, NEW t \in Ticker, NEW r \in Results[s], Collect(s, t, r)
      PROVE  Covered'
  <2>1. /\ UNCHANGED <<rows, dated, phase, scope, at>> /\ phase = "fetch" /\ t \in todo[s]
        /\ buffer' = buffer \o Writes(s, t, r)
    BY <1>4, Zenon DEF Collect, CallApi, nasVars
  <2>2. PastEarnings
    BY <2>1 DEF PastEarnings
  <2>3. s \notin {Financial, Earnings}
    BY <2>1, <2>2, NotAfterEarnings
  <2>4. r \in {"rows", "nothing", "error", "part"}
    BY ResultAssumption DEF ResultAssumption
  <2>5. Writes(s, t, r) \in Seq(Write) /\ NothingToDate(Writes(s, t, r))
    BY <1>0, <2>3, <2>4, OtherTurn
  <2> QED BY <1>0, <2>1, <2>2, <2>5, BufferedDates DEF DatesInv
<1>5. CASE \/ (\E s \in Stream, t \in Ticker : \E r \in Results[s] : Killed(s, t, r))
           \/ RunRaises \/ FlushEnds \/ FlushFails
  <2>1. phase' = "idle"
    BY <1>5, Zenon DEF Killed, RunRaises, FlushEnds, FlushFails
  <2> QED BY <2>1 DEF PastEarnings
<1>6. CASE PhaseEnds \/ FetchEnds
  <2>1. /\ buffer' = buffer \o PhaseWrites /\ UNCHANGED <<rows, dated, scope>>
        /\ phase = "fetch"
    BY <1>6, Zenon DEF PhaseEnds, FetchEnds, StreamsDone, nasVars
  <2>2. CASE Earnings \in Phases[at]
    BY <1>0, <2>1, <2>2, PhaseEndDates, BufferedDates
  <2>3. CASE Earnings \notin Phases[at]
    <3>1. PICK p \in scope : Earnings \in Phases[p] /\ p <= at
      <4>0. scope \subseteq 1..Len(Phases) /\ at \in Nat
        BY <1>0 DEF RunInv, ControlOK
      <4>1. CASE PhaseEnds
        <5>1. at' = Min(Later) /\ Later # {} /\ phase' = "fetch" /\ scope' = scope
          BY <2>1, <4>1, Zenon DEF PhaseEnds
        <5>2. PICK p \in scope : p < at' /\ Earnings \in Phases[p]
          BY <5>1 DEF PastEarnings
        <5>3. Min(Later) \in scope /\ (p > at => Min(Later) <= p)
          BY <1>0, <5>1, <5>2, LaterIs
        <5>4. p \in Nat /\ Min(Later) \in Nat
          <6>1. \A x \in scope : x \in Nat
            BY <4>0, PhasesHoldStreams
          <6> QED BY <5>2, <5>3, <6>1
        <5> QED BY <4>0, <5>1, <5>2, <5>3, <5>4
      <4>2. CASE FetchEnds
        <5>1. Later = {} /\ phase' = "flush" /\ scope' = scope
          BY <2>1, <4>2, Zenon DEF FetchEnds
        <5>2. PICK p \in scope : Earnings \in Phases[p]
          BY <5>1 DEF PastEarnings
        <5>3. ~ (p > at) /\ p \in Nat
          BY <4>0, <5>1, <5>2, PhasesHoldStreams DEF Later
        <5> QED BY <4>0, <5>2, <5>3
      <4> QED BY <1>6, <4>1, <4>2
    <3>2. p # at /\ p \in Nat /\ at \in Nat
      BY <1>0, <2>3, <3>1, PhasesHoldStreams DEF RunInv, ControlOK
    <3>3. PastEarnings
      BY <2>1, <3>1, <3>2 DEF PastEarnings
    <3> QED BY <1>0, <2>1, <2>3, <3>3, PhaseEndDates, BufferedDates DEF DatesInv
  <2> QED BY <2>2, <2>3
<1>7. CASE FlushCommand
  <2>1. phase' = "flush" /\ scope' = scope /\ phase = "idle"
    BY <1>7, Zenon DEF FlushCommand
  <2>2. scope = {}
    BY <1>0, <2>1 DEF RunInv, InPhase
  <2> QED BY <2>1, <2>2 DEF PastEarnings
<1>8. CASE Deliver
  <2>1. phase' = phase /\ scope' = scope /\ at' = at
    BY <1>8, Zenon DEF Deliver, runVars
  <2>2. PastEarnings
    BY <2>1 DEF PastEarnings
  <2> QED BY <1>0, <1>8, <2>2, DeliverDates DEF DatesInv
<1> QED BY <1>2, <1>3, <1>4, <1>5, <1>6, <1>7, <1>8 DEF Next

(* When the flush of a run with the earnings phase is over, every          *)
(* financial row whose announcement is there has its date, whatever the    *)
(* runs before it left out.                                                *)
THEOREM DatesAreFilled == Spec => []DatesFilled
<1>1. DatesInv => DatesFilled
  BY DEF DatesInv, DatesFilled, PastEarnings, Covered, EndsInDates, AllDated
<1> QED BY <1>1, SyncInvInit, SyncInvStep, DatesInit, DatesStep, PTL DEF Spec

(***************************************************************************)
(* Every ticker is asked for in time.  A stamp lies behind the last call   *)
(* by at most what its mark may have waited: no time if the stream is      *)
(* called until the flush, and as long as an older stamp is fresh if the   *)
(* last call was of a forced run, which calls what is fresh, and raised.   *)
(***************************************************************************)

(* The clock: the run of a day is started at its first tick.               *)
ClockOK ==
  /\ started <= today /\ now <= (started + 1) * Day
  /\ now % Day # 0 => started = today
  /\ phase = "fetch" => started > 0
  /\ cut <= started
  /\ \A s \in Stream, t \in Ticker : syncLog[s][t].run <= now

(* The run that is going on is through with a ticker.                      *)
Over(s, t) ==
  phase = "fetch" =>
    \A p \in scope : s \in Phases[p] =>
      p < at \/ (p = at /\ s \notin unread /\ t \notin todo[s])

(* A ticker was asked for within its period, on a day: what AttemptedInTime*)
(* says.                                                                   *)
Within(s, t, d) ==
  \/ called[s][t] + Refresh[s] >= d
  \/ missed[s] > 0 /\ missed[s] + Refresh[s] >= d
  \/ called[s][t] \in 1..cut /\ called[s][t] + 2 * Refresh[s] >= d

(* What a stamp may be.                                                    *)
StampedBy(s, t, x) ==
  \/ x <= (called[s][t] + 1) * Day
  \/ missed[s] > 0 /\ x <= (missed[s] + 1) * Day
  \/ called[s][t] \in 1..cut /\ x <= (called[s][t] + Refresh[s] + 1) * Day

(* What makes a buffered mark wait.                                        *)
Waits(s, t) ==
  \/ called[s][t] = started
  \/ missed[s] = started /\ started > 0
  \/ called[s][t] \in 1..cut /\ started <= called[s][t] + Refresh[s]

StampsInv ==
  \A s \in Stream : \A t \in Tickers[s] :
    syncLog[s][t].status = "ok" => StampedBy(s, t, syncLog[s][t].run)

TodoInv ==
  \A s \in Stream : \A t \in Tickers[s] :
    phase = "fetch" /\ ~ forced /\ t \in todo[s] => ~ Fresh(s, t)

(* A ticker with a buffered mark is not fresh, unless the call was forced. *)
MarksInv ==
  \A s \in Stream : \A t \in Tickers[s] :
    phase # "flush" /\ ~ NoMark(buffer, s, t) /\ Fresh(s, t) =>
      /\ called[s][t] > 0 /\ syncLog[s][t].run < (called[s][t] + 1) * Day
      /\ \/ called[s][t] <= cut
         \/ phase = "fetch" /\ forced /\ called[s][t] = started

OverInv ==
  \A s \in Stream : \A t \in Tickers[s] :
    Over(s, t) => Within(s, t, started) /\ (NoMark(buffer, s, t) \/ Waits(s, t))

TodoOfStream == \A s \in Stream : todo[s] \subseteq Tickers[s]

TimeInv ==
  failures = 0 =>
    ClockOK /\ StampsInv /\ TodoInv /\ MarksInv /\ OverInv /\ TodoOfStream

TimeParts == ClockOK /\ StampsInv /\ TodoInv /\ MarksInv /\ OverInv /\ TodoOfStream

(* The values that these are about.                                        *)
LEMMA TimeTypes ==
  ASSUME SyncInv
  PROVE  /\ now \in Nat /\ today \in Nat /\ started \in Nat /\ cut \in Nat /\ Day \in Nat \ {0}
         /\ today * Day <= now /\ now < (today + 1) * Day
         /\ todo \in [Stream -> SUBSET Ticker] /\ called \in PerTicker(Nat)
         /\ missed \in [Stream -> Nat] /\ buffer \in Seq(Write)
         /\ \A s \in Stream : /\ Tickers[s] \subseteq Ticker /\ Refresh[s] \in Nat \ {0}
                              /\ missed[s] \in Nat
         /\ \A s \in Stream, t \in Ticker : /\ called[s][t] \in Nat
                                            /\ syncLog[s][t].run \in Nat
<1>1. /\ now \in Nat /\ started \in Nat /\ cut \in Nat
      /\ todo \in [Stream -> SUBSET Ticker] /\ called \in PerTicker(Nat)
      /\ missed \in [Stream -> Nat] /\ buffer \in Seq(Write)
  BY DEF SyncInv, BufferInv, DataOK, RunInv, ControlOK, TodoOK
<1>2. \A s \in Stream, t \in Ticker : syncLog[s][t].run \in Nat
  <2>1. syncLog \in PerTicker(LogEntry)
    BY DEF SyncInv, BufferInv, DataOK
  <2> QED BY <2>1 DEF PerTicker, LogEntry
<1>3. \A s \in Stream : Tickers[s] \subseteq Ticker /\ Refresh[s] \in Nat \ {0}
  BY StreamAssumption DEF StreamAssumption
<1>4. \A s \in Stream, t \in Ticker : called[s][t] \in Nat
  BY <1>1 DEF PerTicker
<1> QED BY <1>1, <1>2, <1>3, <1>4, TodayIs

(* A stamp that is fresh is not too old.                                   *)
LEMMA FreshDays ==
  ASSUME NEW c \in Nat, NEW r \in Nat, NEW x \in Nat, NEW n \in Nat, NEW d \in Nat,
         d * Day <= n, n < x + r * Day, x <= (c + 1) * Day
  PROVE  d <= c + r
<1>1. Day \in Nat /\ Day > 0
  BY TimeAssumption DEF TimeAssumption
<1>2. SUFFICES ASSUME d >= c + r + 1 PROVE FALSE
  OBVIOUS
<1>3. PICK k \in Nat : d = (c + 1) + r + k
  <2>1. d - (c + r + 1) \in Nat /\ d = (c + 1) + r + (d - (c + r + 1))
    BY <1>2
  <2> QED BY <2>1
<1>4. d * Day = (c + 1) * Day + r * Day + k * Day
  BY <1>1, <1>3
<1>5. k * Day >= 0 /\ (c + 1) * Day \in Nat /\ r * Day \in Nat /\ k * Day \in Nat
  BY <1>1
<1> QED BY <1>4, <1>5

(* Later days end later.                                                   *)
LEMMA DayMono ==
  ASSUME NEW c \in Nat, NEW d \in Nat, c <= d
  PROVE  c * Day <= d * Day
<1>1. Day \in Nat
  BY TimeAssumption DEF TimeAssumption
<1>2. PICK k \in Nat : d = c + k
  <2>1. d - c \in Nat /\ d = c + (d - c)
    OBVIOUS
  <2> QED BY <2>1
<1>3. d * Day = c * Day + k * Day /\ k * Day \in Nat /\ c * Day \in Nat
  BY <1>1, <1>2
<1> QED BY <1>3

(* What is fresh was asked for in time.                                    *)
LEMMA FreshInTime ==
  ASSUME SyncInv, StampsInv, NEW s \in Stream, NEW t \in Tickers[s], Fresh(s, t)
  PROVE  Within(s, t, today)
<1> DEFINE c == called[s][t]
           m == missed[s]
           r == Refresh[s]
           x == syncLog[s][t].run
<1>1. /\ c \in Nat /\ m \in Nat /\ r \in Nat /\ x \in Nat /\ now \in Nat /\ today \in Nat
      /\ today * Day <= now /\ cut \in Nat
  BY TimeTypes
<1>2. now < x + r * Day
  BY DEF Fresh
<1>3. StampedBy(s, t, x)
  BY DEF StampsInv, Fresh
<1> HIDE DEF c, m, r, x
<1>4. CASE x <= (c + 1) * Day
  <2>1. today <= c + r
    BY <1>1, <1>2, <1>4, FreshDays
  <2> QED BY <1>1, <2>1 DEF Within, c, r
<1>5. CASE m > 0 /\ x <= (m + 1) * Day
  <2>1. today <= m + r
    BY <1>1, <1>2, <1>5, FreshDays
  <2> QED BY <1>1, <1>5, <2>1 DEF Within, m, r
<1>6. CASE c \in 1..cut /\ x <= (c + r + 1) * Day
  <2>1. c + r \in Nat /\ x <= ((c + r) + 1) * Day
    BY <1>1, <1>6
  <2>2. today <= (c + r) + r
    BY <1>1, <1>2, <2>1, FreshDays
  <2>3. c + 2 * r >= today
    BY <1>1, <2>2
  <2> QED BY <1>6, <2>3 DEF Within, c, r
<1> QED BY <1>3, <1>4, <1>5, <1>6 DEF StampedBy, c, m, r

(* Calls, runs that do not get to a stream, and runs that raise leave the  *)
(* stamps explained.                                                       *)
LEMMA StampsKept ==
  ASSUME SyncInv, ClockOK, StampsInv, UNCHANGED syncLog, today > 0,
         \A s \in Stream : missed'[s] \in {missed[s], today},
         \A s \in Stream, t \in Ticker : called'[s][t] \in {called[s][t], today},
         cut' \in Nat, cut' >= cut
  PROVE  StampsInv'
<1> SUFFICES ASSUME NEW s \in Stream, NEW t \in Tickers[s], syncLog[s][t].status = "ok"
             PROVE  StampedBy(s, t, syncLog[s][t].run)'
  BY DEF StampsInv
<1> DEFINE x == syncLog[s][t].run
<1>1. /\ t \in Ticker /\ called[s][t] \in Nat /\ missed[s] \in Nat /\ x \in Nat /\ cut \in Nat
      /\ now \in Nat /\ today \in Nat /\ now < (today + 1) * Day
  BY TimeTypes
<1>2. x <= now
  BY <1>1 DEF ClockOK
<1>3. StampedBy(s, t, x)
  BY DEF StampsInv
<1>4. x' = x
  OBVIOUS
<1> HIDE DEF x
<1>5. x <= (today + 1) * Day
  <2>1. \A y \in Int : now < y => x <= y
    BY <1>1, <1>2
  <2>2. (today + 1) * Day \in Int
    BY <1>1, TimeAssumption DEF TimeAssumption
  <2> QED BY <1>1, <2>1, <2>2
<1>6. CASE called'[s][t] = today
  BY <1>4, <1>5, <1>6 DEF StampedBy, x
<1>7. CASE missed'[s] = today
  BY <1>4, <1>5, <1>7 DEF StampedBy, x
<1>8. CASE called'[s][t] = called[s][t] /\ missed'[s] = missed[s]
  <2>1. called[s][t] \in 1..cut => called[s][t] \in 1..cut'
    BY <1>1
  <2> QED BY <1>3, <1>4, <1>8, <2>1 DEF StampedBy, x
<1> QED BY <1>1, <1>6, <1>7, <1>8

(* The rest of a run is not fresher.                                       *)
LEMMA TodoKept ==
  ASSUME SyncInv, TodoInv, TodoOfStream, UNCHANGED syncLog, now' \in Nat, now' >= now,
         \A s \in Stream : todo'[s] \subseteq todo[s],
         phase' = "fetch" => phase = "fetch" /\ forced' = forced
  PROVE  TodoInv' /\ TodoOfStream'
<1>1. \A s \in Stream, t \in Ticker : Fresh(s, t)' => Fresh(s, t)
  <2> SUFFICES ASSUME NEW s \in Stream, NEW t \in Ticker, Fresh(s, t)' PROVE Fresh(s, t)
    OBVIOUS
  <2> DEFINE x == syncLog[s][t].run + Refresh[s] * Day
  <2>1. x \in Int /\ now \in Nat
    BY TimeTypes
  <2>2. syncLog[s][t].status = "ok" /\ x > now'
    BY DEF Fresh
  <2> HIDE DEF x
  <2>3. x > now
    BY <2>1, <2>2
  <2> QED BY <2>2, <2>3 DEF Fresh, x
<1>2. ASSUME NEW s \in Stream, NEW t \in Tickers[s], phase' = "fetch", ~ forced',
             t \in todo'[s]
      PROVE  ~ Fresh(s, t)'
  <2>1. t \in Ticker /\ t \in todo[s] /\ phase = "fetch" /\ ~ forced
    BY <1>2, TimeTypes
  <2> QED BY <1>1, <2>1 DEF TodoInv
<1> QED BY <1>2 DEF TodoInv, TodoOfStream

(* What is not fresh stays so while its mark waits.                        *)
LEMMA MarksKept ==
  ASSUME SyncInv, MarksInv, UNCHANGED <<syncLog, called, cut>>, now' \in Nat, now' >= now,
         \A s \in Stream, t \in Ticker : NoMark(buffer, s, t) => NoMark(buffer, s, t)',
         phase' # "flush" => phase # "flush",
         phase = "fetch" /\ forced => phase' = "fetch" /\ forced' /\ started' = started
  PROVE  MarksInv'
<1> SUFFICES ASSUME NEW s \in Stream, NEW t \in Tickers[s], phase' # "flush",
                    ~ NoMark(buffer, s, t)', Fresh(s, t)'
             PROVE  /\ called[s][t] > 0 /\ syncLog[s][t].run < (called[s][t] + 1) * Day
                    /\ \/ called[s][t] <= cut
                       \/ phase' = "fetch" /\ forced' /\ called[s][t] = started'
  BY DEF MarksInv
<1>1. t \in Ticker /\ syncLog[s][t].run \in Nat /\ Refresh[s] \in Nat /\ now \in Nat
      /\ Day \in Nat
  BY TimeTypes
<1>2. Fresh(s, t)
  <2> DEFINE x == syncLog[s][t].run + Refresh[s] * Day
  <2>1. x \in Int
    BY <1>1
  <2>2. syncLog[s][t].status = "ok" /\ x > now'
    BY DEF Fresh
  <2> HIDE DEF x
  <2>3. x > now
    BY <1>1, <2>1, <2>2
  <2> QED BY <2>2, <2>3 DEF Fresh, x
<1>3. ~ NoMark(buffer, s, t) /\ phase # "flush"
  BY <1>1
<1>4. /\ called[s][t] > 0 /\ syncLog[s][t].run < (called[s][t] + 1) * Day
      /\ \/ called[s][t] <= cut
         \/ phase = "fetch" /\ forced /\ called[s][t] = started
  BY <1>2, <1>3 DEF MarksInv
<1> QED BY <1>4

(* Nor does a run that goes on change what it is through with.             *)
LEMMA OverKept ==
  ASSUME OverInv, UNCHANGED <<called, missed, cut, started>>,
         \A s \in Stream : \A t \in Tickers[s] :
           /\ NoMark(buffer, s, t) => NoMark(buffer, s, t)'
           /\ Over(s, t)' => Over(s, t)
  PROVE  OverInv'
<1> SUFFICES ASSUME NEW s \in Stream, NEW t \in Tickers[s], Over(s, t)'
             PROVE  Within(s, t, started)' /\ (NoMark(buffer, s, t)' \/ Waits(s, t)')
  BY DEF OverInv
<1>1. Within(s, t, started) /\ (NoMark(buffer, s, t) \/ Waits(s, t))
  BY DEF OverInv
<1>2. Within(s, t, started)' /\ (Waits(s, t) => Waits(s, t)')
  BY <1>1 DEF Within, Waits
<1> QED BY <1>1, <1>2

(* A tick: no day ends before its run has been started.                    *)
LEMMA TickTime == SyncInv /\ TimeParts /\ Tick => TimeParts'
<1> SUFFICES ASSUME SyncInv, TimeParts, Tick PROVE TimeParts'
  OBVIOUS
<1>1. /\ now' = now + 1 /\ UNCHANGED <<syncLog, buffer, phase, scope, at, forced, started,
                                       unread, todo, called, missed, cut>>
      /\ ~ CronDue /\ ((now + 1) % Day = 0 => phase = "idle")
  BY DEF Tick, nasVars, runVars, histVars
<1>2. /\ now \in Nat /\ today \in Nat /\ started \in Nat /\ Day \in Nat \ {0}
      /\ now < (today + 1) * Day /\ now' \in Nat /\ now' >= now
      /\ \A s \in Stream, t \in Ticker : syncLog[s][t].run \in Nat
  BY <1>1, TimeTypes
<1>3. ClockOK /\ StampsInv /\ TodoInv /\ MarksInv /\ OverInv /\ TodoOfStream
  BY DEF TimeParts
<1>4. started = today
  BY <1>1, <1>2, <1>3 DEF ClockOK, CronDue
<1>5. today' \in {today, today + 1} /\ (today' # today => (now + 1) % Day = 0)
  BY <1>1, <1>2, NextTick
<1>6. ClockOK'
  <2>1. started' <= today'
    BY <1>1, <1>2, <1>4, <1>5
  <2>2. now' <= (started' + 1) * Day
    <3>1. \A x \in Int : now < x => now + 1 <= x
      BY <1>2
    <3>2. (today + 1) * Day \in Int
      BY <1>2
    <3> QED BY <1>1, <1>2, <1>4, <3>1, <3>2
  <2>3. now' % Day # 0 => started' = today'
    BY <1>1, <1>4, <1>5
  <2>4. phase' = "fetch" => started' > 0
    BY <1>1, <1>3 DEF ClockOK
  <2>5. \A s \in Stream, t \in Ticker : syncLog'[s][t].run <= now'
    BY <1>1, <1>2, <1>3 DEF ClockOK
  <2>6. cut' <= started'
    BY <1>1, <1>3 DEF ClockOK
  <2> QED BY <2>1, <2>2, <2>3, <2>4, <2>5, <2>6 DEF ClockOK
<1>7. StampsInv'
  BY <1>1, <1>3 DEF StampsInv, StampedBy
<1>8. TodoInv' /\ TodoOfStream'
  BY <1>1, <1>2, <1>3, TodoKept
<1>9. MarksInv'
  <2>1. \A s \in Stream, t \in Ticker : NoMark(buffer, s, t) => NoMark(buffer, s, t)'
    BY <1>1 DEF NoMark
  <2> QED BY <1>1, <1>2, <1>3, <2>1, MarksKept
<1>10. OverInv'
  <2>1. \A s \in Stream : \A t \in Tickers[s] :
          /\ NoMark(buffer, s, t) => NoMark(buffer, s, t)'
          /\ Over(s, t)' => Over(s, t)
    BY <1>1 DEF NoMark, Over
  <2> QED BY <1>1, <1>3, <2>1, OverKept
<1> QED BY <1>6, <1>7, <1>8, <1>9, <1>10 DEF TimeParts

(* A run starts: it is through with the streams outside its scope.         *)
LEMMA StartTime ==
  ASSUME SyncInv, TimeParts, NEW run \in Runs, StartRun(run[1], run[2])
  PROVE  TimeParts'
<1>1. /\ phase = "idle" /\ phase' = "fetch" /\ scope' = run[1] /\ started' = today
      /\ started < today /\ todo' = [s \in Stream |-> {}]
      /\ missed' = PassedBy(DOMAIN Phases \ run[1])
      /\ UNCHANGED <<now, syncLog, buffer, called, cut>>
  BY DEF StartRun, CronDue, nasVars
<1>2. unread' = Phases[at']
  BY DEF StartRun
<1>3. /\ now \in Nat /\ today \in Nat /\ started \in Nat /\ Day \in Nat \ {0} /\ cut \in Nat
      /\ today * Day <= now /\ now < (today + 1) * Day /\ now' \in Nat /\ now' >= now
      /\ today' = today /\ today > 0
  BY <1>1, TimeTypes DEF today
<1>4. ClockOK /\ StampsInv /\ TodoInv /\ MarksInv /\ OverInv /\ TodoOfStream
  BY DEF TimeParts
<1>5. /\ RunInv' /\ at' \in scope' /\ (\A p \in scope' : at' <= p)
      /\ (scope' \subseteq 1..Len(Phases))
  <2>1. RunInv' /\ at' \in scope' /\ (\A p \in scope' : at' <= p)
    BY <1>3, StartStep DEF SyncInv
  <2> QED BY <2>1 DEF RunInv, ControlOK
<1>6. \A s \in Stream : missed'[s] = IF \E p \in DOMAIN Phases \ run[1] : s \in Phases[p]
                                     THEN today ELSE missed[s]
  <2>1. RunInv
    BY DEF SyncInv
  <2> QED BY <1>1, <1>3, <2>1, PassedByOK
<1>7. ClockOK'
  <2>1. now' <= (started' + 1) * Day
    <3>1. (today + 1) * Day \in Int
      BY <1>3
    <3> QED BY <1>1, <1>3, <3>1
  <2> QED BY <1>1, <1>3, <1>4, <2>1 DEF ClockOK
<1>8. StampsInv'
  BY <1>1, <1>3, <1>4, <1>6, StampsKept
<1>9. TodoInv' /\ TodoOfStream'
  BY <1>1 DEF TodoInv, TodoOfStream
<1>10. MarksInv'
  <2>1. \A s \in Stream, t \in Ticker : NoMark(buffer, s, t) => NoMark(buffer, s, t)'
    BY <1>1 DEF NoMark
  <2> QED BY <1>1, <1>3, <1>4, <2>1, MarksKept
<1>11. OverInv'
  <2> SUFFICES ASSUME NEW s \in Stream, NEW t \in Tickers[s], Over(s, t)'
               PROVE  Within(s, t, started)' /\ Waits(s, t)'
    BY DEF OverInv
  <2>1. PICK p \in DOMAIN Phases : s \in Phases[p]
    BY PhaseAssumption DEF PhaseAssumption
  <2>2. p \notin scope'
    <3>1. SUFFICES ASSUME p \in scope' PROVE FALSE
      OBVIOUS
    <3>2. p < at' \/ (p = at' /\ s \notin unread')
      BY <1>1, <2>1, <3>1 DEF Over
    <3>3. at' <= p /\ p \in Nat /\ at' \in Nat
      BY <1>5, <3>1, PhasesHoldStreams
    <3>4. p = at'
      BY <3>2, <3>3
    <3> QED BY <1>2, <2>1, <3>2, <3>3, <3>4
  <2>3. missed'[s] = today
    BY <1>1, <1>6, <2>1, <2>2
  <2>4. Refresh[s] \in Nat
    BY TimeTypes
  <2> QED BY <1>1, <1>3, <2>3, <2>4 DEF Within, Waits
<1> QED BY <1>7, <1>8, <1>9, <1>10, <1>11 DEF TimeParts

(* A stream that reads sync_log is through with what is fresh.             *)
LEMMA ReadTime ==
  ASSUME SyncInv, TimeParts, NEW u \in Stream, ReadFresh(u)
  PROVE  TimeParts'
<1> DEFINE S == {t \in Tickers[u] : forced \/ ~ Fresh(u, t)}
<1>1. /\ phase = "fetch" /\ u \in unread /\ unread' = unread \ {u}
      /\ UNCHANGED <<now, syncLog, buffer, phase, scope, at, forced, started, called, missed,
                     cut>>
  BY DEF ReadFresh, nasVars, histVars
<1>2. todo' = [todo EXCEPT ![u] = S]
  BY DEF ReadFresh
<1>3. /\ now \in Nat /\ today \in Nat /\ started \in Nat /\ Day \in Nat \ {0} /\ cut \in Nat
      /\ today * Day <= now /\ now' \in Nat /\ now' >= now /\ today' = today
      /\ todo \in [Stream -> SUBSET Ticker]
  BY <1>1, TimeTypes DEF today
<1>4. ClockOK /\ StampsInv /\ TodoInv /\ MarksInv /\ OverInv /\ TodoOfStream
  BY DEF TimeParts
<1>5. started = today
  BY <1>1 DEF SyncInv, RunInv, InPhase
<1>6. todo'[u] = S /\ \A s \in Stream : s # u => todo'[s] = todo[s]
  BY <1>2, <1>3
<1>7. ClockOK' /\ StampsInv'
  BY <1>1, <1>3, <1>4 DEF ClockOK, StampsInv, StampedBy
<1>8. \A s \in Stream, t \in Ticker : Fresh(s, t)' <=> Fresh(s, t)
  BY <1>1 DEF Fresh
<1>9. TodoInv'
  <2> SUFFICES ASSUME NEW s \in Stream, NEW t \in Tickers[s], ~ forced, t \in todo'[s]
               PROVE  ~ Fresh(s, t)'
    BY <1>1 DEF TodoInv
  <2>1. t \in Ticker
    BY TimeTypes
  <2>2. CASE s = u
    <3>1. ~ Fresh(u, t)
      BY <1>6, <2>2
    <3> QED BY <1>8, <2>1, <2>2, <3>1
  <2>3. CASE s # u
    <3>1. ~ Fresh(s, t)
      BY <1>1, <1>4, <1>6, <2>3 DEF TodoInv
    <3> QED BY <1>8, <2>1, <3>1
  <2> QED BY <2>2, <2>3
<1>10. TodoOfStream'
  BY <1>4, <1>6 DEF TodoOfStream
<1>11. MarksInv'
  <2>1. \A s \in Stream, t \in Ticker : NoMark(buffer, s, t) => NoMark(buffer, s, t)'
    BY <1>1 DEF NoMark
  <2> QED BY <1>1, <1>3, <1>4, <2>1, MarksKept
<1>12. OverInv'
  <2> SUFFICES ASSUME NEW s \in Stream, NEW t \in Tickers[s], Over(s, t)'
               PROVE  Within(s, t, started)' /\ (NoMark(buffer, s, t)' \/ Waits(s, t)')
    BY DEF OverInv
  <2>1. /\ Within(s, t, started)' <=> Within(s, t, started)
        /\ NoMark(buffer, s, t)' <=> NoMark(buffer, s, t)
        /\ Waits(s, t)' <=> Waits(s, t)
    BY <1>1 DEF Within, Waits, NoMark
  <2>2. CASE Over(s, t)
    BY <1>4, <2>1, <2>2 DEF OverInv
  <2>3. CASE ~ Over(s, t)
    <3>1. s = u /\ t \notin S
      BY <1>1, <1>6, <2>3 DEF Over
    <3>2. ~ forced /\ Fresh(s, t)
      BY <3>1
    <3>3. Within(s, t, started)
      BY <1>4, <1>5, <3>2, FreshInTime
    <3>4. ASSUME ~ NoMark(buffer, s, t) PROVE Waits(s, t)
      <4> DEFINE c == called[s][t]
                 r == Refresh[s]
                 x == syncLog[s][t].run
      <4>1. c > 0 /\ x < (c + 1) * Day /\ c <= cut
        BY <1>1, <1>4, <3>2, <3>4 DEF MarksInv
      <4>2. now < x + r * Day
        BY <3>2 DEF Fresh
      <4>3. c \in Nat /\ r \in Nat /\ x \in Nat
        <5>1. t \in Ticker
          BY TimeTypes
        <5> QED BY <5>1, TimeTypes
      <4> HIDE DEF c, r, x
      <4>4. x <= (c + 1) * Day
        <5>1. (c + 1) * Day \in Int
          BY <1>3, <4>3
        <5> QED BY <4>1, <4>3, <5>1
      <4>5. today <= c + r
        BY <1>3, <4>2, <4>3, <4>4, FreshDays
      <4>6. c \in 1..cut
        BY <1>3, <4>1, <4>3
      <4> QED BY <1>5, <4>5, <4>6 DEF Waits, c, r
    <3> QED BY <2>1, <3>3, <3>4
  <2> QED BY <2>2, <2>3
<1> QED BY <1>7, <1>9, <1>10, <1>11, <1>12 DEF TimeParts

(* A call: the last call is of today.                                      *)
LEMMA CalledIs ==
  ASSUME SyncInv, NEW s \in Stream, NEW t \in Ticker,
         called' = [called EXCEPT ![s][t] = today]
  PROVE  \A u \in Stream, v \in Ticker :
           called'[u][v] = IF u = s /\ v = t THEN today ELSE called[u][v]
  BY TimeTypes DEF PerTicker

(* A collection: what is called was not fresh, or the run is forced.       *)
LEMMA CollectTime ==
  ASSUME SyncInv, TimeParts, NEW u \in Stream, NEW v \in Ticker, NEW q \in Seq(Write),
         CallApi(u, v), buffer' = buffer \o q,
         \A i \in 1..Len(q) : \A s, t : IsMark(q[i], s, t) => s = u /\ t = v,
         UNCHANGED <<now, syncLog, phase, scope, at, forced, started, unread, missed, cut>>,
         \A s \in Stream : todo'[s] \subseteq todo[s],
         \A s \in Stream : \A t \in Tickers[s] :
           t \in todo[s] /\ t \notin todo'[s] => s = u /\ t = v
  PROVE  TimeParts'
<1>1. /\ phase = "fetch" /\ v \in todo[u] /\ called' = [called EXCEPT ![u][v] = today]
  BY DEF CallApi
<1>2. /\ now \in Nat /\ today \in Nat /\ started \in Nat /\ Day \in Nat \ {0} /\ cut \in Nat
      /\ today * Day <= now /\ now < (today + 1) * Day /\ now' \in Nat /\ now' >= now
      /\ today' = today /\ buffer \in Seq(Write)
  BY TimeTypes DEF today
<1>3. ClockOK /\ StampsInv /\ TodoInv /\ MarksInv /\ OverInv /\ TodoOfStream
  BY DEF TimeParts
<1>4. started = today /\ today > 0
  BY <1>1, <1>3 DEF SyncInv, RunInv, InPhase, ClockOK
<1>5. \A s \in Stream, t \in Ticker :
        called'[s][t] = IF s = u /\ t = v THEN today ELSE called[s][t]
  BY <1>1, CalledIs
<1>6. ClockOK'
  BY <1>2, <1>3 DEF ClockOK
<1>7. StampsInv'
  <2>1. \A s \in Stream : missed'[s] \in {missed[s], today}
    OBVIOUS
  <2>2. \A s \in Stream, t \in Ticker : called'[s][t] \in {called[s][t], today}
    BY <1>5
  <2> QED BY <1>2, <1>3, <1>4, <2>1, <2>2, StampsKept
<1>8. TodoInv' /\ TodoOfStream'
  BY <1>2, <1>3, TodoKept
<1>9. \A s \in Stream, t \in Ticker : ~ (s = u /\ t = v) =>
        (NoMark(buffer, s, t) => NoMark(buffer, s, t)')
  <2> SUFFICES ASSUME NEW s \in Stream, NEW t \in Ticker, ~ (s = u /\ t = v),
                      NoMark(buffer, s, t)
               PROVE  NoMark(buffer, s, t)'
    OBVIOUS
  <2>1. NoMark(q, s, t)
    BY DEF NoMark
  <2>2. NoMark(buffer', s, t)
    BY <1>2, <2>1, ConcatMarks
  <2> QED BY <2>2 DEF NoMark
<1>10. \A s \in Stream, t \in Ticker : Fresh(s, t)' <=> Fresh(s, t)
  BY DEF Fresh
<1>11. MarksInv'
  <2> SUFFICES ASSUME NEW s \in Stream, NEW t \in Tickers[s], phase # "flush",
                      ~ NoMark(buffer, s, t)', Fresh(s, t)'
               PROVE  /\ called'[s][t] > 0 /\ syncLog[s][t].run < (called'[s][t] + 1) * Day
                      /\ \/ called'[s][t] <= cut
                         \/ phase = "fetch" /\ forced /\ called'[s][t] = started
    BY DEF MarksInv
  <2>1. t \in Ticker /\ syncLog[s][t].run \in Nat
    BY TimeTypes
  <2>2. CASE s = u /\ t = v
    <3>1. forced
      BY <1>1, <1>3, <1>10, <2>1, <2>2 DEF TodoInv
    <3>2. called'[s][t] = today
      BY <1>5, <2>2
    <3>3. syncLog[s][t].run <= now
      BY <1>3, <2>1 DEF ClockOK
    <3>4. syncLog[s][t].run < (today + 1) * Day
      <4>1. (today + 1) * Day \in Int
        BY <1>2
      <4> QED BY <1>2, <2>1, <3>3, <4>1
    <3> QED BY <1>1, <1>4, <3>1, <3>2, <3>4
  <2>3. CASE ~ (s = u /\ t = v)
    <3>1. ~ NoMark(buffer, s, t) /\ Fresh(s, t) /\ called'[s][t] = called[s][t]
      BY <1>5, <1>9, <1>10, <2>1, <2>3
    <3> QED BY <1>3, <3>1 DEF MarksInv
  <2> QED BY <2>2, <2>3
<1>12. OverInv'
  <2> SUFFICES ASSUME NEW s \in Stream, NEW t \in Tickers[s], Over(s, t)'
               PROVE  Within(s, t, started)' /\ (NoMark(buffer, s, t)' \/ Waits(s, t)')
    BY DEF OverInv
  <2>1. t \in Ticker /\ Refresh[s] \in Nat
    BY TimeTypes
  <2>2. CASE s = u /\ t = v
    <3>1. called'[s][t] = today
      BY <1>5, <2>2
    <3> QED BY <1>2, <1>4, <2>1, <3>1 DEF Within, Waits
  <2>3. CASE ~ (s = u /\ t = v)
    <3>1. called'[s][t] = called[s][t]
      BY <1>5, <2>1, <2>3
    <3>2. Over(s, t)
      BY <1>1, <2>3 DEF Over
    <3>3. Within(s, t, started) /\ (NoMark(buffer, s, t) \/ Waits(s, t))
      BY <1>3, <3>2 DEF OverInv
    <3>4. Within(s, t, started)' /\ (Waits(s, t) => Waits(s, t)')
      BY <3>1, <3>3 DEF Within, Waits
    <3> QED BY <1>9, <2>1, <2>3, <3>3, <3>4
  <2> QED BY <2>2, <2>3
<1> QED BY <1>6, <1>7, <1>8, <1>11, <1>12 DEF TimeParts

(* A turn marks its own ticker only.                                       *)
LEMMA OwnMarks ==
  ASSUME now \in Nat, NEW u \in Stream, NEW v \in Ticker,
         NEW r \in {"rows", "nothing", "error", "part"}
  PROVE  /\ Writes(u, v, r) \in Seq(Write)
         /\ \A i \in 1..Len(Writes(u, v, r)) : \A s, t :
              IsMark(Writes(u, v, r)[i], s, t) => s = u /\ t = v
<1> DEFINE x == RowsOf(u, v)
           m == MarkOf(u, v, r)
           W == Writes(u, v, r)
<1>1. /\ W \in Seq(Write)
      /\ IF r \in {"rows", "part"} THEN Len(W) = 2 /\ W[1] = x /\ W[2] = m
                                    ELSE Len(W) = 1 /\ W[1] = m
  BY TurnWritesAre
<1>2. \A s, t : ~ IsMark(x, s, t) /\ (IsMark(m, s, t) => s = u /\ t = v)
  BY DEF RowsOf, MarkOf, IsMark
<1> HIDE DEF x, m, W
<1>3. \A i \in 1..Len(W) : W[i] \in {x, m}
  BY <1>1
<1>4. \A i \in 1..Len(W) : \A s, t : IsMark(W[i], s, t) => s = u /\ t = v
  BY <1>2, <1>3
<1> QED BY <1>1, <1>4 DEF W

(* A turn of ticker_stream.                                                *)
LEMMA TurnTime ==
  ASSUME SyncInv, TimeParts, NEW u \in Stream, NEW v \in Ticker, NEW r \in Results[u],
         Collect(u, v, r)
  PROVE  TimeParts'
<1>1. /\ CallApi(u, v) /\ buffer' = buffer \o Writes(u, v, r)
      /\ todo' = [todo EXCEPT ![u] = @ \ {v}]
      /\ UNCHANGED <<now, syncLog, phase, scope, at, forced, started, unread, missed, cut>>
  BY Zenon DEF Collect, nasVars
<1>2. r \in {"rows", "nothing", "error", "part"}
  BY ResultAssumption DEF ResultAssumption
<1>3. now \in Nat /\ todo \in [Stream -> SUBSET Ticker]
  BY TimeTypes
<1>4. /\ Writes(u, v, r) \in Seq(Write)
      /\ \A i \in 1..Len(Writes(u, v, r)) : \A s, t :
           IsMark(Writes(u, v, r)[i], s, t) => s = u /\ t = v
  BY <1>2, <1>3, OwnMarks
<1>5. \A s \in Stream : todo'[s] = IF s = u THEN todo[s] \ {v} ELSE todo[s]
  BY <1>1, <1>3
<1>6. /\ \A s \in Stream : todo'[s] \subseteq todo[s]
      /\ \A s \in Stream : \A t \in Tickers[s] :
           t \in todo[s] /\ t \notin todo'[s] => s = u /\ t = v
  BY <1>5
<1> DEFINE q == Writes(u, v, r)
<1>7. /\ q \in Seq(Write) /\ buffer' = buffer \o q
      /\ \A i \in 1..Len(q) : \A s, t : IsMark(q[i], s, t) => s = u /\ t = v
  BY <1>1, <1>4
<1> HIDE DEF q
<1>8. /\ CallApi(u, v)
      /\ UNCHANGED <<now, syncLog, phase, scope, at, forced, started, unread, missed, cut>>
  BY <1>1
<1> QED BY <1>6, <1>7, <1>8, CollectTime

(* A batch that raises has called its only ticker.                         *)
LEMMA BatchTime ==
  ASSUME SyncInv, TimeParts, NEW u \in Stream, NEW v \in Ticker, BatchRaises(u, v)
  PROVE  TimeParts'
<1>1. /\ CallApi(u, v) /\ buffer' = buffer /\ u \in BatchStream
      /\ todo' = [todo EXCEPT ![u] = {}]
      /\ UNCHANGED <<now, syncLog, phase, scope, at, forced, started, unread, missed, cut>>
  BY Zenon DEF BatchRaises, nasVars
<1>2. buffer \in Seq(Write) /\ todo \in [Stream -> SUBSET Ticker]
  BY TimeTypes
<1>3. \A s \in Stream : todo'[s] = IF s = u THEN {} ELSE todo[s]
  BY <1>1, <1>2
<1>4. PICK w \in Ticker : Tickers[u] = {w}
  BY <1>1, StreamAssumption DEF StreamAssumption
<1>5. v = w
  BY <1>1, <1>4 DEF CallApi, TimeParts, TodoOfStream
<1>6. /\ \A s \in Stream : todo'[s] \subseteq todo[s]
      /\ \A s \in Stream : \A t \in Tickers[s] :
           t \in todo[s] /\ t \notin todo'[s] => s = u /\ t = v
  BY <1>3, <1>4, <1>5
<1>7. buffer' = buffer \o <<>> /\ <<>> \in Seq(Write)
  BY <1>1, <1>2, ConcatEmptySeq
<1>8. \A i \in 1..Len(<<>>) : \A s, t : IsMark(<<>>[i], s, t) => s = u /\ t = v
  OBVIOUS
<1> DEFINE q == <<>>
<1>9. /\ q \in Seq(Write) /\ buffer' = buffer \o q
      /\ \A i \in 1..Len(q) : \A s, t : IsMark(q[i], s, t) => s = u /\ t = v
  BY <1>7, <1>8
<1> HIDE DEF q
<1> QED BY <1>1, <1>6, <1>9, CollectTime

(* The end of a phase marks nothing.                                       *)
LEMMA PhaseEndMarks ==
  ASSUME SyncInv, buffer' = buffer \o PhaseWrites, NEW s, NEW t, NoMark(buffer, s, t)
  PROVE  NoMark(buffer, s, t)'
<1> DEFINE d == Dates
<1>1. ~ IsMark(d, s, t)
  BY DEF Dates, IsMark
<1> HIDE DEF d
<1>2. PhaseWrites = <<d>> \/ PhaseWrites = <<>>
  BY DEF PhaseWrites, d
<1>3. NoMark(<<d>>, s, t) /\ NoMark(<<>>, s, t)
  BY <1>1 DEF NoMark
<1>4. PhaseWrites \in Seq(Write) /\ NoMark(PhaseWrites, s, t)
  BY <1>2, <1>3, PhaseEndWrites
<1>5. buffer \in Seq(Write)
  BY TimeTypes
<1>6. NoMark(buffer', s, t)
  BY <1>4, <1>5, ConcatMarks
<1> QED BY <1>6 DEF NoMark

(* The next phase begins when the run is through with the one before.      *)
LEMMA PhaseTime ==
  ASSUME SyncInv, TimeParts, PhaseEnds
  PROVE  TimeParts'
<1>1. /\ phase = "fetch" /\ unread = {} /\ (\A s \in Stream : todo[s] = {})
      /\ Later # {} /\ at' = Min(Later) /\ buffer' = buffer \o PhaseWrites
      /\ UNCHANGED <<now, syncLog, phase, scope, forced, started, todo, called, missed, cut>>
  BY DEF PhaseEnds, StreamsDone, nasVars, histVars
<1>2. unread' = Phases[at']
  BY DEF PhaseEnds
<1>3. ClockOK /\ StampsInv /\ TodoInv /\ MarksInv /\ OverInv /\ TodoOfStream
  BY DEF TimeParts
<1>4. now \in Nat /\ now' \in Nat /\ now' >= now /\ today' = today
  BY <1>1, TimeTypes DEF today
<1>5. ClockOK' /\ StampsInv'
  BY <1>1, <1>3, <1>4 DEF ClockOK, StampsInv, StampedBy
<1>6. TodoInv' /\ TodoOfStream'
  BY <1>1, <1>3, <1>4, TodoKept
<1>7. \A s \in Stream, t \in Ticker : NoMark(buffer, s, t) => NoMark(buffer, s, t)'
  BY <1>1, PhaseEndMarks
<1>8. MarksInv'
  BY <1>1, <1>3, <1>4, <1>7, MarksKept
<1>9. ASSUME NEW s \in Stream, NEW t \in Tickers[s], Over(s, t)' PROVE Over(s, t)
  <2> SUFFICES ASSUME NEW p \in scope, s \in Phases[p]
               PROVE  p < at \/ (p = at /\ s \notin unread /\ t \notin todo[s])
    BY DEF Over
  <2>1. p < at' \/ (p = at' /\ s \notin unread')
    BY <1>1, <1>9 DEF Over
  <2>2. p < at'
    BY <1>2, <2>1
  <2>3. at' \in scope /\ (p > at => at' <= p)
    BY <1>1, LaterIs DEF SyncInv
  <2>4. p \in Nat /\ at' \in Nat /\ at \in Nat
    <3>1. scope \subseteq 1..Len(Phases) /\ at \in Nat
      BY DEF SyncInv, RunInv, ControlOK
    <3>2. \A x \in scope : x \in Nat
      BY <3>1, PhasesHoldStreams
    <3> QED BY <2>3, <3>1, <3>2
  <2>5. p < at \/ p = at
    BY <2>2, <2>3, <2>4
  <2> QED BY <1>1, <2>5
<1>10. OverInv'
  <2>1. \A s \in Stream : \A t \in Tickers[s] :
          /\ NoMark(buffer, s, t) => NoMark(buffer, s, t)'
          /\ Over(s, t)' => Over(s, t)
    BY <1>7, <1>9, TimeTypes
  <2> QED BY <1>1, <1>3, <2>1, OverKept
<1> QED BY <1>5, <1>6, <1>8, <1>10 DEF TimeParts

(* The fetch ends when the run is through with its scope.                  *)
LEMMA FetchTime ==
  ASSUME SyncInv, TimeParts, FetchEnds
  PROVE  TimeParts'
<1>1. /\ phase = "fetch" /\ unread = {} /\ (\A s \in Stream : todo[s] = {})
      /\ Later = {} /\ buffer' = buffer \o PhaseWrites /\ phase' = "flush"
      /\ UNCHANGED <<now, syncLog, scope, started, todo, called, missed, cut>>
  BY DEF FetchEnds, StreamsDone, nasVars, histVars
<1>2. ClockOK /\ StampsInv /\ TodoInv /\ MarksInv /\ OverInv /\ TodoOfStream
  BY DEF TimeParts
<1>3. now \in Nat /\ now' \in Nat /\ now' >= now /\ today' = today
  BY <1>1, TimeTypes DEF today
<1>4. ClockOK' /\ StampsInv'
  BY <1>1, <1>2, <1>3 DEF ClockOK, StampsInv, StampedBy
<1>5. TodoInv' /\ TodoOfStream' /\ MarksInv'
  BY <1>1, <1>2 DEF TodoInv, TodoOfStream, MarksInv
<1>6. \A s \in Stream, t \in Ticker : NoMark(buffer, s, t) => NoMark(buffer, s, t)'
  BY <1>1, PhaseEndMarks
<1>7. ASSUME NEW s \in Stream, NEW t \in Tickers[s] PROVE Over(s, t)
  <2> SUFFICES ASSUME NEW p \in scope
               PROVE  p < at \/ (p = at /\ s \notin unread /\ t \notin todo[s])
    BY DEF Over
  <2>1. ~ (p > at)
    BY <1>1 DEF Later
  <2>2. p \in Nat /\ at \in Nat
    <3>1. scope \subseteq 1..Len(Phases) /\ at \in Nat
      BY DEF SyncInv, RunInv, ControlOK
    <3> QED BY <3>1, PhasesHoldStreams
  <2> QED BY <1>1, <2>1, <2>2
<1>8. OverInv'
  <2>1. \A s \in Stream : \A t \in Tickers[s] :
          /\ NoMark(buffer, s, t) => NoMark(buffer, s, t)'
          /\ Over(s, t)' => Over(s, t)
    BY <1>6, <1>7, TimeTypes
  <2> QED BY <1>1, <1>2, <2>1, OverKept
<1> QED BY <1>4, <1>5, <1>8 DEF TimeParts

(* A run that raises misses the later phases; if it was forced, what it    *)
(* has called is remembered as cut off.                                    *)
LEMMA RaisesTime ==
  ASSUME SyncInv, TimeParts, RunRaises
  PROVE  TimeParts'
<1>1. /\ phase = "fetch" /\ unread = {} /\ (\A s \in Stream : todo[s] = {})
      /\ phase' = "idle" /\ missed' = PassedBy(Later)
      /\ cut' = (IF forced THEN today ELSE cut)
      /\ UNCHANGED <<now, syncLog, buffer, started, todo, called>>
  BY DEF RunRaises, StreamsDone, nasVars
<1>2. ClockOK /\ StampsInv /\ TodoInv /\ MarksInv /\ OverInv /\ TodoOfStream
  BY DEF TimeParts
<1>3. /\ now \in Nat /\ now' \in Nat /\ now' >= now /\ today' = today /\ today \in Nat
      /\ cut \in Nat /\ started \in Nat
  BY <1>1, TimeTypes DEF today
<1>4. started = today /\ today > 0
  BY <1>1, <1>2 DEF SyncInv, RunInv, InPhase, ClockOK
<1>5. \A s \in Stream : missed'[s] = IF \E p \in Later : s \in Phases[p]
                                     THEN today ELSE missed[s]
  <2>1. RunInv
    BY DEF SyncInv
  <2> QED BY <1>1, <1>3, <2>1, PassedByOK
<1>6. ClockOK' /\ cut' \in Nat /\ cut' >= cut
  BY <1>1, <1>2, <1>3, <1>4 DEF ClockOK
<1>7. StampsInv'
  <2>1. \A s \in Stream : missed'[s] \in {missed[s], today}
    BY <1>5
  <2>2. \A s \in Stream, t \in Ticker : called'[s][t] \in {called[s][t], today}
    BY <1>1
  <2> QED BY <1>1, <1>2, <1>4, <1>6, <2>1, <2>2, StampsKept
<1>8. TodoInv' /\ TodoOfStream'
  BY <1>1, <1>2 DEF TodoInv, TodoOfStream
<1>9. MarksInv'
  <2> SUFFICES ASSUME NEW s \in Stream, NEW t \in Tickers[s],
                      ~ NoMark(buffer, s, t), Fresh(s, t)
               PROVE  /\ called[s][t] > 0 /\ syncLog[s][t].run < (called[s][t] + 1) * Day
                      /\ called[s][t] <= cut'
    BY <1>1 DEF MarksInv, NoMark, Fresh
  <2>1. /\ called[s][t] > 0 /\ syncLog[s][t].run < (called[s][t] + 1) * Day
        /\ called[s][t] <= cut \/ (forced /\ called[s][t] = started)
    BY <1>1, <1>2 DEF MarksInv
  <2>2. called[s][t] \in Nat
    BY TimeTypes
  <2>3. CASE called[s][t] <= cut
    BY <1>3, <1>6, <2>1, <2>2, <2>3
  <2>4. CASE forced /\ called[s][t] = started
    BY <1>1, <1>3, <1>4, <2>1, <2>2, <2>4
  <2> QED BY <2>1, <2>3, <2>4
<1>10. OverInv'
  <2> SUFFICES ASSUME NEW s \in Stream, NEW t \in Tickers[s]
               PROVE  Within(s, t, started)' /\ (NoMark(buffer, s, t)' \/ Waits(s, t)')
    BY DEF OverInv
  <2>1. /\ t \in Ticker /\ Refresh[s] \in Nat /\ called[s][t] \in Nat
        /\ NoMark(buffer, s, t) <=> NoMark(buffer, s, t)'
    BY <1>1, TimeTypes DEF NoMark
  <2>2. CASE \E p \in Later : s \in Phases[p]
    <3>1. missed'[s] = today
      BY <1>5, <2>2
    <3> QED BY <1>1, <1>3, <1>4, <2>1, <3>1 DEF Within, Waits
  <2>3. CASE ~ \E p \in Later : s \in Phases[p]
    <3>1. missed'[s] = missed[s]
      BY <1>5, <2>3
    <3>2. Over(s, t)
      <4> SUFFICES ASSUME NEW p \in scope, s \in Phases[p]
                   PROVE  p < at \/ (p = at /\ s \notin unread /\ t \notin todo[s])
        BY DEF Over
      <4>1. ~ (p > at)
        BY <2>3 DEF Later
      <4>2. p \in Nat /\ at \in Nat
        <5>1. scope \subseteq 1..Len(Phases) /\ at \in Nat
          BY DEF SyncInv, RunInv, ControlOK
        <5> QED BY <5>1, PhasesHoldStreams
      <4> QED BY <1>1, <4>1, <4>2
    <3>3. Within(s, t, started) /\ (NoMark(buffer, s, t) \/ Waits(s, t))
      BY <1>2, <3>2 DEF OverInv
    <3>4. called[s][t] \in 1..cut => called[s][t] \in 1..cut'
      BY <1>3, <1>6, <2>1
    <3>5. Within(s, t, started)' /\ (Waits(s, t) => Waits(s, t)')
      BY <1>1, <3>1, <3>3, <3>4 DEF Within, Waits
    <3> QED BY <2>1, <3>3, <3>5
  <2> QED BY <2>2, <2>3
<1> QED BY <1>6, <1>7, <1>8, <1>9, <1>10 DEF TimeParts

(* The beginning and the end of a flush.                                   *)
LEMMA FlushTime ==
  ASSUME SyncInv, TimeParts, FlushCommand \/ FlushEnds
  PROVE  TimeParts'
<1>1. /\ phase # "fetch" /\ phase' # "fetch"
      /\ phase' = "flush" \/ buffer = <<>>
      /\ UNCHANGED <<now, syncLog, buffer, started, todo, called, missed, cut>>
  BY DEF FlushCommand, FlushEnds, nasVars, histVars
<1>2. ClockOK /\ StampsInv /\ TodoInv /\ MarksInv /\ OverInv /\ TodoOfStream
  BY DEF TimeParts
<1>3. ClockOK' /\ StampsInv' /\ TodoInv' /\ TodoOfStream'
  <2>1. today' = today
    BY <1>1 DEF today
  <2> QED BY <1>1, <1>2, <2>1 DEF ClockOK, StampsInv, StampedBy, TodoInv, TodoOfStream
<1>4. MarksInv'
  <2>1. buffer = <<>> => \A s, t : NoMark(buffer, s, t)'
    BY <1>1 DEF NoMark
  <2> QED BY <1>1, <2>1 DEF MarksInv
<1>5. OverInv'
  <2>1. \A s \in Stream : \A t \in Tickers[s] :
          /\ NoMark(buffer, s, t) => NoMark(buffer, s, t)'
          /\ Over(s, t)' => Over(s, t)
    BY <1>1 DEF NoMark, Over
  <2> QED BY <1>1, <1>2, <2>1, OverKept
<1> QED BY <1>3, <1>4, <1>5 DEF TimeParts

(* A mark that has waited is stamped within what it waited for.            *)
LEMMA DeliverTime ==
  ASSUME SyncInv, TimeParts, Deliver
  PROVE  TimeParts'
<1> DEFINE w == Head(buffer)
           n == Len(buffer)
<1>1. /\ phase = "flush" /\ buffer # <<>> /\ buffer' = Tail(buffer)
      /\ UNCHANGED <<now, phase, forced, started, todo, called, missed, cut>>
  BY DEF Deliver, runVars, histVars
<1>2. ClockOK /\ StampsInv /\ TodoInv /\ MarksInv /\ OverInv /\ TodoOfStream
  BY DEF TimeParts
<1>3. /\ now \in Nat /\ today' = today /\ started \in Nat /\ buffer \in Seq(Write)
      /\ syncLog \in PerTicker(LogEntry) /\ Day \in Nat \ {0}
  BY <1>1, TimeTypes DEF today, SyncInv, BufferInv, DataOK
<1>4. /\ n \in Nat \ {0} /\ w = buffer[1] /\ w \in Write /\ Len(buffer') = n - 1
      /\ \A i \in 1..n - 1 : buffer'[i] = buffer[i + 1]
  BY <1>1, <1>3, HeadTailProperties, EmptySeq
<1>5. w.stream \in Stream /\ w.ticker \in Ticker
  BY <1>4 DEF Write
<1>6. \A s \in Stream, t \in Ticker :
        syncLog'[s][t] = syncLog[s][t] \/ (IsMark(w, s, t) /\ syncLog'[s][t].run = now)
  <2>1. CASE w.kind \in {"ok", "error"}
    <3>1. syncLog' = [syncLog EXCEPT ![w.stream][w.ticker] = Stamp(w, @)]
      BY <2>1 DEF Deliver
    <3>2. \A s \in Stream, t \in Ticker :
            syncLog'[s][t] = IF s = w.stream /\ t = w.ticker
                             THEN Stamp(w, syncLog[s][t]) ELSE syncLog[s][t]
      BY <1>3, <1>5, <3>1 DEF PerTicker
    <3>3. \A old : Stamp(w, old).run = now
      BY DEF Stamp
    <3> HIDE DEF w
    <3> QED BY <2>1, <3>2, <3>3 DEF IsMark
  <2>2. CASE w.kind \notin {"ok", "error"}
    <3>1. syncLog' = syncLog
      BY <2>2 DEF Deliver
    <3> QED BY <3>1
  <2> QED BY <2>1, <2>2
<1> HIDE DEF w, n
<1>7. \A s \in Stream, t \in Ticker : NoMark(buffer, s, t) => NoMark(buffer, s, t)'
  <2> SUFFICES ASSUME NEW s \in Stream, NEW t \in Ticker, NoMark(buffer, s, t),
                      NEW i \in 1..n - 1
               PROVE  ~ IsMark(buffer'[i], s, t)
    BY <1>4 DEF NoMark
  <2>1. i + 1 \in 1..n
    BY <1>4
  <2> QED BY <1>4, <2>1 DEF NoMark, n
<1>8. ClockOK'
  <2>1. \A s \in Stream, t \in Ticker : syncLog'[s][t].run <= now
    <3> SUFFICES ASSUME NEW s \in Stream, NEW t \in Ticker
                 PROVE  syncLog'[s][t].run <= now
      OBVIOUS
    <3>1. syncLog[s][t].run <= now
      BY <1>2 DEF ClockOK
    <3> QED BY <1>3, <1>6, <3>1
  <2> QED BY <1>1, <1>2, <1>3, <2>1 DEF ClockOK
<1>9. StampsInv'
  <2> SUFFICES ASSUME NEW s \in Stream, NEW t \in Tickers[s], syncLog'[s][t].status = "ok",
                      NEW x, x = syncLog'[s][t].run
               PROVE  StampedBy(s, t, x)'
    BY DEF StampsInv, StampedBy
  <2>0. t \in Ticker /\ called[s][t] \in Nat /\ missed[s] \in Nat /\ Refresh[s] \in Nat
    BY TimeTypes
  <2>1. CASE syncLog'[s][t] = syncLog[s][t]
    <3>1. StampedBy(s, t, syncLog[s][t].run)
      BY <1>2, <2>1 DEF StampsInv
    <3> QED BY <1>1, <2>1, <3>1 DEF StampedBy
  <2>2. CASE IsMark(w, s, t) /\ syncLog'[s][t].run = now
    <3>1. ~ NoMark(buffer, s, t)
      <4>1. 1 \in 1..n
        BY <1>4
      <4> QED BY <1>4, <2>2, <4>1 DEF NoMark, n
    <3>2. Waits(s, t)
      <4>1. Over(s, t)
        BY <1>1 DEF Over
      <4> QED BY <1>2, <3>1, <4>1 DEF OverInv
    <3>3. now <= (started + 1) * Day
      BY <1>2 DEF ClockOK
    <3>4. CASE called[s][t] = started
      BY <1>1, <2>2, <3>3, <3>4 DEF StampedBy
    <3>5. CASE missed[s] = started /\ started > 0
      BY <1>1, <2>2, <3>3, <3>5 DEF StampedBy
    <3>6. CASE called[s][t] \in 1..cut /\ started <= called[s][t] + Refresh[s]
      <4> DEFINE c == called[s][t] + Refresh[s] + 1
      <4>1. c \in Nat /\ started + 1 \in Nat /\ started + 1 <= c
        BY <1>3, <2>0, <3>6
      <4>2. (started + 1) * Day <= c * Day
        BY <4>1, DayMono
      <4>3. (started + 1) * Day \in Int /\ c * Day \in Int
        BY <1>3, <4>1
      <4> HIDE DEF c
      <4>4. now <= c * Day
        BY <1>3, <3>3, <4>2, <4>3
      <4>5. now <= (called[s][t] + Refresh[s] + 1) * Day
        BY <4>4 DEF c
      <4> QED BY <1>1, <2>2, <3>6, <4>5 DEF StampedBy
    <3> QED BY <3>2, <3>4, <3>5, <3>6 DEF Waits
  <2> QED BY <1>6, <2>0, <2>1, <2>2
<1>10. TodoInv' /\ TodoOfStream' /\ MarksInv'
  BY <1>1, <1>2 DEF TodoInv, TodoOfStream, MarksInv
<1>11. OverInv'
  <2>1. \A s \in Stream : \A t \in Tickers[s] :
          /\ NoMark(buffer, s, t) => NoMark(buffer, s, t)'
          /\ Over(s, t)' => Over(s, t)
    BY <1>1, <1>7, TimeTypes DEF Over
  <2> QED BY <1>1, <1>2, <2>1, OverKept
<1> QED BY <1>8, <1>9, <1>10, <1>11 DEF TimeParts

(* Nothing is called, marked or fresh in the first state.                  *)
LEMMA TimeInit == Init => TimeInv
<1> SUFFICES ASSUME Init PROVE TimeInv
  OBVIOUS
<1>1. SyncInv
  BY SyncInvInit
<1>2. /\ now = 0 /\ buffer = <<>> /\ phase = "idle" /\ started = 0 /\ cut = 0
      /\ todo = [s \in Stream |-> {}]
      /\ \A s \in Stream, t \in Ticker :
           syncLog[s][t].status = "none" /\ syncLog[s][t].run = 0 /\ called[s][t] = 0
  BY DEF Init, Never
<1>3. today = 0 /\ Day \in Nat \ {0} /\ now % Day = 0
  <2>1. \A d \in Nat \ {0} : 0 \div d = 0 /\ 0 % d = 0
    OBVIOUS
  <2> QED BY <1>2, <2>1, TimeAssumption DEF TimeAssumption, today
<1>4. ClockOK
  <2>1. (started + 1) * Day = Day
    BY <1>2, <1>3
  <2>2. started <= today /\ now <= (started + 1) * Day /\ cut <= started
    BY <1>2, <1>3, <2>1
  <2>3. \A s \in Stream, t \in Ticker : syncLog[s][t].run <= now
    BY <1>2
  <2> QED BY <1>2, <1>3, <2>2, <2>3 DEF ClockOK
<1>5. \A s \in Stream : \A t \in Tickers[s] : t \in Ticker /\ Refresh[s] \in Nat
  BY <1>1, TimeTypes
<1>6. StampsInv /\ TodoInv /\ TodoOfStream
  BY <1>2, <1>5 DEF StampsInv, TodoInv, TodoOfStream
<1>7. MarksInv /\ OverInv
  <2>1. \A s, t : NoMark(buffer, s, t)
    BY <1>2 DEF NoMark
  <2>2. \A s \in Stream : \A t \in Tickers[s] : Within(s, t, started)
    BY <1>2, <1>5 DEF Within
  <2> QED BY <2>1, <2>2 DEF MarksInv, OverInv
<1> QED BY <1>4, <1>6, <1>7 DEF TimeInv

(* Every step that is no failure keeps it.                                 *)
LEMMA TimeStep == SyncInv /\ TimeInv /\ [Next]_vars => TimeInv'
<1> SUFFICES ASSUME SyncInv, TimeInv, [Next]_vars, failures' = 0 PROVE TimeParts'
  BY DEF TimeInv, TimeParts
<1>0. failures \in Nat
  BY DEF SyncInv, RunInv, ControlOK
<1>1. CASE \/ MissRun \/ FlushFails
           \/ \E s \in Stream, t \in Ticker : \E r \in Results[s] : Killed(s, t, r)
  <2>1. failures' = failures + 1
    BY <1>1, Zenon DEF MissRun, FlushFails, Killed
  <2> QED BY <1>0, <2>1
<1>2. ASSUME UNCHANGED failures PROVE TimeParts
  BY <1>2 DEF TimeInv, TimeParts
<1>3. CASE Tick
  <2>1. UNCHANGED failures
    BY <1>3, Zenon DEF Tick, histVars
  <2> QED BY <1>2, <1>3, <2>1, TickTime
<1>4. ASSUME NEW run \in Runs, StartRun(run[1], run[2]) PROVE TimeParts'
  <2>1. UNCHANGED failures
    BY <1>4, Zenon DEF StartRun
  <2> QED BY <1>2, <1>4, <2>1, StartTime
<1>5. ASSUME NEW s \in Stream, ReadFresh(s) PROVE TimeParts'
  <2>1. UNCHANGED failures
    BY <1>5, Zenon DEF ReadFresh, histVars
  <2> QED BY <1>2, <1>5, <2>1, ReadTime
<1>6. ASSUME NEW s \in Stream, NEW t \in Ticker, NEW r \in Results[s], Collect(s, t, r)
      PROVE  TimeParts'
  <2>1. UNCHANGED failures
    BY <1>6, Zenon DEF Collect
  <2> QED BY <1>2, <1>6, <2>1, TurnTime
<1>7. ASSUME NEW s \in Stream, NEW t \in Ticker, BatchRaises(s, t) PROVE TimeParts'
  <2>1. UNCHANGED failures
    BY <1>7, Zenon DEF BatchRaises
  <2> QED BY <1>2, <1>7, <2>1, BatchTime
<1>8. CASE PhaseEnds
  <2>1. UNCHANGED failures
    BY <1>8, Zenon DEF PhaseEnds, histVars
  <2> QED BY <1>2, <1>8, <2>1, PhaseTime
<1>9. CASE FetchEnds
  <2>1. UNCHANGED failures
    BY <1>9, Zenon DEF FetchEnds, histVars
  <2> QED BY <1>2, <1>9, <2>1, FetchTime
<1>10. CASE RunRaises
  <2>1. UNCHANGED failures
    BY <1>10, Zenon DEF RunRaises
  <2> QED BY <1>2, <1>10, <2>1, RaisesTime
<1>11. CASE FlushCommand \/ FlushEnds
  <2>1. UNCHANGED failures
    BY <1>11, Zenon DEF FlushCommand, FlushEnds, histVars
  <2> QED BY <1>2, <1>11, <2>1, FlushTime
<1>12. CASE Deliver
  <2>1. UNCHANGED failures
    BY <1>12, Zenon DEF Deliver, histVars
  <2> QED BY <1>2, <1>12, <2>1, DeliverTime
<1>13. CASE UNCHANGED vars
  <2>1. UNCHANGED <<now, syncLog, buffer, phase, scope, at, forced, started, unread, todo,
                    called, missed, cut, failures>>
    BY <1>13 DEF vars, nasVars, runVars, histVars
  <2>2. TimeParts /\ today' = today
    BY <1>2, <2>1 DEF today
  <2>3. \A s \in Stream, t \in Ticker : NoMark(buffer, s, t)' <=> NoMark(buffer, s, t)
    BY <2>1 DEF NoMark
  <2>4. /\ ClockOK' /\ StampsInv' /\ TodoInv' /\ TodoOfStream'
    BY <2>1, <2>2 DEF TimeParts, ClockOK, StampsInv, StampedBy, TodoInv, TodoOfStream, Fresh
  <2>5. now \in Nat /\ now' \in Nat /\ now' >= now
    BY <2>1, TimeTypes
  <2>6. MarksInv'
    BY <2>1, <2>2, <2>3, <2>5, MarksKept DEF TimeParts
  <2>7. \A s \in Stream : \A t \in Tickers[s] :
          /\ NoMark(buffer, s, t) => NoMark(buffer, s, t)'
          /\ Over(s, t)' => Over(s, t)
    BY <2>1 DEF NoMark, Over
  <2>8. OverInv'
    BY <2>1, <2>2, <2>7, OverKept DEF TimeParts
  <2> QED BY <2>4, <2>6, <2>8 DEF TimeParts
<1> QED BY <1>1, <1>3, <1>4, <1>5, <1>6, <1>7, <1>8, <1>9, <1>10, <1>11, <1>12, <1>13 DEF Next

(* While no run is missed or killed and no flush fails, every ticker was   *)
(* asked for in time when the run of a day is over, for any periods and    *)
(* scopes.                                                                 *)
THEOREM EverythingIsAttempted == Spec => []AttemptedInTime
<1>1. SyncInv /\ TimeInv => AttemptedInTime
  BY DEF TimeInv, AttemptedInTime, OverInv, Over, Within
<1> QED BY <1>1, SyncInvInit, SyncInvStep, TimeInit, TimeStep, PTL DEF Spec
====
