--------------------------- MODULE FutuTurnProofs ---------------------------
(***************************************************************************)
(* The limiters of FutuClient keep their intervals for any number of       *)
(* threads and methods and any intervals.  The turns of the streams use    *)
(* the client only through FutuClient.call: every step of a turn is a step *)
(* of the client or leaves it alone.  So what is proved of the client      *)
(* holds of the streams, whatever their loops ask for.  And whatever the   *)
(* server has and however a call ends, the loops leave whole tables.       *)
(***************************************************************************)
EXTENDS FutuTurn, TLAPS, FiniteSetTheorems

(***************************************************************************)
(* The client.  LimiterInv is inductive: the thread that sleeps in a       *)
(* limiter holds its lock, so nobody restarts the limiter's clock          *)
(* meanwhile, and with every tick as much is added to the clock as is      *)
(* taken from the sleep.                                                   *)
(***************************************************************************)

(* The first state.                                                        *)
LEMMA LimiterInit == Init => LimiterInv
  BY DelayAssumption, RetryAssumption
     DEF Init, LimiterInv, TypeOK, SleeperHoldsLock, SleepLongEnough, Place,
         DelayAssumption, RetryAssumption

(* Every step keeps the sleepers alone and their sleep long enough.        *)
LEMMA LimiterStep == LimiterInv /\ [Next]_vars => LimiterInv'
<1> SUFFICES ASSUME LimiterInv, [Next]_vars PROVE LimiterInv'
  OBVIOUS
<1> USE DelayAssumption, RetryAssumption, NoThreadAssumption
        DEF DelayAssumption, RetryAssumption, NoThreadAssumption,
            LimiterInv, TypeOK, SleeperHoldsLock, SleepLongEnough, Place,
            Goto, limiterVars
<1>1. ASSUME NEW t \in Thread, NEW m \in Method, Call(t, m) PROVE LimiterInv'
  BY <1>1 DEF Call
<1>2. ASSUME NEW t \in Thread, EnsureCtx(t) PROVE LimiterInv'
  BY <1>2 DEF EnsureCtx
<1>3. ASSUME NEW t \in Thread, OpenCtx(t) PROVE LimiterInv'
  BY <1>3 DEF OpenCtx
<1>4. ASSUME NEW t \in Thread, OpenFails(t) PROVE LimiterInv'
  BY <1>4 DEF OpenFails
<1>5. ASSUME NEW t \in Thread, Acquire(t) PROVE LimiterInv'
  <2>1. CASE since[method[t]] < Delay[method[t]]
    <3>1. /\ pc' = [pc EXCEPT ![t] = "doze"]
          /\ pause' = [pause EXCEPT ![t] = Delay[method[t]] - since[method[t]]]
          /\ lock[method[t]] = NoThread
          /\ lock' = [lock EXCEPT ![method[t]] = t]
          /\ UNCHANGED <<method, attempt, opened, since>>
      BY <1>5, <2>1 DEF Acquire
    <3>2. Delay[method[t]] - since[method[t]] \in Nat
      BY <2>1
    <3>3. TypeOK'
      BY <3>1, <3>2
    <3>4. SleeperHoldsLock' /\ SleepLongEnough'
      BY <3>1, <3>2
    <3> QED BY <3>3, <3>4
  <2>2. CASE ~ since[method[t]] < Delay[method[t]]
    <3>1. /\ pc' = [pc EXCEPT ![t] = "send"]
          /\ lock[method[t]] = NoThread
          /\ since' = [since EXCEPT ![method[t]] = 0]
          /\ UNCHANGED <<method, attempt, pause, opened, lock>>
      BY <1>5, <2>2 DEF Acquire
    <3>2. \A u \in Thread : pc'[u] = "doze" => method[u] # method[t]
      BY <3>1
    <3>3. TypeOK'
      BY <3>1
    <3>4. SleeperHoldsLock' /\ SleepLongEnough'
      BY <3>1, <3>2
    <3> QED BY <3>3, <3>4
  <2> QED BY <2>1, <2>2
<1>6. ASSUME NEW t \in Thread, Permit(t) PROVE LimiterInv'
  <2>1. /\ pc[t] = "doze"
        /\ pc' = [pc EXCEPT ![t] = "send"]
        /\ since' = [since EXCEPT ![method[t]] = 0]
        /\ lock' = [lock EXCEPT ![method[t]] = NoThread]
        /\ UNCHANGED <<method, attempt, pause, opened>>
    BY <1>6 DEF Permit
  <2>2. \A u \in Thread : pc'[u] = "doze" => method[u] # method[t]
    BY <2>1
  <2>3. TypeOK'
    BY <2>1
  <2>4. SleeperHoldsLock' /\ SleepLongEnough'
    BY <2>1, <2>2
  <2> QED BY <2>3, <2>4
<1>7. ASSUME NEW t \in Thread, Answer(t) PROVE LimiterInv'
  BY <1>7 DEF Answer
<1>8. ASSUME NEW t \in Thread, Refuse(t) PROVE LimiterInv'
  <2>1. Backoff[attempt[t]] \in Nat
    OBVIOUS
  <2>2. CASE attempt[t] + 1 < RetryCount
    <3>1. /\ pc' = [pc EXCEPT ![t] = "backoff"]
          /\ attempt' = [attempt EXCEPT ![t] = attempt[t] + 1]
          /\ pause' = [pause EXCEPT ![t] = Backoff[attempt[t]]]
          /\ UNCHANGED <<method, opened, lock, since>>
      BY <1>8, <2>2 DEF Refuse
    <3>2. attempt[t] + 1 \in 0..RetryCount - 1
      BY <2>2
    <3>3. TypeOK'
      BY <3>1, <3>2, <2>1
    <3>4. SleeperHoldsLock' /\ SleepLongEnough'
      BY <3>1
    <3> QED BY <3>3, <3>4
  <2>3. CASE ~ attempt[t] + 1 < RetryCount
    BY <1>8, <2>3 DEF Refuse
  <2> QED BY <2>2, <2>3
<1>9. ASSUME NEW t \in Thread, Retry(t) PROVE LimiterInv'
  BY <1>9 DEF Retry
<1>10. CASE Tick
  BY <1>10 DEF Tick
<1>11. CASE UNCHANGED vars
  BY <1>11 DEF vars
<1> QED
  BY <1>1, <1>2, <1>3, <1>4, <1>5, <1>6, <1>7, <1>8, <1>9, <1>10, <1>11
     DEF Next, Steps

(* The state of the client is well formed, and a sleeper holds its lock    *)
(* and sleeps long enough, in every reachable state.                       *)
THEOREM LimiterSafe == Spec => []LimiterInv
  BY LimiterInit, LimiterStep, PTL DEF Spec

(* What PermitsSpaced says of one step.                                    *)
Spaced ==
  /\ \A t \in Thread : pc[t] # "send" /\ pc'[t] = "send" =>
       since[method[t]] >= Delay[method[t]] /\ since'[method[t]] = 0
  /\ \A m \in Method : since'[m] < since[m] => since[m] >= Delay[m]

(* Only Acquire and Permit send, and both find the interval over.          *)
LEMMA SpacedStep == LimiterInv /\ [Next]_vars => [Spaced]_vars
<1> SUFFICES ASSUME LimiterInv, Next PROVE Spaced
  OBVIOUS
<1> USE DelayAssumption
        DEF DelayAssumption, Spaced, LimiterInv, TypeOK, Place, Goto, limiterVars
<1>1. ASSUME NEW u \in Thread, Acquire(u) PROVE Spaced
  <2>1. CASE since[method[u]] < Delay[method[u]]
    BY <1>1, <2>1 DEF Acquire
  <2>2. CASE ~ since[method[u]] < Delay[method[u]]
    <3>1. /\ pc' = [pc EXCEPT ![u] = "send"]
          /\ since' = [since EXCEPT ![method[u]] = 0]
          /\ since[method[u]] >= Delay[method[u]]
      BY <1>1, <2>2 DEF Acquire
    <3> QED BY <3>1
  <2> QED BY <2>1, <2>2
<1>2. ASSUME NEW u \in Thread, Permit(u) PROVE Spaced
  <2>1. since[method[u]] + 0 >= Delay[method[u]]
    BY <1>2 DEF Permit, SleepLongEnough
  <2>2. /\ pc' = [pc EXCEPT ![u] = "send"]
        /\ since' = [since EXCEPT ![method[u]] = 0]
    BY <1>2 DEF Permit
  <2> QED BY <2>1, <2>2
<1>3. ASSUME NEW u \in Thread,
             \/ EnsureCtx(u) \/ OpenCtx(u) \/ OpenFails(u)
             \/ Answer(u) \/ Refuse(u) \/ Retry(u)
      PROVE  Spaced
  BY <1>3 DEF EnsureCtx, OpenCtx, OpenFails, Answer, Refuse, Retry
<1>4. ASSUME NEW u \in Thread, NEW m \in Method, Call(u, m) PROVE Spaced
  BY <1>4 DEF Call
<1>5. CASE Tick
  BY <1>5 DEF Tick
<1> QED BY <1>1, <1>2, <1>3, <1>4, <1>5 DEF Next, Steps

(* Two permits of a method are never closer than its interval.             *)
THEOREM LimitsKept == Spec => PermitsSpaced
  BY SpacedStep, LimiterSafe, PTL DEF Spec, PermitsSpaced, Spaced
-----------------------------------------------------------------------------
(***************************************************************************)
(* The turns.                                                              *)
(***************************************************************************)

(* The turns that are taken are turns a thread may take.                   *)
JobsInv ==
  /\ job \in [Thread -> Job]
  /\ \A t \in Thread : job[t] \in Jobs[t]

(* The first turns are among them.                                         *)
LEMMA JobsInit == InitTurn => JobsInv
<1> SUFFICES ASSUME InitTurn PROVE JobsInv
  OBVIOUS
<1>1. \A t \in Thread : job[t] \in Jobs[t] /\ job[t] \in Job
  BY JobAssumption DEF InitTurn, JobAssumption
<1> QED BY <1>1 DEF InitTurn, JobsInv

(* What the steps of a turn do to the client, and to the turn's kind.      *)
LEMMA TurnStepsClient ==
  ASSUME JobsInv, NEW t \in Thread, Proceeds(t)
  PROVE  Next /\ job' = job
<1> USE DEF Next, Steps, turnVars
<1>1. CASE Ask(t)
  <2>1. job[t].method \in Method
    BY JobAssumption DEF JobAssumption, JobsInv, Job
  <2> QED BY <1>1, <2>1 DEF Ask
<1>2. CASE Within(t)
  BY <1>2 DEF Within
<1>3. CASE Whole(t)
  BY <1>3 DEF Whole, Goes
<1>4. CASE PageBySize(t) \/ PageByKey(t)
  BY <1>4 DEF PageBySize, PageByKey, Goes
<1>5. CASE PlainList(t) \/ Period(t)
  BY <1>5 DEF PlainList, Period, Goes
<1>6. CASE Chunk(t) \/ Bisect(t)
  BY <1>6 DEF Chunk, Bisect, Goes
<1>7. CASE NotPages(t) \/ Unexpected(t)
  BY <1>7 DEF NotPages, Unexpected, PassesOver, Leaves
<1>8. CASE Unsupported(t) \/ Raises(t)
  BY <1>8 DEF Unsupported, Raises, Swallow, PassesOver, Leaves
<1> QED
  BY <1>1, <1>2, <1>3, <1>4, <1>5, <1>6, <1>7, <1>8 DEF Proceeds

(* A step of the turns is a step of the client or a stutter of it.         *)
LEMMA TurnRefinesStep ==
  JobsInv /\ [NextTurn]_allVars => [Next]_vars /\ JobsInv'
<1> SUFFICES ASSUME JobsInv, [NextTurn]_allVars PROVE [Next]_vars /\ JobsInv'
  OBVIOUS
<1>1. ASSUME NEW t \in Thread, Proceeds(t) PROVE [Next]_vars /\ JobsInv'
  BY <1>1, TurnStepsClient DEF JobsInv
<1>2. ASSUME NEW t \in Thread, NEW j \in Jobs[t], Begin(t, j)
      PROVE  [Next]_vars /\ JobsInv'
  <2>1. UNCHANGED vars /\ job' = [job EXCEPT ![t] = j]
    BY <1>2 DEF Begin
  <2>2. JobsInv'
    <3>1. j \in Job
      BY JobAssumption DEF JobAssumption
    <3> QED BY <2>1, <3>1 DEF JobsInv
  <2> QED BY <2>1, <2>2
<1>3. CASE Tick /\ UNCHANGED turnVars
  BY <1>3 DEF Next, JobsInv, turnVars
<1>4. CASE UNCHANGED allVars
  BY <1>4 DEF allVars, turnVars, JobsInv
<1> QED BY <1>1, <1>2, <1>3, <1>4 DEF NextTurn

(* The streams' turns implement the client: all it guarantees, they keep.  *)
THEOREM TurnsUseClient == TurnSpec => Spec
<1>1. InitTurn => Init /\ JobsInv
  BY JobsInit DEF InitTurn
<1> QED BY <1>1, TurnRefinesStep, PTL DEF TurnSpec, Spec

(* Whatever the streams ask for, a sleeper holds the lock of its limiter   *)
(* and sleeps long enough.                                                 *)
THEOREM TurnsLimiterSafe == TurnSpec => []LimiterInv
  BY TurnsUseClient, LimiterSafe, PTL

(* Whatever the streams ask for, two permits of a method are its interval  *)
(* apart.                                                                  *)
THEOREM TurnsLimitsKept == TurnSpec => PermitsSpaced
  BY TurnsUseClient, LimitsKept, PTL
-----------------------------------------------------------------------------
(***************************************************************************)
(* What the loops leave behind.  All that a request finds and leaves is    *)
(* said of the values of one thread: its turn j, the requests a, what it   *)
(* got (g), wrote (w) and missed (ms), and its mark mk.                    *)
(***************************************************************************)
Request == [table : Nat, from : Nat, to : Nat]

(* Everything of a table before a cursor has been read.                    *)
HasRead(g, k, from, n) ==
  \A x \in 1..n : from = EndKey \/ x < from => <<k, x>> \in g

(* A page is a part of what the server has, and a run of it.               *)
LEMMA PageIs ==
  ASSUME NEW j \in Job, NEW from \in Nat, NEW items \in PagesAt(j, from)
  PROVE  /\ items \subseteq 1..j.size
         /\ \/ items = {}
            \/ \E a \in 1..j.size, b \in 1..j.size :
                 /\ a <= b /\ items = a..b
                 /\ from # EndKey => a = from
                 /\ b < j.size => b = a + Page - 1
         /\ items = {} /\ from # EndKey => j.size < from
<1>1. j.size \in Nat /\ Page \in Nat \ {0}
  BY JobAssumption DEF JobAssumption, Job
<1>2. items \subseteq 1..j.size
  BY <1>1 DEF PagesAt
<1> DEFINE a == IF from = EndKey THEN 1 ELSE from
           b == IF a + Page - 1 <= j.size THEN a + Page - 1 ELSE j.size
<1>3. a \in Nat /\ a >= 1 /\ b \in Nat
  BY <1>1 DEF EndKey
<1>4. CASE items = {}
  <2>1. ASSUME from # EndKey PROVE j.size < from
    <3>1. items = (from..from + Page - 1) \cap (1..j.size)
      BY <2>1 DEF PagesAt
    <3>2. from <= j.size => from \in items
      BY <3>1, <1>1, <2>1 DEF EndKey
    <3> QED BY <3>2, <1>4, <1>1
  <2> QED BY <1>2, <1>4, <2>1
<1>5. CASE items # {}
  <2>1. items = (a..a + Page - 1) \cap (1..j.size)
    BY <1>5, <1>1 DEF PagesAt, EndKey
  <2>2. items = a..b
    BY <2>1, <1>1, <1>3
  <2>3. a <= b
    BY <2>2, <1>3, <1>5
  <2> HIDE DEF a
  <2>4. a \in 1..j.size /\ b \in 1..j.size
    BY <2>3, <1>3, <1>1
  <2>5. from # EndKey => a = from
    BY DEF a
  <2> QED BY <1>2, <1>5, <2>2, <2>3, <2>4, <2>5
<1> QED BY <1>4, <1>5

(* A page that is not full is the last one.                                *)
LEMMA ShortPage ==
  ASSUME NEW j \in Job, NEW from \in Nat, NEW items \in PagesAt(j, from),
         NEW g, NEW k, HasRead(g, k, from, j.size),
         items = {} \/ Cardinality(items) < Page
  PROVE  HasRead(g \cup ({k} \X items), k, EndKey, j.size)
<1>1. j.size \in Nat /\ Page \in Nat \ {0}
  BY JobAssumption DEF JobAssumption, Job
<1>2. CASE items = {} \/ from = EndKey
  BY <1>1, <1>2, PageIs DEF HasRead
<1>3. CASE items # {} /\ from # EndKey
  <2>1. PICK a \in 1..j.size, b \in 1..j.size :
          /\ a <= b /\ items = a..b /\ a = from
          /\ b < j.size => b = a + Page - 1
    BY <1>3, PageIs
  <2>2. Cardinality(items) = b - a + 1
    BY <2>1, FS_Interval, <1>1
  <2>3. b = j.size
    BY <2>1, <2>2, <1>1, <1>3
  <2> QED BY <2>1, <2>3, <1>1 DEF HasRead
<1> QED BY <1>2, <1>3

(* The cursor of the next page passes over nothing.                        *)
LEMMA NextPage ==
  ASSUME NEW j \in Job, NEW from \in Nat, NEW items \in PagesAt(j, from),
         NEW g, NEW k, HasRead(g, k, from, j.size), items # {}
  PROVE  /\ KeyAfter(j, items) \in Nat
         /\ HasRead(g \cup ({k} \X items), k, KeyAfter(j, items), j.size)
<1>1. j.size \in Nat /\ Page \in Nat \ {0}
  BY JobAssumption DEF JobAssumption, Job
<1>2. PICK a \in 1..j.size, b \in 1..j.size :
        /\ a <= b /\ items = a..b
        /\ from # EndKey => a = from
  BY PageIs
<1>3. Max(items) = b
  <2>1. b \in items /\ \A y \in items : b >= y
    BY <1>2, <1>1
  <2>2. \A x \in items : (\A y \in items : x >= y) => x = b
    BY <2>1, <1>2, <1>1
  <2> QED BY <2>1, <2>2 DEF Max
<1>4. KeyAfter(j, items) = IF b = j.size THEN EndKey ELSE b + 1
  BY <1>3 DEF KeyAfter
<1>5. ASSUME NEW x \in 1..j.size,
             KeyAfter(j, items) = EndKey \/ x < KeyAfter(j, items)
      PROVE  <<k, x>> \in g \cup ({k} \X items)
  <2>1. x <= b
    BY <1>4, <1>5, <1>1 DEF EndKey
  <2>2. from = EndKey \/ x < from \/ x \in items
    BY <2>1, <1>2, <1>1
  <2> QED BY <2>2 DEF HasRead
<1> QED BY <1>4, <1>5, <1>1 DEF HasRead, EndKey
-----------------------------------------------------------------------------
(* The loops that read pages of tables.                                    *)
Pagers == {"single", "size", "key", "rating", "tables"}

NumTables(j) == IF j.loop = "tables" THEN Tables ELSE 1

LastPeriod(j) == IF j.size < 1 + Recent THEN j.size ELSE 1 + Recent

(* Pages: the tables before the current one are written, and of this one   *)
(* everything before the cursor has been read.                             *)
PagesInv(j, a, g, w, ms, k) ==
  /\ Len(a) = NumTables(j) - k + 1
  /\ \A i \in 1..Len(a) : a[i].table = k + i - 1
  /\ \A i \in 2..Len(a) : a[i].from = 1
  /\ w = (1..k - 1) \X (1..j.size)
  /\ w \subseteq g /\ g \subseteq (1..k) \X (1..j.size)
  /\ HasRead(g, k, a[1].from, j.size)
  /\ ms = {}

(* Periods: each one before the next request was got or is missed.         *)
PeriodsInv(j, a, g, w, ms, f) ==
  /\ \A i \in 1..Len(a) : a[i].table = 1 /\ a[i].from = f + i - 1
  /\ w = {}
  /\ \/ f = 1 /\ Len(a) = 1 /\ g = {} /\ ms = {}
     \/ /\ f > 1 /\ f + Len(a) - 1 = LastPeriod(j)
        /\ ms \subseteq {1} \X (1..f - 1)
        /\ g = ({1} \X (1..f - 1)) \ ms

(* Batches: each ticker the server knows was got, is missed, or is in a    *)
(* chunk that is still to be asked for.                                    *)
BatchInv(j, a, g, w, ms) ==
  /\ \A i \in 1..Len(a) : a[i].table = 1 /\ a[i].from >= 1 /\ a[i].to <= j.size
  /\ w = {}
  /\ g \subseteq {1} \X ((1..j.size) \ j.unknown)
  /\ \A x \in (1..j.size) \ j.unknown :
       \/ <<1, x>> \in g \cup ms
       \/ \E i \in 1..Len(a) : a[i].from <= x /\ x <= a[i].to

LoopInv(j, a, g, w, ms) ==
  /\ j.loop \in Pagers => \E k \in 1..NumTables(j) : PagesInv(j, a, g, w, ms, k)
  /\ j.loop = "periods" => \E f \in Nat \ {0} : PeriodsInv(j, a, g, w, ms, f)
  /\ j.loop = "batch" => BatchInv(j, a, g, w, ms)

(* All that is wanted and was not passed over is written, and no more.     *)
Complete(j, w, ms) == w \subseteq Wanted(j) /\ Wanted(j) \ ms \subseteq w

(* What is written: nothing, some whole tables, or all of it.              *)
Part(j, w, ms) ==
  \/ w = {}
  \/ /\ j.loop \in Pagers /\ ms = {}
     /\ \E k \in 0..NumTables(j) : w = (1..k) \X (1..j.size)
  \/ Complete(j, w, ms)

(* Where a turn can be: in its loop, without a mark, or at its end.        *)
Stage(j, a, g, w, ms, mk) ==
  /\ a # <<>> => mk = "none" /\ LoopInv(j, a, g, w, ms)
  /\ a = <<>> => /\ Part(j, w, ms)
                 /\ mk = "ok" => Complete(j, w, ms)

(* The steps of Goes and PassesOver on these values.                       *)
AfterGoes(j, a, g, w, ms, items, follow, a2, g2, w2, mk2) ==
  /\ a2 = follow \o Tail(a)
  /\ g2 = IF a2 = <<>> THEN {} ELSE g \cup ({Head(a).table} \X items)
  /\ w2 = IF a2 # <<>> /\ Head(a2).table = Head(a).table THEN w
          ELSE g \cup ({Head(a).table} \X items)
  /\ mk2 = IF a2 = <<>> THEN "ok" ELSE "none"

AfterPass(a, g, w, ms, out, a2, g2, w2, ms2, mk2) ==
  /\ a2 = Tail(a)
  /\ ms2 = ms \cup out
  /\ g2 = IF a2 = <<>> THEN {} ELSE g
  /\ w2 = IF a2 = <<>> THEN g ELSE w
  /\ mk2 = IF a2 = <<>> THEN "ok" ELSE "none"

(* A function on 1..m is a sequence of m elements.                         *)
LEMMA FunctionIsSeq ==
  ASSUME NEW m \in Nat, NEW S, NEW f \in [1..m -> S]
  PROVE  f \in Seq(S) /\ Len(f) = m /\ (f = <<>> <=> m = 0)
<1>1. f \in Seq(S) /\ Len(f) = m
  OBVIOUS
<1> QED BY <1>1

(* The requests after one that is answered.                                *)
LEMMA NothingFollows ==
  ASSUME NEW a \in Seq(Request), a # <<>>
  PROVE  /\ <<>> \o Tail(a) = Tail(a)
         /\ Tail(a) \in Seq(Request)
         /\ Len(Tail(a)) = Len(a) - 1
         /\ \A i \in 1..Len(a) - 1 : Tail(a)[i] = a[i + 1]
         /\ Head(a) = a[1] /\ a[1] \in Request /\ Len(a) \in Nat \ {0}
         /\ Tail(a) = <<>> <=> Len(a) = 1
         /\ Tail(a) # <<>> => Head(Tail(a)) = a[2]
<1>1. /\ Tail(a) \in Seq(Request) /\ Len(Tail(a)) = Len(a) - 1
      /\ \A i \in 1..Len(a) - 1 : Tail(a)[i] = a[i + 1]
  OBVIOUS
<1>2. Head(a) = a[1] /\ a[1] \in Request /\ Len(a) \in Nat \ {0}
  OBVIOUS
<1>3. <<>> \o Tail(a) = Tail(a)
  BY <1>1
<1>4. Tail(a) = <<>> <=> Len(a) = 1
  BY <1>1, <1>2
<1>5. Tail(a) # <<>> => Head(Tail(a)) = a[2]
  BY <1>1, <1>2, <1>4
<1> QED BY <1>1, <1>2, <1>3, <1>4, <1>5

(* The same, with one request or two before the others.                    *)
LEMMA OneFollows ==
  ASSUME NEW a \in Seq(Request), a # <<>>, NEW r \in Request
  PROVE  /\ <<r>> \o Tail(a) \in Seq(Request)
         /\ Len(<<r>> \o Tail(a)) = Len(a)
         /\ <<r>> \o Tail(a) # <<>>
         /\ (<<r>> \o Tail(a))[1] = r
         /\ Head(<<r>> \o Tail(a)) = r
         /\ \A i \in 2..Len(a) : (<<r>> \o Tail(a))[i] = a[i]
  OBVIOUS

LEMMA TwoFollow ==
  ASSUME NEW a \in Seq(Request), a # <<>>, NEW r \in Request, NEW s \in Request
  PROVE  /\ <<r, s>> \o Tail(a) \in Seq(Request)
         /\ Len(<<r, s>> \o Tail(a)) = Len(a) + 1
         /\ <<r, s>> \o Tail(a) # <<>>
         /\ Head(<<r, s>> \o Tail(a)) = r
         /\ (<<r, s>> \o Tail(a))[1] = r
         /\ (<<r, s>> \o Tail(a))[2] = s
         /\ \A i \in 3..Len(a) + 1 : (<<r, s>> \o Tail(a))[i] = a[i - 1]
  OBVIOUS

(* What a turn should write, by its loop.                                  *)
LEMMA WantedIs ==
  ASSUME NEW j \in Job
  PROVE  /\ j.loop \in Pagers => Wanted(j) = (1..NumTables(j)) \X (1..j.size)
         /\ j.loop = "periods" => Wanted(j) = {1} \X (1..LastPeriod(j))
         /\ j.loop = "batch" => Wanted(j) = {1} \X ((1..j.size) \ j.unknown)
         /\ NumTables(j) \in 1..Tables /\ LastPeriod(j) \in Nat
         /\ j.size \in Nat /\ j.unknown \subseteq Nat
<1>1. /\ j.size \in Nat /\ j.unknown \subseteq Nat
      /\ Recent \in Nat /\ Tables \in Nat \ {0}
  BY JobAssumption DEF JobAssumption, Job
<1>2. NumTables(j) \in 1..Tables /\ LastPeriod(j) \in Nat
  BY <1>1 DEF NumTables, LastPeriod
<1>3. CASE j.loop = "tables"
  BY <1>1, <1>2, <1>3 DEF Wanted, NumTables
<1>4. CASE j.loop = "periods"
  <2>1. (1..j.size) \cap (1..1 + Recent) = 1..LastPeriod(j)
    BY <1>1 DEF LastPeriod
  <2>2. Wanted(j) = {1} \X ((1..j.size) \cap (1..1 + Recent))
    BY <1>4 DEF Wanted
  <2> QED BY <1>1, <1>2, <1>4, <2>1, <2>2 DEF Pagers
<1>5. CASE j.loop = "batch"
  BY <1>1, <1>2, <1>5 DEF Wanted, Pagers
<1>6. CASE j.loop \in {"single", "size", "key", "rating"}
  <2>1. Wanted(j) = {1} \X (1..j.size)
    BY <1>6 DEF Wanted
  <2>2. NumTables(j) = 1 /\ 1..1 = {1}
    BY <1>6 DEF NumTables
  <2> QED BY <1>1, <1>2, <1>6, <2>1, <2>2
<1> QED BY <1>3, <1>4, <1>5, <1>6 DEF Job

(* The last page of a table: the table is written, and the next one begins *)
(* or the turn is over.                                                    *)
LEMMA TableEnds ==
  ASSUME NEW j \in Job, j.loop \in Pagers, NEW a \in Seq(Request), a # <<>>,
         NEW g, NEW w, NEW ms, NEW k \in 1..NumTables(j), PagesInv(j, a, g, w, ms, k),
         NEW items \in SUBSET (1..j.size),
         HasRead(g \cup ({k} \X items), k, EndKey, j.size),
         NEW a2, NEW g2, NEW w2, NEW mk2,
         AfterGoes(j, a, g, w, ms, items, <<>>, a2, g2, w2, mk2)
  PROVE  Stage(j, a2, g2, w2, ms, mk2)
<1>1. j.size \in Nat /\ k \in Nat /\ k >= 1 /\ NumTables(j) \in Nat /\ k <= NumTables(j)
  BY WantedIs
<1>2. /\ a2 = Tail(a) /\ Len(a2) = Len(a) - 1 /\ Len(a) \in Nat \ {0}
      /\ \A i \in 1..Len(a2) : a2[i] = a[i + 1]
      /\ Head(a) = a[1] /\ (a2 = <<>> <=> Len(a) = 1)
      /\ a2 # <<>> => Head(a2) = a[2]
  BY NothingFollows DEF AfterGoes
<1> DEFINE all == g \cup ({k} \X items)
<1>3. Head(a).table = k
  BY <1>1, <1>2 DEF PagesInv
<1>4. all = (1..k) \X (1..j.size)
  <2>1. all \subseteq (1..k) \X (1..j.size)
    <3>1. {k} \X items \subseteq (1..k) \X (1..j.size)
      BY k \in 1..k, <1>1
    <3> QED BY <3>1 DEF PagesInv
  <2>2. ASSUME NEW i \in 1..k, NEW x \in 1..j.size PROVE <<i, x>> \in all
    <3>1. CASE i = k
      BY <3>1 DEF HasRead
    <3>2. CASE i # k
      <4>1. i \in 1..k - 1
        BY <3>2, <1>1
      <4>2. w = (1..k - 1) \X (1..j.size) /\ w \subseteq g
        BY DEF PagesInv
      <4> QED BY <4>1, <4>2
    <3> QED BY <3>1, <3>2
  <2> QED BY <2>1, <2>2
<1>5. g2 = (IF a2 = <<>> THEN {} ELSE all) /\ mk2 = (IF a2 = <<>> THEN "ok" ELSE "none")
  BY <1>3 DEF AfterGoes
<1>6. w2 = all
  <2>1. a2 # <<>> => Head(a2).table = k + 1
    BY <1>1, <1>2 DEF PagesInv
  <2> QED BY <2>1, <1>1, <1>3 DEF AfterGoes
<1> HIDE DEF all
<1>7. CASE a2 = <<>>
  <2>1. k = NumTables(j)
    BY <1>1, <1>2, <1>7 DEF PagesInv
  <2>2. w2 = Wanted(j) \ ms
    BY <2>1, <1>4, <1>6, WantedIs DEF PagesInv
  <2> QED BY <2>2, <1>7 DEF Stage, Part, Complete
<1>8. CASE a2 # <<>>
  <2>1. k + 1 \in 1..NumTables(j)
    BY <1>1, <1>2, <1>8 DEF PagesInv
  <2>2. Len(a2) = NumTables(j) - (k + 1) + 1
    BY <1>1, <1>2 DEF PagesInv
  <2>3. \A i \in 1..Len(a2) : a2[i].table = (k + 1) + i - 1
    BY <1>1, <1>2 DEF PagesInv
  <2>4. (\A i \in 1..Len(a2) : a2[i].from = 1)
    BY <1>1, <1>2 DEF PagesInv
  <2>5. HasRead(g2, k + 1, a2[1].from, j.size)
    <3>1. a2[1].from = 1
      BY <1>2, <1>8, <2>4
    <3>2. \A x \in 1..j.size : ~ (1 = EndKey \/ x < 1)
      BY <1>1 DEF EndKey
    <3> QED BY <3>1, <3>2 DEF HasRead
  <2>6. /\ w2 = (1..(k + 1) - 1) \X (1..j.size) /\ w2 \subseteq g2
        /\ g2 \subseteq (1..k + 1) \X (1..j.size) /\ ms = {}
    BY <1>1, <1>4, <1>5, <1>6, <1>8 DEF PagesInv
  <2>7. PagesInv(j, a2, g2, w2, ms, k + 1)
    BY <2>2, <2>3, <2>4, <2>5, <2>6 DEF PagesInv
  <2>8. j.loop # "periods" /\ j.loop # "batch"
    BY DEF Pagers
  <2> QED BY <1>5, <1>8, <2>1, <2>7, <2>8 DEF Stage, LoopInv
<1> QED BY <1>7, <1>8

(* A page that is not the last one.                                        *)
LEMMA TableGoesOn ==
  ASSUME NEW j \in Job, j.loop \in Pagers, NEW a \in Seq(Request), a # <<>>,
         NEW g, NEW w, NEW ms, NEW k \in 1..NumTables(j), PagesInv(j, a, g, w, ms, k),
         NEW items \in SUBSET (1..j.size), NEW r \in Request, r.table = k,
         HasRead(g \cup ({k} \X items), k, r.from, j.size),
         NEW a2, NEW g2, NEW w2, NEW mk2,
         AfterGoes(j, a, g, w, ms, items, <<r>>, a2, g2, w2, mk2)
  PROVE  Stage(j, a2, g2, w2, ms, mk2)
<1>1. j.size \in Nat /\ k \in Nat /\ k >= 1 /\ NumTables(j) \in Nat /\ k <= NumTables(j)
  BY WantedIs
<1>2. /\ Len(a2) = Len(a) /\ a2 # <<>> /\ a2[1] = r /\ Head(a2) = r
      /\ \A i \in 2..Len(a) : a2[i] = a[i]
      /\ Head(a) = a[1] /\ Len(a) \in Nat \ {0}
  BY OneFollows, NothingFollows DEF AfterGoes
<1>3. Head(a).table = k
  BY <1>1, <1>2 DEF PagesInv
<1>4. w2 = w /\ g2 = g \cup ({k} \X items) /\ mk2 = "none"
  BY <1>2, <1>3 DEF AfterGoes
<1>5. /\ \A i \in 1..Len(a2) : a2[i].table = k + i - 1
      /\ \A i \in 2..Len(a2) : a2[i].from = 1
  <2>1. ASSUME NEW i \in 1..Len(a2) PROVE a2[i].table = k + i - 1
    <3>1. CASE i = 1
      BY <3>1, <1>1, <1>2
    <3>2. CASE i # 1
      BY <3>2, <1>1, <1>2 DEF PagesInv
    <3> QED BY <3>1, <3>2
  <2> QED BY <2>1, <1>2 DEF PagesInv
<1>6. /\ w2 \subseteq g2 /\ g2 \subseteq (1..k) \X (1..j.size)
      /\ w2 = (1..k - 1) \X (1..j.size) /\ ms = {} /\ Len(a2) = NumTables(j) - k + 1
  <2>1. {k} \X items \subseteq (1..k) \X (1..j.size)
    BY k \in 1..k, <1>1
  <2> QED BY <2>1, <1>2, <1>4 DEF PagesInv
<1>7. PagesInv(j, a2, g2, w2, ms, k)
  BY <1>2, <1>4, <1>5, <1>6 DEF PagesInv
<1>8. j.loop # "periods" /\ j.loop # "batch"
  BY DEF Pagers
<1> QED BY <1>2, <1>4, <1>7, <1>8 DEF Stage, LoopInv

(* A period after the first one: it is got.                                *)
LEMMA PeriodGot ==
  ASSUME NEW j \in Job, j.loop = "periods", NEW a \in Seq(Request), a # <<>>,
         NEW g, NEW w, NEW ms, NEW f \in Nat \ {0}, PeriodsInv(j, a, g, w, ms, f), f > 1,
         NEW a2, NEW g2, NEW w2, NEW mk2,
         AfterGoes(j, a, g, w, ms, {f} \cap (1..j.size), <<>>, a2, g2, w2, mk2)
  PROVE  Stage(j, a2, g2, w2, ms, mk2)
<1>1. j.size \in Nat /\ LastPeriod(j) \in Nat /\ LastPeriod(j) <= j.size
  BY WantedIs, JobAssumption DEF LastPeriod, JobAssumption
<1>2. /\ a2 = Tail(a) /\ Len(a2) = Len(a) - 1 /\ Len(a) \in Nat \ {0}
      /\ \A i \in 1..Len(a2) : a2[i] = a[i + 1]
      /\ Head(a) = a[1] /\ (a2 = <<>> <=> Len(a) = 1)
      /\ a2 # <<>> => Head(a2) = a[2]
  BY NothingFollows DEF AfterGoes
<1>3. f \in 1..j.size /\ {f} \cap (1..j.size) = {f}
  BY <1>1, <1>2 DEF PeriodsInv
<1> DEFINE all == g \cup ({1} \X {f})
<1>4. Head(a).table = 1 /\ (a2 # <<>> => Head(a2).table = 1)
  BY <1>2 DEF PeriodsInv
<1>5. /\ g2 = IF a2 = <<>> THEN {} ELSE all
      /\ w2 = IF a2 = <<>> THEN all ELSE w
      /\ mk2 = IF a2 = <<>> THEN "ok" ELSE "none"
  BY <1>3, <1>4 DEF AfterGoes
<1>6. all = ({1} \X (1..f)) \ ms /\ ms \subseteq {1} \X (1..f)
  <2>1. ms \subseteq {1} \X (1..f - 1) /\ g = ({1} \X (1..f - 1)) \ ms
    BY DEF PeriodsInv
  <2>2. 1..f = (1..f - 1) \cup {f} /\ f \notin 1..f - 1
    OBVIOUS
  <2> HIDE DEF all
  <2>3. <<1, f>> \notin ms
    BY <2>1, <2>2
  <2>4. \A x \in all : x \in ({1} \X (1..f)) \ ms
    BY <2>1, <2>2, <2>3 DEF all
  <2>5. \A x \in ({1} \X (1..f)) \ ms : x \in all
    BY <2>1, <2>2, <2>3 DEF all
  <2>6. ms \subseteq {1} \X (1..f)
    BY <2>1, <2>2
  <2>7. all \subseteq ({1} \X (1..f)) \ ms /\ ({1} \X (1..f)) \ ms \subseteq all
    BY <2>4, <2>5
  <2> QED BY <2>6, <2>7
<1> HIDE DEF all
<1>7. CASE a2 = <<>>
  <2>1. f = LastPeriod(j)
    BY <1>1, <1>2, <1>7 DEF PeriodsInv
  <2>2. w2 = Wanted(j) \ ms
    BY <2>1, <1>5, <1>6, <1>7, WantedIs
  <2> QED BY <2>2, <1>7 DEF Stage, Part, Complete
<1>8. CASE a2 # <<>>
  <2>1. f + 1 \in Nat \ {0} /\ f + 1 > 1 /\ (f + 1) + Len(a2) - 1 = LastPeriod(j)
    BY <1>1, <1>2 DEF PeriodsInv
  <2>2. \A i \in 1..Len(a2) : a2[i].table = 1 /\ a2[i].from = (f + 1) + i - 1
    BY <1>2 DEF PeriodsInv
  <2>3. (f + 1) - 1 = f
    OBVIOUS
  <2>4. w2 = {} /\ ms \subseteq {1} \X (1..(f + 1) - 1) /\ g2 = ({1} \X (1..(f + 1) - 1)) \ ms
    BY <1>5, <1>6, <1>8, <2>3 DEF PeriodsInv
  <2>5. PeriodsInv(j, a2, g2, w2, ms, f + 1)
    BY <2>1, <2>2, <2>4 DEF PeriodsInv
  <2> QED BY <1>5, <1>8, <2>1, <2>5 DEF Stage, LoopInv, Pagers
<1> QED BY <1>7, <1>8

(* A period after the first one is left out.                               *)
LEMMA PeriodMissed ==
  ASSUME NEW j \in Job, j.loop = "periods", NEW a \in Seq(Request), a # <<>>,
         NEW g, NEW w, NEW ms, NEW f \in Nat \ {0}, PeriodsInv(j, a, g, w, ms, f), f > 1,
         NEW a2, NEW g2, NEW w2, NEW ms2, NEW mk2,
         AfterPass(a, g, w, ms, {<<1, f>>}, a2, g2, w2, ms2, mk2)
  PROVE  Stage(j, a2, g2, w2, ms2, mk2)
<1>1. j.size \in Nat /\ LastPeriod(j) \in Nat /\ LastPeriod(j) <= j.size
  BY WantedIs, JobAssumption DEF LastPeriod, JobAssumption
<1>2. /\ a2 = Tail(a) /\ Len(a2) = Len(a) - 1 /\ Len(a) \in Nat \ {0}
      /\ \A i \in 1..Len(a2) : a2[i] = a[i + 1]
      /\ a2 = <<>> <=> Len(a) = 1
  BY NothingFollows DEF AfterPass
<1>0. /\ f + Len(a) - 1 = LastPeriod(j) /\ w = {}
      /\ \A i \in 1..Len(a) : a[i].table = 1 /\ a[i].from = f + i - 1
  BY DEF PeriodsInv
<1>10. /\ ms2 = ms \cup {<<1, f>>} /\ mk2 = (IF a2 = <<>> THEN "ok" ELSE "none")
       /\ w2 = (IF a2 = <<>> THEN g ELSE w) /\ g2 = (IF a2 = <<>> THEN {} ELSE g)
  BY DEF AfterPass
<1>3. g = ({1} \X (1..f)) \ ms2 /\ ms2 \subseteq {1} \X (1..f)
  <2>1. ms \subseteq {1} \X (1..f - 1) /\ g = ({1} \X (1..f - 1)) \ ms
    BY DEF PeriodsInv
  <2>2. 1..f = (1..f - 1) \cup {f} /\ f \notin 1..f - 1
    OBVIOUS
  <2>3. \A x \in g : x \in ({1} \X (1..f)) \ ms2
    BY <2>1, <2>2, <1>10
  <2>4. \A x \in ({1} \X (1..f)) \ ms2 : x \in g
    BY <2>1, <2>2, <1>10
  <2>5. \A x \in ms2 : x \in {1} \X (1..f)
    BY <2>1, <2>2, <1>10
  <2>6. g \subseteq ({1} \X (1..f)) \ ms2 /\ ({1} \X (1..f)) \ ms2 \subseteq g
    BY <2>3, <2>4
  <2> QED BY <2>5, <2>6
<1>4. CASE a2 = <<>>
  <2>1. f = LastPeriod(j)
    <3>1. Len(a) = 1
      BY <1>2, <1>4, Zenon
    <3>2. f + Len(a) - 1 = LastPeriod(j)
      BY <1>0
    <3> QED BY <3>1, <3>2
  <2>2. w2 = g
    BY <1>4, <1>10
  <2>3. w2 = Wanted(j) \ ms2
    BY <2>1, <2>2, <1>3, WantedIs
  <2> QED BY <2>3, <1>4 DEF Stage, Part, Complete
<1>5. CASE a2 # <<>>
  <2>1. f + 1 \in Nat \ {0} /\ f + 1 > 1 /\ (f + 1) + Len(a2) - 1 = LastPeriod(j)
    BY <1>0, <1>1, <1>2
  <2>2. \A i \in 1..Len(a2) : a2[i].table = 1 /\ a2[i].from = (f + 1) + i - 1
    BY <1>0, <1>2
  <2>3. (f + 1) - 1 = f
    OBVIOUS
  <2>4. w2 = w /\ g2 = g /\ mk2 = "none"
    BY <1>5, <1>10
  <2>5. /\ w2 = {} /\ ms2 \subseteq {1} \X (1..(f + 1) - 1)
        /\ g2 = ({1} \X (1..(f + 1) - 1)) \ ms2
    BY <1>0, <1>3, <2>3, <2>4
  <2>6. PeriodsInv(j, a2, g2, w2, ms2, f + 1)
    BY <2>1, <2>2, <2>5 DEF PeriodsInv
  <2> QED BY <1>5, <2>1, <2>4, <2>6 DEF Stage, LoopInv, Pagers
<1> QED BY <1>4, <1>5

(* An answer of another type ends the pages of the one table: what was     *)
(* read before the cursor is written.                                      *)
LEMMA PagesCut ==
  ASSUME NEW j \in Job, j.loop \in Pagers \ {"tables"}, NEW a \in Seq(Request), a # <<>>,
         NEW g, NEW w, NEW ms, NEW k \in 1..NumTables(j), PagesInv(j, a, g, w, ms, k),
         NEW a2, NEW g2, NEW w2, NEW ms2, NEW mk2,
         AfterPass(a, g, w, ms, LeftOut(j, a[1]), a2, g2, w2, ms2, mk2)
  PROVE  Stage(j, a2, g2, w2, ms2, mk2)
<1>1. NumTables(j) = 1 /\ k = 1 /\ j.size \in Nat
  BY WantedIs DEF NumTables
<1>2. Len(a) = 1 /\ a[1].table = 1 /\ a[1] \in Request /\ a[1].from \in Nat
  BY <1>1, NothingFollows DEF PagesInv, Request
<1>3. a2 = <<>> /\ w2 = g
  BY <1>2, NothingFollows DEF AfterPass
<1>4. Wanted(j) = {1} \X (1..j.size)
  <2>1. 1..1 = {1}
    OBVIOUS
  <2> QED BY <2>1, <1>1, WantedIs
<1>5. g \subseteq {1} \X (1..j.size) /\ HasRead(g, 1, a[1].from, j.size)
  <2>1. 1..1 = {1}
    OBVIOUS
  <2> QED BY <2>1, <1>1 DEF PagesInv
<1>6. ASSUME NEW x \in 1..j.size, <<1, x>> \notin LeftOut(j, a[1])
      PROVE  <<1, x>> \in g
  <2>1. j.loop # "batch" /\ j.loop # "periods"
    BY DEF Pagers
  <2>2. LeftOut(j, a[1]) =
          {1} \X (IF a[1].from = EndKey THEN {} ELSE a[1].from..j.size)
    BY <1>2, <2>1 DEF LeftOut
  <2>3. a[1].from = EndKey \/ x < a[1].from
    BY <1>1, <1>2, <1>6, <2>2
  <2> QED BY <2>3, <1>5 DEF HasRead
<1>7. Complete(j, w2, ms2)
  <2>1. ms2 = ms \cup LeftOut(j, a[1])
    BY DEF AfterPass
  <2> QED BY <2>1, <1>3, <1>4, <1>5, <1>6 DEF Complete
<1> QED BY <1>3, <1>7 DEF Stage, Part

(* The answer that should list the periods brings nothing.                 *)
LEMMA PeriodsUnread ==
  ASSUME NEW j \in Job, j.loop = "periods", NEW a \in Seq(Request), a # <<>>,
         NEW g, NEW w, NEW ms, PeriodsInv(j, a, g, w, ms, 1),
         NEW a2, NEW g2, NEW w2, NEW ms2, NEW mk2,
         AfterPass(a, g, w, ms, LeftOut(j, a[1]), a2, g2, w2, ms2, mk2)
  PROVE  Stage(j, a2, g2, w2, ms2, mk2)
<1>1. j.size \in Nat /\ LastPeriod(j) \in Nat /\ LastPeriod(j) <= j.size
  BY WantedIs, JobAssumption DEF LastPeriod, JobAssumption
<1>2. Len(a) = 1 /\ g = {} /\ a[1].table = 1 /\ a[1].from = 1
  BY NothingFollows DEF PeriodsInv
<1>3. a2 = <<>> /\ w2 = {}
  BY <1>2, NothingFollows DEF AfterPass
<1>4. LeftOut(j, a[1]) = {1} \X (1..j.size)
  <2>1. ~ (1 > 1) /\ 1 # EndKey
    BY DEF EndKey
  <2> QED BY <2>1, <1>2 DEF LeftOut
<1>5. Wanted(j) \subseteq LeftOut(j, a[1])
  <2>1. Wanted(j) = {1} \X (1..LastPeriod(j))
    BY WantedIs
  <2>2. 1..LastPeriod(j) \subseteq 1..j.size
    BY <1>1
  <2> QED BY <2>1, <2>2, <1>4
<1>6. Complete(j, w2, ms2)
  BY <1>3, <1>5 DEF Complete, AfterPass
<1> QED BY <1>3, <1>6 DEF Stage, Part

(* The first answer lists the periods; the recent ones follow.             *)
LEMMA PeriodsListed ==
  ASSUME NEW j \in Job, j.loop = "periods", NEW a \in Seq(Request), a # <<>>,
         NEW g, NEW w, NEW ms, PeriodsInv(j, a, g, w, ms, 1),
         NEW a2, NEW g2, NEW w2, NEW mk2,
         AfterGoes(j, a, g, w, ms, {1} \cap (1..j.size),
                   [i \in (1..Recent) \cap (1..j.size - 1) |->
                      [table |-> 1, from |-> i + 1, to |-> 0]], a2, g2, w2, mk2)
  PROVE  Stage(j, a2, g2, w2, ms, mk2) /\ a2 \in Seq(Request)
<1>1. j.size \in Nat /\ LastPeriod(j) \in Nat /\ LastPeriod(j) <= j.size /\ Recent \in Nat
  BY WantedIs, JobAssumption DEF LastPeriod, JobAssumption
<1> DEFINE n == IF j.size = 0 THEN 0 ELSE LastPeriod(j) - 1
           s == [i \in 1..n |-> [table |-> 1, from |-> i + 1, to |-> 0]]
<1>2. n \in Nat /\ (1..Recent) \cap (1..j.size - 1) = 1..n
  BY <1>1 DEF LastPeriod
<1>3. Len(a) = 1 /\ g = {} /\ w = {} /\ ms = {} /\ Head(a).table = 1
  BY NothingFollows DEF PeriodsInv
<1>4. Tail(a) = <<>>
  BY <1>3, NothingFollows
<1>5. a2 = s \o <<>>
  BY <1>2, <1>4 DEF AfterGoes
<1> HIDE DEF n
<1>6. s \in Seq(Request) /\ Len(s) = n
  BY <1>2 DEF Request
<1>7. a2 = s
  BY <1>5, <1>6
<1>8. a2 \in Seq(Request) /\ Len(a2) = n /\ (a2 = <<>> <=> n = 0)
  BY <1>6, <1>7, <1>2
<1>9. \A i \in 1..Len(a2) : a2[i].table = 1 /\ a2[i].from = i + 1
  BY <1>7, <1>8
<1>10. a2 # <<>> => Head(a2).table = 1
  BY <1>8, <1>9, <1>2
<1> DEFINE all == g \cup ({1} \X ({1} \cap (1..j.size)))
<1>11. /\ g2 = IF a2 = <<>> THEN {} ELSE all
       /\ w2 = IF a2 = <<>> THEN all ELSE w
       /\ mk2 = IF a2 = <<>> THEN "ok" ELSE "none"
  BY <1>3, <1>10 DEF AfterGoes
<1>12. all = {1} \X ({1} \cap (1..j.size))
  BY <1>3
<1> HIDE DEF s, all
<1>13. CASE a2 = <<>>
  <2>1. {1} \cap (1..j.size) = 1..LastPeriod(j)
    BY <1>1, <1>8, <1>13 DEF n, LastPeriod
  <2>2. w2 = Wanted(j) \ ms
    BY <2>1, <1>3, <1>11, <1>12, <1>13, WantedIs
  <2> QED BY <2>2, <1>8, <1>13 DEF Stage, Part, Complete
<1>14. CASE a2 # <<>>
  <2>1. j.size # 0 /\ 2 + Len(a2) - 1 = LastPeriod(j)
    BY <1>1, <1>8, <1>14 DEF n
  <2>2. {1} \cap (1..j.size) = 1..2 - 1
    BY <1>1, <2>1
  <2>3. w2 = {} /\ ms \subseteq {1} \X (1..2 - 1) /\ g2 = ({1} \X (1..2 - 1)) \ ms
    BY <1>3, <1>11, <1>12, <1>14, <2>2
  <2>4. \A i \in 1..Len(a2) : a2[i].table = 1 /\ a2[i].from = 2 + i - 1
    BY <1>9, <1>8, <1>2
  <2>5. PeriodsInv(j, a2, g2, w2, ms, 2)
    BY <2>1, <2>3, <2>4, 2 > 1, Zenon DEF PeriodsInv
  <2> QED BY <1>8, <1>11, <1>14, <2>5 DEF Stage, LoopInv, Pagers
<1> QED BY <1>13, <1>14

(* A chunk is done: the tickers of it that the server knows are got.       *)
LEMMA ChunkDone ==
  ASSUME NEW j \in Job, j.loop = "batch", NEW a \in Seq(Request), a # <<>>,
         NEW g, NEW w, NEW ms, BatchInv(j, a, g, w, ms),
         NEW items \in SUBSET ((1..j.size) \ j.unknown),
         \A x \in (1..j.size) \ j.unknown :
           a[1].from <= x /\ x <= a[1].to => x \in items,
         NEW a2, NEW g2, NEW w2, NEW mk2,
         AfterGoes(j, a, g, w, ms, items, <<>>, a2, g2, w2, mk2)
  PROVE  Stage(j, a2, g2, w2, ms, mk2)
<1>1. j.size \in Nat
  BY WantedIs
<1>2. /\ a2 = Tail(a) /\ Len(a2) = Len(a) - 1 /\ Len(a) \in Nat \ {0}
      /\ \A i \in 1..Len(a2) : a2[i] = a[i + 1]
      /\ Head(a) = a[1] /\ (a2 = <<>> <=> Len(a) = 1)
      /\ a2 # <<>> => Head(a2) = a[2]
  BY NothingFollows DEF AfterGoes
<1>3. /\ \A i \in 1..Len(a) : a[i].table = 1 /\ a[i].from >= 1 /\ a[i].to <= j.size
      /\ w = {} /\ g \subseteq {1} \X ((1..j.size) \ j.unknown)
      /\ \A x \in (1..j.size) \ j.unknown :
           \/ <<1, x>> \in g \cup ms
           \/ \E i \in 1..Len(a) : a[i].from <= x /\ x <= a[i].to
  BY DEF BatchInv
<1> DEFINE all == g \cup ({1} \X items)
<1>4. Head(a).table = 1 /\ (a2 # <<>> => Head(a2).table = 1)
  BY <1>2, <1>3
<1>5. /\ g2 = IF a2 = <<>> THEN {} ELSE all
      /\ w2 = IF a2 = <<>> THEN all ELSE w
      /\ mk2 = IF a2 = <<>> THEN "ok" ELSE "none"
  BY <1>4 DEF AfterGoes
<1>6. all \subseteq {1} \X ((1..j.size) \ j.unknown)
  <2>1. {1} \X items \subseteq {1} \X ((1..j.size) \ j.unknown)
    OBVIOUS
  <2> QED BY <2>1, <1>3
<1>7. ASSUME NEW x \in (1..j.size) \ j.unknown
      PROVE  \/ <<1, x>> \in all \cup ms
             \/ \E i \in 1..Len(a2) : a2[i].from <= x /\ x <= a2[i].to
  <2>1. CASE <<1, x>> \in g \cup ms
    BY <2>1
  <2>2. ASSUME NEW i \in 1..Len(a), a[i].from <= x /\ x <= a[i].to
        PROVE  \/ <<1, x>> \in all \cup ms
               \/ \E y \in 1..Len(a2) : a2[y].from <= x /\ x <= a2[y].to
    <3>1. CASE i = 1
      <4>1. x \in items
        BY <2>2, <3>1
      <4> QED BY <4>1
    <3>2. CASE i # 1
      <4>1. i - 1 \in 1..Len(a2) /\ a2[i - 1] = a[i]
        BY <3>2, <1>2
      <4> QED BY <4>1, <2>2
    <3> QED BY <3>1, <3>2
  <2> QED BY <2>1, <2>2, <1>3
<1> HIDE DEF all
<1>8. CASE a2 = <<>>
  <2>1. ASSUME NEW x \in (1..j.size) \ j.unknown PROVE <<1, x>> \in all \cup ms
    <3>1. 1..Len(a2) = {}
      BY <1>2, <1>8
    <3> QED BY <3>1, <1>7
  <2>2. {1} \X ((1..j.size) \ j.unknown) \subseteq all \cup ms
    BY <2>1
  <2>3. Complete(j, w2, ms)
    BY <2>2, <1>5, <1>6, <1>8, WantedIs DEF Complete
  <2> QED BY <2>3, <1>8 DEF Stage, Part, Complete
<1>9. CASE a2 # <<>>
  <2>1. /\ g2 = all /\ w2 = {} /\ mk2 = "none"
    BY <1>3, <1>5, <1>9
  <2>2. \A i \in 1..Len(a2) : a2[i].table = 1 /\ a2[i].from >= 1 /\ a2[i].to <= j.size
    BY <1>2, <1>3
  <2>3. BatchInv(j, a2, g2, w2, ms)
    BY <2>1, <2>2, <1>6, <1>7 DEF BatchInv
  <2> QED BY <2>1, <2>3, <1>9 DEF Stage, LoopInv, Pagers
<1> QED BY <1>8, <1>9

(* A chunk whose answer is not a table: its tickers are missed.            *)
LEMMA ChunkPassed ==
  ASSUME NEW j \in Job, j.loop = "batch", NEW a \in Seq(Request), a # <<>>,
         NEW g, NEW w, NEW ms, BatchInv(j, a, g, w, ms),
         NEW a2, NEW g2, NEW w2, NEW ms2, NEW mk2,
         AfterPass(a, g, w, ms, LeftOut(j, a[1]), a2, g2, w2, ms2, mk2)
  PROVE  Stage(j, a2, g2, w2, ms2, mk2)
<1>1. j.size \in Nat
  BY WantedIs
<1>2. /\ a2 = Tail(a) /\ Len(a2) = Len(a) - 1 /\ Len(a) \in Nat \ {0}
      /\ \A i \in 1..Len(a2) : a2[i] = a[i + 1]
      /\ a2 = <<>> <=> Len(a) = 1
  BY NothingFollows DEF AfterPass
<1>3. /\ \A i \in 1..Len(a) : a[i].table = 1 /\ a[i].from >= 1 /\ a[i].to <= j.size
      /\ w = {} /\ g \subseteq {1} \X ((1..j.size) \ j.unknown)
      /\ \A x \in (1..j.size) \ j.unknown :
           \/ <<1, x>> \in g \cup ms
           \/ \E i \in 1..Len(a) : a[i].from <= x /\ x <= a[i].to
  BY DEF BatchInv
<1>4. /\ g2 = IF a2 = <<>> THEN {} ELSE g
      /\ w2 = IF a2 = <<>> THEN g ELSE w
      /\ mk2 = IF a2 = <<>> THEN "ok" ELSE "none"
  BY DEF AfterPass
<1>5. ms2 = ms \cup ({1} \X (a[1].from..a[1].to)) /\ a[1] \in Request
  <2>1. a[1].table = 1 /\ a[1] \in Request
    BY <1>2, <1>3, NothingFollows
  <2> QED BY <2>1 DEF AfterPass, LeftOut
<1>6. ASSUME NEW x \in (1..j.size) \ j.unknown
      PROVE  \/ <<1, x>> \in g \cup ms2
             \/ \E i \in 1..Len(a2) : a2[i].from <= x /\ x <= a2[i].to
  <2>1. CASE <<1, x>> \in g \cup ms
    BY <2>1, <1>5
  <2>2. ASSUME NEW i \in 1..Len(a), a[i].from <= x /\ x <= a[i].to
        PROVE  \/ <<1, x>> \in g \cup ms2
               \/ \E y \in 1..Len(a2) : a2[y].from <= x /\ x <= a2[y].to
    <3>1. CASE i = 1
      <4>1. x \in a[1].from..a[1].to
        BY <2>2, <3>1, <1>1, <1>5 DEF Request
      <4> QED BY <4>1, <1>5
    <3>2. CASE i # 1
      <4>1. i - 1 \in 1..Len(a2) /\ a2[i - 1] = a[i]
        BY <3>2, <1>2
      <4> QED BY <4>1, <2>2
    <3> QED BY <3>1, <3>2
  <2> QED BY <2>1, <2>2, <1>3
<1>7. CASE a2 = <<>>
  <2>1. ASSUME NEW x \in (1..j.size) \ j.unknown PROVE <<1, x>> \in g \cup ms2
    <3>1. 1..Len(a2) = {}
      BY <1>2, <1>7
    <3> QED BY <3>1, <1>6
  <2>2. Complete(j, w2, ms2)
    BY <2>1, <1>3, <1>4, <1>7, WantedIs DEF Complete
  <2> QED BY <2>2, <1>7 DEF Stage, Part
<1>8. CASE a2 # <<>>
  <2>1. g2 = g /\ w2 = {} /\ mk2 = "none"
    BY <1>3, <1>4, <1>8
  <2>2. \A i \in 1..Len(a2) : a2[i].table = 1 /\ a2[i].from >= 1 /\ a2[i].to <= j.size
    BY <1>2, <1>3
  <2>3. BatchInv(j, a2, g2, w2, ms2)
    BY <2>1, <2>2, <1>3, <1>6 DEF BatchInv
  <2> QED BY <2>1, <2>3, <1>8 DEF Stage, LoopInv, Pagers
<1> QED BY <1>7, <1>8

(* A chunk with an unknown ticker becomes two, with each ticker in one.    *)
LEMMA HalvesAre ==
  ASSUME NEW r \in Request, r.from >= 1, r.from < r.to
  PROVE  \E p \in Request, s \in Request :
           /\ Halves(r) = <<p, s>> /\ p.table = r.table /\ s.table = r.table
           /\ p.from = r.from /\ p.to + 1 = s.from /\ s.to = r.to
           /\ p.to <= r.to /\ s.from >= 1
<1> DEFINE mid == (r.to - r.from + 1) \div 2
           p   == [r EXCEPT !.to = r.from + mid - 1]
           s   == [r EXCEPT !.from = r.from + mid]
<1>1. r.from \in Nat /\ r.to \in Nat /\ r.table \in Nat
      /\ r = [table |-> r.table, from |-> r.from, to |-> r.to]
  BY DEF Request
<1>2. mid \in Nat /\ mid >= 1 /\ mid <= r.to - r.from
  BY <1>1
<1> HIDE DEF mid
<1>3. /\ p = [table |-> r.table, from |-> r.from, to |-> r.from + mid - 1]
      /\ s = [table |-> r.table, from |-> r.from + mid, to |-> r.to]
  BY <1>1
<1>4. r.from + mid - 1 \in Nat /\ r.from + mid \in Nat /\ r.from + mid - 1 <= r.to
      /\ r.from + mid - 1 + 1 = r.from + mid /\ r.from + mid >= 1
  BY <1>1, <1>2
<1>5. p \in Request /\ s \in Request
  BY <1>1, <1>3, <1>4 DEF Request
<1>6. Halves(r) = <<p, s>>
  BY DEF Halves, mid
<1> HIDE DEF p, s
<1>7. /\ p.table = r.table /\ s.table = r.table
      /\ p.from = r.from /\ p.to + 1 = s.from /\ s.to = r.to
      /\ p.to <= r.to /\ s.from >= 1
  BY <1>3, <1>4
<1> QED BY <1>5, <1>6, <1>7

(* Either half is asked for in its turn.                                   *)
LEMMA ChunkHalved ==
  ASSUME NEW j \in Job, j.loop = "batch", NEW a \in Seq(Request), a # <<>>,
         NEW g, NEW w, NEW ms, BatchInv(j, a, g, w, ms), a[1].from < a[1].to,
         NEW a2, NEW g2, NEW w2, NEW mk2,
         AfterGoes(j, a, g, w, ms, {}, Halves(a[1]), a2, g2, w2, mk2)
  PROVE  Stage(j, a2, g2, w2, ms, mk2) /\ a2 \in Seq(Request)
<1>1. j.size \in Nat /\ a[1] \in Request /\ Len(a) \in Nat \ {0} /\ Head(a) = a[1]
  BY WantedIs, NothingFollows
<1>2. /\ \A i \in 1..Len(a) : a[i].table = 1 /\ a[i].from >= 1 /\ a[i].to <= j.size
      /\ w = {} /\ g \subseteq {1} \X ((1..j.size) \ j.unknown)
      /\ \A x \in (1..j.size) \ j.unknown :
           \/ <<1, x>> \in g \cup ms
           \/ \E i \in 1..Len(a) : a[i].from <= x /\ x <= a[i].to
  BY DEF BatchInv
<1>3. a[1].from >= 1 /\ a[1].table = 1 /\ a[1].to <= j.size
  BY <1>1, <1>2
<1>4. PICK p \in Request, s \in Request :
        /\ Halves(a[1]) = <<p, s>> /\ p.table = 1 /\ s.table = 1
        /\ p.from = a[1].from /\ p.to + 1 = s.from /\ s.to = a[1].to
        /\ p.to <= a[1].to /\ s.from >= 1
  BY <1>1, <1>3, HalvesAre
<1>5. a2 = <<p, s>> \o Tail(a)
  BY <1>4 DEF AfterGoes
<1>6. /\ a2 \in Seq(Request) /\ Len(a2) = Len(a) + 1 /\ a2 # <<>>
      /\ Head(a2) = p /\ a2[1] = p /\ a2[2] = s
      /\ \A i \in 3..Len(a) + 1 : a2[i] = a[i - 1]
  BY <1>5, TwoFollow
<1>7. g2 = g /\ w2 = w /\ mk2 = "none"
  BY <1>1, <1>3, <1>4, <1>6 DEF AfterGoes
<1>8. \A i \in 1..Len(a2) : a2[i].table = 1 /\ a2[i].from >= 1 /\ a2[i].to <= j.size
  <2>1. p \in Request /\ a[1] \in Request /\ p.to \in Nat /\ p.from >= 1 /\ p.to <= j.size
    BY <1>1, <1>3, <1>4 DEF Request
  <2>2. ASSUME NEW i \in 3..Len(a2)
        PROVE  a2[i].table = 1 /\ a2[i].from >= 1 /\ a2[i].to <= j.size
    <3>1. a2[i] = a[i - 1] /\ i - 1 \in 1..Len(a)
      BY <1>1, <1>6
    <3> QED BY <3>1, <1>2
  <2>3. \A i \in 1..Len(a2) : i = 1 \/ i = 2 \/ i \in 3..Len(a2)
    BY <1>1, <1>6
  <2> QED BY <2>1, <2>2, <2>3, <1>3, <1>4, <1>6
<1>9. ASSUME NEW x \in (1..j.size) \ j.unknown
      PROVE  \/ <<1, x>> \in g \cup ms
             \/ \E i \in 1..Len(a2) : a2[i].from <= x /\ x <= a2[i].to
  <2>1. ASSUME NEW i \in 1..Len(a), a[i].from <= x /\ x <= a[i].to
        PROVE  \E y \in 1..Len(a2) : a2[y].from <= x /\ x <= a2[y].to
    <3>1. CASE i = 1
      <4>1. p.to \in Nat /\ s.from \in Nat /\ x \in Nat
        BY <1>1 DEF Request
      <4>2. (p.from <= x /\ x <= p.to) \/ (s.from <= x /\ x <= s.to)
        BY <4>1, <1>4, <2>1, <3>1
      <4>3. 1 \in 1..Len(a2) /\ 2 \in 1..Len(a2)
        BY <1>1, <1>6
      <4> QED BY <4>2, <4>3, <1>6
    <3>2. CASE i # 1
      <4>1. i + 1 \in 3..Len(a) + 1 /\ i + 1 \in 1..Len(a2) /\ (i + 1) - 1 = i
        BY <1>1, <1>6, <3>2
      <4>2. a2[i + 1] = a[i]
        BY <4>1, <1>6
      <4> QED BY <4>1, <4>2, <2>1
    <3> QED BY <3>1, <3>2
  <2> QED BY <2>1, <1>2
<1>10. BatchInv(j, a2, g2, w2, ms)
  BY <1>2, <1>7, <1>8, <1>9 DEF BatchInv
<1> QED BY <1>6, <1>7, <1>10 DEF Stage, LoopInv, Pagers

(* The chunks of a batch leave no ticker out.                              *)
LEMMA ChunksCover ==
  ASSUME NEW n \in Nat
  PROVE  /\ Chunks(n) \in Seq(Request)
         /\ \A i \in 1..Len(Chunks(n)) :
              /\ Chunks(n)[i].table = 1 /\ Chunks(n)[i].from >= 1
              /\ Chunks(n)[i].to <= n
         /\ \A x \in 1..n : \E i \in 1..Len(Chunks(n)) :
              Chunks(n)[i].from <= x /\ x <= Chunks(n)[i].to
<1>1. Page \in Nat \ {0}
  BY JobAssumption DEF JobAssumption
<1> DEFINE m == (n + Page - 1) \div Page
<1>2. m \in Nat
  BY <1>1
<1>3. ASSUME NEW x \in 1..n
      PROVE  \E c \in 1..m : (c - 1) * Page + 1 <= x /\ x <= c * Page
  <2> DEFINE c == ((x - 1) \div Page) + 1
  <2>1. c \in Nat /\ c >= 1 /\ (c - 1) * Page + 1 <= x /\ x <= c * Page
    BY <1>1
  <2>2. c <= m
    BY <1>1
  <2> QED BY <2>1, <2>2, <1>2
<1>4. \A c \in 1..m : c * Page \in Nat /\ (c - 1) * Page + 1 \in Nat
                     /\ (c - 1) * Page + 1 >= 1
  BY <1>1, <1>2
<1> HIDE DEF m
<1>5. ASSUME NEW u \in Nat
      PROVE  Min({u, n}) = IF u <= n THEN u ELSE n
  <2> DEFINE v == IF u <= n THEN u ELSE n
  <2>1. v \in {u, n} /\ \A y \in {u, n} : v <= y
    OBVIOUS
  <2>2. \A y \in {u, n} : (\A z \in {u, n} : y <= z) => y = v
    OBVIOUS
  <2> QED BY <2>1, <2>2 DEF Min
<1>6. Chunks(n) = [c \in 1..m |-> [table |-> 1, from |-> (c - 1) * Page + 1,
                                   to |-> Min({c * Page, n})]]
  BY DEF Chunks, m
<1>7. \A c \in 1..m : /\ Min({c * Page, n}) \in Nat /\ Min({c * Page, n}) <= n
                      /\ \A x \in 1..n : x <= c * Page => x <= Min({c * Page, n})
  BY <1>4, <1>5
<1>8. Chunks(n) \in Seq(Request) /\ Len(Chunks(n)) = m
  <2>1. Chunks(n) \in [1..m -> Request]
    BY <1>4, <1>6, <1>7 DEF Request
  <2> QED BY <2>1, <1>2, FunctionIsSeq
<1>9. \A c \in 1..m :
        /\ Chunks(n)[c].table = 1 /\ Chunks(n)[c].from = (c - 1) * Page + 1
        /\ Chunks(n)[c].to = Min({c * Page, n})
  BY <1>6
<1>10. \A x \in 1..n : \E i \in 1..m : Chunks(n)[i].from <= x /\ x <= Chunks(n)[i].to
  BY <1>3, <1>7, <1>9
<1> QED BY <1>4, <1>7, <1>8, <1>9, <1>10

(* A turn begins at a stage of its loop.                                   *)
LEMMA Begins ==
  ASSUME NEW j \in Job
  PROVE  /\ FirstAsks(j) \in Seq(Request)
         /\ Stage(j, FirstAsks(j), {}, {}, {}, "none")
<1>1. j.size \in Nat /\ NumTables(j) \in 1..Tables /\ Tables \in Nat
  BY WantedIs, JobAssumption DEF JobAssumption
<1>2. CASE j.loop = "batch"
  <2>1. FirstAsks(j) = Chunks(j.size)
    BY <1>2 DEF FirstAsks
  <2>2. BatchInv(j, Chunks(j.size), {}, {}, {})
    <3>1. /\ \A i \in 1..Len(Chunks(j.size)) :
               /\ Chunks(j.size)[i].table = 1 /\ Chunks(j.size)[i].from >= 1
               /\ Chunks(j.size)[i].to <= j.size
          /\ \A x \in 1..j.size : \E i \in 1..Len(Chunks(j.size)) :
               Chunks(j.size)[i].from <= x /\ x <= Chunks(j.size)[i].to
      BY <1>1, ChunksCover, Zenon
    <3> QED BY <3>1 DEF BatchInv
  <2>3. LoopInv(j, Chunks(j.size), {}, {}, {})
    BY <2>2, <1>2 DEF LoopInv, Pagers
  <2>4. Chunks(j.size) \in Seq(Request)
    BY <1>1, ChunksCover, Zenon
  <2> QED BY <2>1, <2>3, <2>4 DEF Stage, Part
<1>3. CASE j.loop \in Pagers
  <2>1. FirstAsks(j) = [k \in 1..NumTables(j) |-> [table |-> k, from |-> 1, to |-> 0]]
    <3>1. CASE j.loop = "tables"
      BY <3>1 DEF FirstAsks, NumTables
    <3>2. CASE j.loop # "tables"
      <4>1. FirstAsks(j) = <<[table |-> 1, from |-> 1, to |-> 0]>> /\ NumTables(j) = 1
        BY <1>3, <3>2 DEF FirstAsks, NumTables, Pagers
      <4> QED BY <4>1
    <3> QED BY <3>1, <3>2
  <2> DEFINE a == FirstAsks(j)
  <2>2. /\ a \in Seq(Request) /\ Len(a) = NumTables(j) /\ a # <<>>
        /\ \A i \in 1..Len(a) : a[i].table = i /\ a[i].from = 1
    <3>1. a \in [1..NumTables(j) -> Request] /\ NumTables(j) \in Nat \ {0}
      BY <1>1, <2>1 DEF Request
    <3>2. a \in Seq(Request) /\ Len(a) = NumTables(j) /\ a # <<>>
      BY <3>1, FunctionIsSeq
    <3> QED BY <3>2, <2>1
  <2> HIDE DEF a
  <2>3. \A x \in 1..j.size : ~ (1 = EndKey \/ x < 1)
    BY <1>1 DEF EndKey
  <2>4. HasRead({}, 1, a[1].from, j.size)
    BY <1>1, <2>2, <2>3 DEF HasRead
  <2>5. {} = (1..1 - 1) \X (1..j.size)
    OBVIOUS
  <2>6. PagesInv(j, a, {}, {}, {}, 1)
    BY <1>1, <2>2, <2>4, <2>5 DEF PagesInv
  <2>7. 1 \in 1..NumTables(j) /\ j.loop # "periods" /\ j.loop # "batch"
    BY <1>1, <1>3 DEF Pagers
  <2>8. a \in Seq(Request) /\ Stage(j, a, {}, {}, {}, "none")
    BY <2>2, <2>6, <2>7 DEF Stage, LoopInv
  <2> QED BY <2>8 DEF a
<1>4. CASE j.loop = "periods"
  <2>1. FirstAsks(j) = <<[table |-> 1, from |-> 1, to |-> 0]>>
    BY <1>4 DEF FirstAsks
  <2> DEFINE a == FirstAsks(j)
  <2>2. /\ a \in Seq(Request) /\ Len(a) = 1 /\ a # <<>>
        /\ a[1].table = 1 /\ a[1].from = 1
    BY <2>1 DEF Request
  <2> HIDE DEF a
  <2>3. PeriodsInv(j, a, {}, {}, {}, 1)
    BY <2>2 DEF PeriodsInv
  <2>4. a \in Seq(Request) /\ Stage(j, a, {}, {}, {}, "none")
    BY <1>4, <2>2, <2>3 DEF Stage, LoopInv, Pagers
  <2> QED BY <2>4 DEF a
<1> QED BY <1>2, <1>3, <1>4 DEF Job, Pagers
-----------------------------------------------------------------------------
Item  == Nat \X Nat
Marks == {"none", "ok", "skip", "error", "raised"}

(* Every turn is at a stage of its loop, and a call belongs to a turn.     *)
TurnInv ==
  /\ JobsInv
  /\ asks \in [Thread -> Seq(Request)]
  /\ got \in [Thread -> SUBSET Item]
  /\ written \in [Thread -> SUBSET Item]
  /\ missed \in [Thread -> SUBSET Item]
  /\ mark \in [Thread -> Marks]
  /\ \A t \in Thread : pc[t] # "idle" => asks[t] # <<>>
  /\ \A t \in Thread :
       Stage(job[t], asks[t], got[t], written[t], missed[t], mark[t])

(* In the first state no thread is in a turn.                              *)
LEMMA TurnInit == InitTurn => TurnInv
<1> SUFFICES ASSUME InitTurn PROVE TurnInv
  OBVIOUS
<1>1. JobsInv
  BY JobsInit
<1>2. /\ asks = [t \in Thread |-> <<>>] /\ got = [t \in Thread |-> {}]
      /\ written = [t \in Thread |-> {}] /\ missed = [t \in Thread |-> {}]
      /\ mark = [t \in Thread |-> "none"] /\ \A t \in Thread : pc[t] = "idle"
  BY DEF InitTurn, Init
<1>3. ASSUME NEW t \in Thread
      PROVE  Stage(job[t], asks[t], got[t], written[t], missed[t], mark[t])
  BY <1>2 DEF Stage, Part
<1>4. /\ asks \in [Thread -> Seq(Request)] /\ got \in [Thread -> SUBSET Item]
      /\ written \in [Thread -> SUBSET Item] /\ missed \in [Thread -> SUBSET Item]
      /\ mark \in [Thread -> Marks]
  BY <1>2 DEF Marks
<1> QED BY <1>1, <1>2, <1>3, <1>4 DEF TurnInv

(* A step of one thread that takes its turn to another stage.              *)
LEMMA OneThread ==
  ASSUME TurnInv, LimiterInv, NEW t \in Thread, NEW j \in Jobs[t], j \in Job,
         NEW a \in Seq(Request), NEW g \in SUBSET Item, NEW w \in SUBSET Item,
         NEW ms \in SUBSET Item, NEW mk \in Marks, NEW p,
         Stage(j, a, g, w, ms, mk), p = "idle" \/ a # <<>>,
         job' = [job EXCEPT ![t] = j], asks' = [asks EXCEPT ![t] = a],
         got' = [got EXCEPT ![t] = g], written' = [written EXCEPT ![t] = w],
         missed' = [missed EXCEPT ![t] = ms], mark' = [mark EXCEPT ![t] = mk],
         pc' = [pc EXCEPT ![t] = p]
  PROVE  TurnInv'
<1>1. /\ job \in [Thread -> Job] /\ asks \in [Thread -> Seq(Request)]
      /\ got \in [Thread -> SUBSET Item] /\ written \in [Thread -> SUBSET Item]
      /\ missed \in [Thread -> SUBSET Item] /\ mark \in [Thread -> Marks]
      /\ pc \in [Thread -> Place]
  BY DEF TurnInv, JobsInv, LimiterInv, TypeOK
<1>2. JobsInv'
  BY <1>1 DEF TurnInv, JobsInv
<1>3. /\ asks' \in [Thread -> Seq(Request)]
      /\ got' \in [Thread -> SUBSET Item] /\ written' \in [Thread -> SUBSET Item]
      /\ missed' \in [Thread -> SUBSET Item] /\ mark' \in [Thread -> Marks]
  BY <1>1
<1>4. ASSUME NEW u \in Thread
      PROVE  /\ pc'[u] # "idle" => asks'[u] # <<>>
             /\ Stage(job'[u], asks'[u], got'[u], written'[u], missed'[u], mark'[u])
  <2>1. CASE u = t
    <3>1. /\ job'[u] = j /\ asks'[u] = a /\ got'[u] = g /\ written'[u] = w
          /\ missed'[u] = ms /\ mark'[u] = mk /\ pc'[u] = p
      BY <1>1, <2>1
    <3> QED BY <3>1
  <2>2. CASE u # t
    <3>1. /\ job'[u] = job[u] /\ asks'[u] = asks[u] /\ got'[u] = got[u]
          /\ written'[u] = written[u] /\ missed'[u] = missed[u]
          /\ mark'[u] = mark[u] /\ pc'[u] = pc[u]
      BY <1>1, <2>2
    <3> QED BY <3>1 DEF TurnInv
  <2> QED BY <2>1, <2>2
<1> QED BY <1>2, <1>3, <1>4 DEF TurnInv

(* An answer that is taken: it is enough to follow the values.             *)
LEMMA GoesKeeps ==
  ASSUME TurnInv, LimiterInv, NEW t \in Thread, Answer(t),
         NEW items \in SUBSET Nat, NEW follow, Goes(t, items, follow),
         \A a, g, w, mk :
           AfterGoes(job[t], asks[t], got[t], written[t], missed[t],
                     items, follow, a, g, w, mk) =>
             a \in Seq(Request) /\ Stage(job[t], a, g, w, missed[t], mk)
  PROVE  TurnInv'
<1>1. /\ job \in [Thread -> Job] /\ asks \in [Thread -> Seq(Request)]
      /\ got \in [Thread -> SUBSET Item] /\ written \in [Thread -> SUBSET Item]
      /\ missed \in [Thread -> SUBSET Item] /\ mark \in [Thread -> Marks]
      /\ job[t] \in Jobs[t] /\ job[t] \in Job
  BY DEF TurnInv, JobsInv
<1>2. pc[t] = "send" /\ pc' = [pc EXCEPT ![t] = "idle"]
  BY DEF Answer, Goto
<1>3. asks[t] # <<>> /\ mark[t] = "none"
  BY <1>2 DEF TurnInv, Stage
<1>4. asks[t] \in Seq(Request) /\ Asked(t) \in Request /\ Asked(t) = Head(asks[t])
  BY <1>1, <1>3, NothingFollows DEF Asked
<1> DEFINE a  == follow \o Tail(asks[t])
           al == got[t] \cup ({Asked(t).table} \X items)
           g  == IF a = <<>> THEN {} ELSE al
           w  == IF a # <<>> /\ Head(a).table = Asked(t).table THEN written[t] ELSE al
           mk == IF a = <<>> THEN "ok" ELSE "none"
<1>5. /\ job' = [job EXCEPT ![t] = job[t]] /\ asks' = [asks EXCEPT ![t] = a]
      /\ got' = [got EXCEPT ![t] = g] /\ written' = [written EXCEPT ![t] = w]
      /\ missed' = [missed EXCEPT ![t] = missed[t]]
      /\ mark' = [mark EXCEPT ![t] = mk]
  <2>1. /\ asks' = [asks EXCEPT ![t] = a] /\ got' = [got EXCEPT ![t] = g]
        /\ job' = job /\ missed' = missed
    BY DEF Goes
  <2>2. written' = [written EXCEPT ![t] = w]
    BY <1>1 DEF Goes
  <2>3. mark' = [mark EXCEPT ![t] = mk]
    BY <1>1, <1>3 DEF Goes
  <2>4. job = [job EXCEPT ![t] = job[t]] /\ missed = [missed EXCEPT ![t] = missed[t]]
    BY <1>1
  <2> QED BY <2>1, <2>2, <2>3, <2>4
<1>6. AfterGoes(job[t], asks[t], got[t], written[t], missed[t], items, follow, a, g, w, mk)
  BY <1>4 DEF AfterGoes
<1>7. al \in SUBSET Item
  <2>1. Asked(t).table \in Nat
    BY <1>4 DEF Request
  <2> QED BY <2>1, <1>1 DEF Item
<1>8. g \in SUBSET Item /\ w \in SUBSET Item /\ mk \in Marks
  BY <1>1, <1>7 DEF Marks
<1> HIDE DEF a, g, w, mk
<1>9. a \in Seq(Request) /\ Stage(job[t], a, g, w, missed[t], mk)
  BY <1>6
<1>10. missed[t] \in SUBSET Item
  BY <1>1
<1> QED BY <1>1, <1>2, <1>5, <1>8, <1>9, <1>10, OneThread

(* A turn that an exception leaves has written whole tables.               *)
LEMMA StageIsPart ==
  ASSUME NEW j \in Job, NEW a, NEW g, NEW w, NEW ms, NEW mk, Stage(j, a, g, w, ms, mk)
  PROVE  Part(j, w, ms)
<1>1. CASE a = <<>>
  BY <1>1 DEF Stage
<1>2. CASE a # <<>> /\ j.loop \in Pagers
  <2>1. PICK k \in 1..NumTables(j) : PagesInv(j, a, g, w, ms, k)
    BY <1>2 DEF Stage, LoopInv
  <2>2. k - 1 \in 0..NumTables(j) /\ w = (1..k - 1) \X (1..j.size) /\ ms = {}
    BY <2>1, WantedIs DEF PagesInv
  <2> QED BY <1>2, <2>2 DEF Part
<1>3. CASE a # <<>> /\ j.loop = "periods"
  BY <1>3 DEF Stage, LoopInv, PeriodsInv, Part
<1>4. CASE a # <<>> /\ j.loop = "batch"
  BY <1>4 DEF Stage, LoopInv, BatchInv, Part
<1> QED BY <1>1, <1>2, <1>3, <1>4 DEF Job, Pagers

(* An exception ends the turn with what is written.                        *)
LEMMA LeavesKeeps ==
  ASSUME TurnInv, LimiterInv, NEW t \in Thread, NEW how \in Marks, how # "ok",
         Leaves(t, how), pc' = [pc EXCEPT ![t] = "idle"]
  PROVE  TurnInv'
<1>1. /\ job \in [Thread -> Job] /\ got \in [Thread -> SUBSET Item]
      /\ written \in [Thread -> SUBSET Item] /\ missed \in [Thread -> SUBSET Item]
      /\ job[t] \in Jobs[t] /\ job[t] \in Job
      /\ Stage(job[t], asks[t], got[t], written[t], missed[t], mark[t])
  BY DEF TurnInv, JobsInv
<1>2. Part(job[t], written[t], missed[t])
  BY <1>1, StageIsPart
<1>3. Stage(job[t], <<>>, {}, written[t], missed[t], how)
  BY <1>2 DEF Stage
<1>4. /\ job' = [job EXCEPT ![t] = job[t]] /\ asks' = [asks EXCEPT ![t] = <<>>]
      /\ got' = [got EXCEPT ![t] = {}] /\ written' = [written EXCEPT ![t] = written[t]]
      /\ missed' = [missed EXCEPT ![t] = missed[t]]
      /\ mark' = [mark EXCEPT ![t] = how]
  BY <1>1 DEF Leaves
<1>5. <<>> \in Seq(Request) /\ {} \in SUBSET Item
      /\ written[t] \in SUBSET Item /\ missed[t] \in SUBSET Item
  BY <1>1
<1> QED BY <1>1, <1>3, <1>4, <1>5, OneThread

(* A thread in a call is in the loop of its turn.                          *)
LEMMA AtWork ==
  ASSUME TurnInv, NEW t \in Thread, pc[t] # "idle"
  PROVE  /\ asks[t] \in Seq(Request) /\ asks[t] # <<>>
         /\ Asked(t) = asks[t][1] /\ Asked(t) \in Request
         /\ job[t] \in Job /\ job[t] \in Jobs[t] /\ job[t].size \in Nat
         /\ mark[t] = "none"
         /\ LoopInv(job[t], asks[t], got[t], written[t], missed[t])
<1>1. asks[t] \in Seq(Request) /\ asks[t] # <<>> /\ job[t] \in Job /\ job[t] \in Jobs[t]
  BY DEF TurnInv, JobsInv
<1>2. Asked(t) = asks[t][1] /\ Asked(t) \in Request
  BY <1>1, NothingFollows DEF Asked
<1>3. mark[t] = "none" /\ LoopInv(job[t], asks[t], got[t], written[t], missed[t])
  BY <1>1 DEF TurnInv, Stage
<1> QED BY <1>1, <1>2, <1>3, WantedIs

(* A loop over pages takes its last page of a table, or another one.       *)
LEMMA PagerKeeps ==
  ASSUME TurnInv, LimiterInv, NEW t \in Thread, Answer(t), job[t].loop \in Pagers,
         NEW items \in SUBSET (1..job[t].size), NEW follow, Goes(t, items, follow),
         \A g, k : HasRead(g, k, Asked(t).from, job[t].size) =>
           \/ /\ follow = <<>>
              /\ HasRead(g \cup ({k} \X items), k, EndKey, job[t].size)
           \/ \E r \in Request :
                /\ follow = <<r>> /\ r.table = Asked(t).table
                /\ HasRead(g \cup ({k} \X items), k, r.from, job[t].size)
  PROVE  TurnInv'
<1>1. pc[t] # "idle"
  BY DEF Answer
<1>2. /\ asks[t] \in Seq(Request) /\ asks[t] # <<>>
      /\ Asked(t) = asks[t][1] /\ Asked(t) \in Request
      /\ job[t] \in Job /\ job[t].size \in Nat
      /\ LoopInv(job[t], asks[t], got[t], written[t], missed[t])
  BY <1>1, AtWork
<1>3. PICK k \in 1..NumTables(job[t]) :
        PagesInv(job[t], asks[t], got[t], written[t], missed[t], k)
  BY <1>2 DEF LoopInv
<1>4. Asked(t).table = k /\ HasRead(got[t], k, Asked(t).from, job[t].size)
  <2>1. k \in Nat /\ Len(asks[t]) \in Nat \ {0}
    BY <1>2, NothingFollows, WantedIs
  <2> QED BY <1>2, <1>3, <2>1 DEF PagesInv
<1>5. ASSUME NEW a, NEW g, NEW w, NEW mk,
             AfterGoes(job[t], asks[t], got[t], written[t], missed[t],
                       items, follow, a, g, w, mk)
      PROVE  a \in Seq(Request) /\ Stage(job[t], a, g, w, missed[t], mk)
  <2>1. CASE /\ follow = <<>>
             /\ HasRead(got[t] \cup ({k} \X items), k, EndKey, job[t].size)
    <3>1. AfterGoes(job[t], asks[t], got[t], written[t], missed[t],
                    items, <<>>, a, g, w, mk)
      BY <1>5, <2>1
    <3>2. a \in Seq(Request)
      BY <3>1, <1>2, NothingFollows DEF AfterGoes
    <3> QED BY <3>1, <3>2, <2>1, <1>2, <1>3, TableEnds
  <2>2. ASSUME NEW r \in Request, follow = <<r>>, r.table = k,
               HasRead(got[t] \cup ({k} \X items), k, r.from, job[t].size)
        PROVE  a \in Seq(Request) /\ Stage(job[t], a, g, w, missed[t], mk)
    <3>1. AfterGoes(job[t], asks[t], got[t], written[t], missed[t],
                    items, <<r>>, a, g, w, mk)
      BY <1>5, <2>2
    <3>2. a \in Seq(Request)
      BY <3>1, <1>2, OneFollows DEF AfterGoes
    <3> QED BY <3>1, <3>2, <2>2, <1>2, <1>3, TableGoesOn
  <2> QED BY <1>4, <2>1, <2>2
<1>6. items \in SUBSET Nat
  BY <1>2
<1> QED BY <1>5, <1>6, GoesKeeps

(* All there is, in one answer.                                            *)
LEMMA WholeKeeps ==
  ASSUME TurnInv, LimiterInv, NEW t \in Thread, Whole(t) \/ PlainList(t)
  PROVE  TurnInv'
<1>1. /\ job[t].loop \in Pagers /\ Answer(t) /\ Goes(t, 1..job[t].size, <<>>)
  BY DEF Whole, PlainList, Pagers
<1>2. ASSUME NEW g, NEW k
      PROVE  HasRead(g \cup ({k} \X (1..job[t].size)), k, EndKey, job[t].size)
  BY DEF HasRead
<1> QED BY <1>1, <1>2, PagerKeeps

(* Pages until one is not full.                                            *)
LEMMA PageBySizeKeeps ==
  ASSUME TurnInv, LimiterInv, NEW t \in Thread, PageBySize(t)
  PROVE  TurnInv'
<1> DEFINE j == job[t]
           next(items) == [Asked(t) EXCEPT !.from =
                             IF j.shape = "dict" THEN KeyAfter(j, items) ELSE 1]
<1>1. PICK items \in PagesAt(j, Asked(t).from) :
        Goes(t, items, IF Cardinality(items) < Page THEN <<>> ELSE <<next(items)>>)
  BY DEF PageBySize
<1>2. j.loop \in Pagers /\ Answer(t) /\ pc[t] # "idle"
  BY DEF PageBySize, Pagers, Answer
<1>3. Asked(t) \in Request /\ j \in Job /\ j.size \in Nat /\ Asked(t).from \in Nat
  BY <1>2, AtWork DEF Request
<1> HIDE DEF j, next
<1>4. items \subseteq 1..j.size
  BY <1>3, PageIs
<1>5. ASSUME NEW g, NEW k, HasRead(g, k, Asked(t).from, j.size)
      PROVE  LET follow == IF Cardinality(items) < Page THEN <<>> ELSE <<next(items)>>
             IN  \/ /\ follow = <<>>
                    /\ HasRead(g \cup ({k} \X items), k, EndKey, j.size)
                 \/ \E r \in Request :
                      /\ follow = <<r>> /\ r.table = Asked(t).table
                      /\ HasRead(g \cup ({k} \X items), k, r.from, j.size)
  <2>1. CASE Cardinality(items) < Page
    BY <2>1, <1>3, <1>5, ShortPage
  <2>2. CASE ~ (Cardinality(items) < Page)
    <3> DEFINE key == IF j.shape = "dict" THEN KeyAfter(j, items) ELSE 1
    <3>1. items # {}
      BY <2>2, FS_EmptySet, JobAssumption DEF JobAssumption
    <3>2. KeyAfter(j, items) \in Nat
          /\ HasRead(g \cup ({k} \X items), k, KeyAfter(j, items), j.size)
      BY <3>1, <1>3, <1>5, NextPage
    <3>3. HasRead(g \cup ({k} \X items), k, 1, j.size)
      BY <1>3 DEF HasRead, EndKey
    <3>4. key \in Nat /\ HasRead(g \cup ({k} \X items), k, key, j.size)
      BY <3>2, <3>3
    <3>5. next(items) = [table |-> Asked(t).table, from |-> key, to |-> Asked(t).to]
      BY <1>3 DEF Request, next
    <3> HIDE DEF key
    <3>6. next(items) \in Request /\ next(items).table = Asked(t).table
          /\ next(items).from = key
      BY <3>4, <3>5, <1>3 DEF Request
    <3> QED BY <2>2, <3>4, <3>6
  <2> QED BY <2>1, <2>2
<1> DEFINE follow == IF Cardinality(items) < Page THEN <<>> ELSE <<next(items)>>
<1>6. Goes(t, items, follow)
  BY <1>1
<1>7. \A g, k : HasRead(g, k, Asked(t).from, j.size) =>
        \/ /\ follow = <<>>
           /\ HasRead(g \cup ({k} \X items), k, EndKey, j.size)
        \/ \E r \in Request :
             /\ follow = <<r>> /\ r.table = Asked(t).table
             /\ HasRead(g \cup ({k} \X items), k, r.from, j.size)
  BY <1>5
<1> HIDE DEF follow
<1> QED BY <1>2, <1>4, <1>6, <1>7, PagerKeeps DEF j

(* Pages until there is no further cursor.                                 *)
LEMMA PageByKeyKeeps ==
  ASSUME TurnInv, LimiterInv, NEW t \in Thread, PageByKey(t)
  PROVE  TurnInv'
<1> DEFINE j == job[t]
           next(items) == [Asked(t) EXCEPT !.from = KeyAfter(j, items)]
<1>1. PICK items \in PagesAt(j, Asked(t).from) :
        Goes(t, items, IF items = {} \/ KeyAfter(j, items) = EndKey
                       THEN <<>> ELSE <<next(items)>>)
  BY DEF PageByKey
<1>2. j.loop \in Pagers /\ Answer(t) /\ pc[t] # "idle"
  BY DEF PageByKey, Pagers, Answer
<1>3. Asked(t) \in Request /\ j \in Job /\ j.size \in Nat /\ Asked(t).from \in Nat
  BY <1>2, AtWork DEF Request
<1> HIDE DEF j, next
<1>4. items \subseteq 1..j.size
  BY <1>3, PageIs
<1> DEFINE follow == IF items = {} \/ KeyAfter(j, items) = EndKey
                     THEN <<>> ELSE <<next(items)>>
<1>5. ASSUME NEW g, NEW k, HasRead(g, k, Asked(t).from, j.size)
      PROVE  \/ /\ follow = <<>>
                /\ HasRead(g \cup ({k} \X items), k, EndKey, j.size)
             \/ \E r \in Request :
                  /\ follow = <<r>> /\ r.table = Asked(t).table
                  /\ HasRead(g \cup ({k} \X items), k, r.from, j.size)
  <2>1. CASE items = {}
    BY <2>1, <1>3, <1>5, ShortPage
  <2>2. CASE items # {}
    <3>1. KeyAfter(j, items) \in Nat
          /\ HasRead(g \cup ({k} \X items), k, KeyAfter(j, items), j.size)
      BY <2>2, <1>3, <1>5, NextPage
    <3>2. next(items) = [table |-> Asked(t).table, from |-> KeyAfter(j, items),
                         to |-> Asked(t).to]
      BY <1>3 DEF Request, next
    <3>3. next(items) \in Request /\ next(items).table = Asked(t).table
          /\ next(items).from = KeyAfter(j, items)
      BY <3>1, <3>2, <1>3 DEF Request
    <3> QED BY <2>2, <3>1, <3>3
  <2> QED BY <2>1, <2>2
<1>6. Goes(t, items, follow)
  BY <1>1
<1> HIDE DEF follow
<1> QED BY <1>2, <1>4, <1>5, <1>6, PagerKeeps DEF j

(* The list of the periods, and each period.                               *)
LEMMA PeriodKeeps ==
  ASSUME TurnInv, LimiterInv, NEW t \in Thread, Period(t)
  PROVE  TurnInv'
<1> DEFINE follow == IF Asked(t).from > 1 THEN <<>>
                     ELSE [i \in (1..Recent) \cap (1..job[t].size - 1) |->
                             [table |-> 1, from |-> i + 1, to |-> 0]]
           items == {Asked(t).from} \cap (1..job[t].size)
<1>1. job[t].loop = "periods" /\ Answer(t) /\ pc[t] # "idle" /\ Goes(t, items, follow)
  BY DEF Period, Answer
<1>2. /\ asks[t] \in Seq(Request) /\ asks[t] # <<>>
      /\ Asked(t) = asks[t][1] /\ Asked(t) \in Request
      /\ job[t] \in Job /\ job[t].size \in Nat
      /\ LoopInv(job[t], asks[t], got[t], written[t], missed[t])
  BY <1>1, AtWork
<1>3. PICK f \in Nat \ {0} :
        PeriodsInv(job[t], asks[t], got[t], written[t], missed[t], f)
  BY <1>1, <1>2 DEF LoopInv
<1>4. Asked(t).from = f
  <2>1. Len(asks[t]) \in Nat \ {0}
    BY <1>2, NothingFollows
  <2> QED BY <1>2, <1>3, <2>1 DEF PeriodsInv
<1>5. items = {f} \cap (1..job[t].size) /\ items \in SUBSET Nat
  BY <1>4
<1>6. CASE f > 1
  <2>1. follow = <<>>
    BY <1>4, <1>6
  <2>2. ASSUME NEW a, NEW g, NEW w, NEW mk,
               AfterGoes(job[t], asks[t], got[t], written[t], missed[t],
                         items, follow, a, g, w, mk)
        PROVE  a \in Seq(Request) /\ Stage(job[t], a, g, w, missed[t], mk)
    <3>1. AfterGoes(job[t], asks[t], got[t], written[t], missed[t],
                    {f} \cap (1..job[t].size), <<>>, a, g, w, mk)
      BY <2>1, <2>2, <1>5
    <3>2. a \in Seq(Request)
      BY <3>1, <1>2, NothingFollows DEF AfterGoes
    <3> QED BY <3>1, <3>2, <1>1, <1>2, <1>3, <1>6, PeriodGot
  <2> HIDE DEF follow, items
  <2> QED BY <2>2, <1>1, <1>5, GoesKeeps
<1>7. CASE ~ (f > 1)
  <2>1. f = 1
    BY <1>7
  <2>2. follow = [i \in (1..Recent) \cap (1..job[t].size - 1) |->
                    [table |-> 1, from |-> i + 1, to |-> 0]]
    BY <1>4, <2>1
  <2>3. ASSUME NEW a, NEW g, NEW w, NEW mk,
               AfterGoes(job[t], asks[t], got[t], written[t], missed[t],
                         items, follow, a, g, w, mk)
        PROVE  a \in Seq(Request) /\ Stage(job[t], a, g, w, missed[t], mk)
    <3>1. AfterGoes(job[t], asks[t], got[t], written[t], missed[t], {1} \cap (1..job[t].size),
                    [i \in (1..Recent) \cap (1..job[t].size - 1) |->
                       [table |-> 1, from |-> i + 1, to |-> 0]], a, g, w, mk)
      BY <2>1, <2>2, <2>3, <1>5
    <3>2. PeriodsInv(job[t], asks[t], got[t], written[t], missed[t], 1)
      BY <2>1, <1>3
    <3> QED BY <3>1, <3>2, <1>1, <1>2, PeriodsListed
  <2> HIDE DEF follow, items
  <2> QED BY <2>3, <1>1, <1>5, GoesKeeps
<1> QED BY <1>6, <1>7

(* A request that is passed over, for its type or its failure.             *)
LEMMA PassKeeps ==
  ASSUME TurnInv, LimiterInv, NEW t \in Thread, pc[t] # "idle", PassesOver(t),
         job[t].loop \notin {"key", "tables"},
         pc' = [pc EXCEPT ![t] = "idle"]
  PROVE  TurnInv'
<1>1. /\ asks[t] \in Seq(Request) /\ asks[t] # <<>> /\ mark[t] = "none"
      /\ Asked(t) = asks[t][1] /\ Asked(t) \in Request
      /\ job[t] \in Job /\ job[t] \in Jobs[t] /\ job[t].size \in Nat
      /\ LoopInv(job[t], asks[t], got[t], written[t], missed[t])
  BY AtWork
<1>2. /\ job \in [Thread -> Job]
      /\ got[t] \in SUBSET Item /\ written[t] \in SUBSET Item /\ missed[t] \in SUBSET Item
      /\ got \in [Thread -> SUBSET Item] /\ written \in [Thread -> SUBSET Item]
      /\ mark \in [Thread -> Marks]
  BY DEF TurnInv, JobsInv
<1> DEFINE out == LeftOut(job[t], asks[t][1])
           a  == Tail(asks[t])
           g  == IF a = <<>> THEN {} ELSE got[t]
           w  == IF a = <<>> THEN got[t] ELSE written[t]
           ms == missed[t] \cup out
           mk == IF a = <<>> THEN "ok" ELSE "none"
<1>3. out \in SUBSET Item
  <2>1. asks[t][1].table \in Nat /\ asks[t][1].from \in Nat /\ asks[t][1].to \in Nat
    BY <1>1 DEF Request
  <2> DEFINE xs == IF job[t].loop = "batch" THEN asks[t][1].from..asks[t][1].to
                   ELSE IF job[t].loop = "periods" /\ asks[t][1].from > 1 THEN {asks[t][1].from}
                   ELSE IF asks[t][1].from = EndKey THEN {} ELSE asks[t][1].from..job[t].size
  <2>2. out = {asks[t][1].table} \X xs
    BY DEF LeftOut
  <2>3. xs \subseteq Nat
    BY <1>1, <2>1
  <2> HIDE DEF xs, out
  <2> QED BY <2>1, <2>2, <2>3 DEF Item
<1> HIDE DEF out
<1>4. /\ job' = [job EXCEPT ![t] = job[t]] /\ asks' = [asks EXCEPT ![t] = a]
      /\ got' = [got EXCEPT ![t] = g] /\ written' = [written EXCEPT ![t] = w]
      /\ missed' = [missed EXCEPT ![t] = ms] /\ mark' = [mark EXCEPT ![t] = mk]
  <2>1. asks' = [asks EXCEPT ![t] = a] /\ job' = job
    BY DEF PassesOver
  <2>2. missed' = [missed EXCEPT ![t] = ms]
    BY <1>1 DEF PassesOver, out
  <2>3. written' = [written EXCEPT ![t] = w] /\ got' = [got EXCEPT ![t] = g]
    BY DEF PassesOver
  <2>4. mark' = [mark EXCEPT ![t] = mk]
    BY <1>1 DEF PassesOver
  <2>5. job = [job EXCEPT ![t] = job[t]]
    BY <1>2
  <2> QED BY <2>1, <2>2, <2>3, <2>4, <2>5
<1>5. AfterPass(asks[t], got[t], written[t], missed[t], out, a, g, w, ms, mk)
  BY DEF AfterPass
<1>6. /\ a \in Seq(Request) /\ g \in SUBSET Item /\ w \in SUBSET Item
      /\ ms \in SUBSET Item /\ mk \in Marks
  BY <1>1, <1>2, <1>3, NothingFollows DEF Marks
<1> HIDE DEF a, g, w, ms, mk
<1>7. Stage(job[t], a, g, w, ms, mk)
  <2>1. AfterPass(asks[t], got[t], written[t], missed[t], LeftOut(job[t], asks[t][1]),
                  a, g, w, ms, mk)
    BY <1>5 DEF out
  <2>2. CASE job[t].loop \in Pagers
    <3>1. job[t].loop \in Pagers \ {"tables"}
      BY <2>2
    <3>2. PICK k \in 1..NumTables(job[t]) :
            PagesInv(job[t], asks[t], got[t], written[t], missed[t], k)
      BY <1>1, <2>2 DEF LoopInv
    <3> QED BY <3>1, <3>2, <2>1, <1>1, PagesCut
  <2>3. CASE job[t].loop = "periods"
    <3>1. PICK f \in Nat \ {0} :
            PeriodsInv(job[t], asks[t], got[t], written[t], missed[t], f)
      BY <1>1, <2>3 DEF LoopInv
    <3>2. asks[t][1].from = f /\ asks[t][1].table = 1
      <4>1. Len(asks[t]) \in Nat \ {0}
        BY <1>1, NothingFollows
      <4> QED BY <4>1, <3>1 DEF PeriodsInv
    <3>3. CASE f = 1
      <4>1. PeriodsInv(job[t], asks[t], got[t], written[t], missed[t], 1)
        BY <3>1, <3>3
      <4> QED BY <4>1, <2>1, <2>3, <1>1, PeriodsUnread
    <3>4. CASE f > 1
      <4>1. LeftOut(job[t], asks[t][1]) = {<<1, f>>}
        BY <2>3, <3>2, <3>4 DEF LeftOut
      <4>2. AfterPass(asks[t], got[t], written[t], missed[t], {<<1, f>>}, a, g, w, ms, mk)
        BY <2>1, <4>1
      <4> QED BY <4>2, <3>1, <3>4, <2>3, <1>1, PeriodMissed
    <3> QED BY <3>3, <3>4
  <2>4. CASE job[t].loop = "batch"
    <3>1. BatchInv(job[t], asks[t], got[t], written[t], missed[t])
      BY <1>1, <2>4 DEF LoopInv
    <3> QED BY <3>1, <2>1, <2>4, <1>1, ChunkPassed
  <2>5. job[t].loop \in Pagers \cup {"periods", "batch"}
    BY <1>1 DEF Job, Pagers
  <2> QED BY <2>2, <2>3, <2>4, <2>5
<1> QED BY <1>1, <1>4, <1>6, <1>7, OneThread

(* A chunk of a batch.                                                     *)
LEMMA BatchKeeps ==
  ASSUME TurnInv, LimiterInv, NEW t \in Thread, Chunk(t) \/ Bisect(t)
  PROVE  TurnInv'
<1> DEFINE r == Asked(t)
<1>1. job[t].loop = "batch" /\ Answer(t) /\ pc[t] # "idle"
  BY DEF Chunk, Bisect, Answer
<1>2. /\ asks[t] \in Seq(Request) /\ asks[t] # <<>> /\ Len(asks[t]) \in Nat \ {0}
      /\ r = asks[t][1] /\ r \in Request /\ r.from \in Nat /\ r.to \in Nat
      /\ job[t] \in Job /\ job[t].size \in Nat
      /\ BatchInv(job[t], asks[t], got[t], written[t], missed[t])
  BY <1>1, AtWork, NothingFollows DEF LoopInv, Request
<1>3. r.from >= 1 /\ r.to <= job[t].size
  BY <1>2 DEF BatchInv
<1>4. ASSUME NEW items \in SUBSET ((1..job[t].size) \ job[t].unknown),
             Goes(t, items, <<>>),
             \A x \in (1..job[t].size) \ job[t].unknown :
               r.from <= x /\ x <= r.to => x \in items
      PROVE  TurnInv'
  <2>1. ASSUME NEW a, NEW g, NEW w, NEW mk,
               AfterGoes(job[t], asks[t], got[t], written[t], missed[t],
                         items, <<>>, a, g, w, mk)
        PROVE  a \in Seq(Request) /\ Stage(job[t], a, g, w, missed[t], mk)
    <3>1. a \in Seq(Request)
      BY <2>1, <1>2, NothingFollows DEF AfterGoes
    <3> QED BY <3>1, <2>1, <1>1, <1>2, <1>4, ChunkDone
  <2>2. items \in SUBSET Nat
    BY <1>2
  <2> QED BY <2>1, <2>2, <1>1, <1>4, GoesKeeps
<1>5. CASE Chunk(t)
  <2>1. (r.from..r.to) \cap job[t].unknown = {} /\ Goes(t, r.from..r.to, <<>>)
    BY <1>5 DEF Chunk
  <2>2. r.from..r.to \in SUBSET ((1..job[t].size) \ job[t].unknown)
    BY <2>1, <1>2, <1>3
  <2>3. \A x \in (1..job[t].size) \ job[t].unknown :
          r.from <= x /\ x <= r.to => x \in r.from..r.to
    BY <1>2
  <2> QED BY <2>1, <2>2, <2>3, <1>4
<1>6. CASE Bisect(t)
  <2>1. /\ (r.from..r.to) \cap job[t].unknown # {}
        /\ Goes(t, {}, IF r.from = r.to THEN <<>> ELSE Halves(r))
    BY <1>6 DEF Bisect
  <2>2. r.from <= r.to
    BY <2>1, <1>2
  <2>3. CASE r.from = r.to
    <3>1. Goes(t, {}, <<>>)
      BY <2>1, <2>3
    <3>2. r.from \in job[t].unknown
      BY <2>1, <2>3, <1>2
    <3>3. \A x \in (1..job[t].size) \ job[t].unknown :
            r.from <= x /\ x <= r.to => x \in {}
      BY <3>2, <2>3, <1>2
    <3> QED BY <3>1, <3>3, <1>4
  <2>4. CASE r.from # r.to
    <3>1. Goes(t, {}, Halves(r)) /\ r.from < r.to
      BY <2>1, <2>2, <2>4, <1>2
    <3>2. ASSUME NEW a, NEW g, NEW w, NEW mk,
                 AfterGoes(job[t], asks[t], got[t], written[t], missed[t],
                           {}, Halves(r), a, g, w, mk)
          PROVE  a \in Seq(Request) /\ Stage(job[t], a, g, w, missed[t], mk)
      BY <3>1, <3>2, <1>1, <1>2, ChunkHalved
    <3> HIDE DEF r
    <3> QED BY <3>1, <3>2, <1>1, GoesKeeps
  <2> QED BY <2>3, <2>4
<1> QED BY <1>5, <1>6

(* The call raises, or brings what the loop does not expect: the request   *)
(* is passed over, or the turn ends.                                       *)
LEMMA ErrorKeeps ==
  ASSUME TurnInv, LimiterInv, NEW t \in Thread,
         NotPages(t) \/ Unexpected(t) \/ Unsupported(t) \/ Raises(t)
  PROVE  TurnInv'
<1>1. pc[t] # "idle" /\ pc' = [pc EXCEPT ![t] = "idle"]
  <2>1. pc \in [Thread -> Place]
    BY DEF LimiterInv, TypeOK
  <2>2. CASE Answer(t) \/ OpenFails(t)
    BY <2>2 DEF Answer, OpenFails, Goto
  <2>3. CASE Refuse(t) /\ pc'[t] = "idle"
    <3>1. pc[t] = "send" /\ (pc' = [pc EXCEPT ![t] = "backoff"]
                             \/ pc' = [pc EXCEPT ![t] = "idle"])
      BY <2>3 DEF Refuse, Goto
    <3> QED BY <3>1, <2>1, <2>3
  <2> QED BY <2>2, <2>3 DEF NotPages, Unexpected, Unsupported, Raises
<1>2. \/ PassesOver(t) /\ job[t].loop \notin {"key", "tables"}
      \/ \E how \in Marks \ {"ok"} : Leaves(t, how)
  BY DEF NotPages, Unexpected, Unsupported, Raises, Swallow, LaterPeriod, Marks
<1> QED BY <1>1, <1>2, PassKeeps, LeavesKeeps

(* What happens inside a call changes no turn.                             *)
LEMMA CallKeeps ==
  ASSUME TurnInv, LimiterInv, NEW t \in Thread, Ask(t) \/ Within(t)
  PROVE  TurnInv'
<1>1. asks[t] # <<>>
  <2>1. CASE Ask(t)
    BY <2>1 DEF Ask, InTurn
  <2>2. CASE Within(t)
    <3>1. pc[t] # "idle"
      BY <2>2 DEF Within, EnsureCtx, OpenCtx, Acquire, Permit, Retry, Refuse
    <3> QED BY <3>1, AtWork
  <2> QED BY <2>1, <2>2
<1>2. \A u \in Thread : u # t => pc'[u] = pc[u]
  <2>1. pc \in [Thread -> Place]
    BY DEF LimiterInv, TypeOK
  <2>2. CASE Ask(t)
    BY <2>1, <2>2 DEF Ask, Call, Goto
  <2>3. CASE EnsureCtx(t) \/ OpenCtx(t) \/ Permit(t) \/ Retry(t)
    BY <2>1, <2>3 DEF EnsureCtx, OpenCtx, Permit, Retry, Goto
  <2>4. CASE Acquire(t)
    <3>1. pc' = [pc EXCEPT ![t] = "doze"] \/ pc' = [pc EXCEPT ![t] = "send"]
      BY <2>4 DEF Acquire, Goto
    <3> QED BY <2>1, <3>1
  <2>5. CASE Refuse(t)
    <3>1. pc' = [pc EXCEPT ![t] = "backoff"] \/ pc' = [pc EXCEPT ![t] = "idle"]
      BY <2>5 DEF Refuse, Goto
    <3> QED BY <2>1, <3>1
  <2> QED BY <2>2, <2>3, <2>4, <2>5 DEF Within
<1>3. /\ job' = job /\ asks' = asks /\ got' = got /\ written' = written
      /\ missed' = missed /\ mark' = mark
  BY DEF Ask, Within, turnVars
<1> QED BY <1>1, <1>2, <1>3 DEF TurnInv, JobsInv

(* Every step takes each turn from a stage to a stage.                     *)
LEMMA TurnStep ==
  TurnInv /\ LimiterInv /\ [NextTurn]_allVars => TurnInv'
<1> SUFFICES ASSUME TurnInv, LimiterInv, [NextTurn]_allVars PROVE TurnInv'
  OBVIOUS
<1>1. ASSUME NEW t \in Thread, Proceeds(t) PROVE TurnInv'
  BY <1>1, CallKeeps, WholeKeeps, PageBySizeKeeps, PageByKeyKeeps, PeriodKeeps,
     BatchKeeps, ErrorKeeps, Zenon DEF Proceeds
<1>2. ASSUME NEW t \in Thread, NEW j \in Jobs[t], Begin(t, j) PROVE TurnInv'
  <2>1. j \in Job
    BY JobAssumption DEF JobAssumption
  <2>2. pc[t] = "idle" /\ pc \in [Thread -> Place]
    BY <1>2 DEF Begin, InTurn, TurnInv, LimiterInv, TypeOK
  <2>3. pc' = [pc EXCEPT ![t] = "idle"]
    BY <1>2, <2>2 DEF Begin, vars
  <2>4. /\ job' = [job EXCEPT ![t] = j] /\ asks' = [asks EXCEPT ![t] = FirstAsks(j)]
        /\ got' = [got EXCEPT ![t] = {}] /\ written' = [written EXCEPT ![t] = {}]
        /\ missed' = [missed EXCEPT ![t] = {}] /\ mark' = [mark EXCEPT ![t] = "none"]
    BY <1>2 DEF Begin
  <2>5. {} \in SUBSET Item /\ "none" \in Marks
    BY DEF Marks
  <2>6. FirstAsks(j) \in Seq(Request) /\ Stage(j, FirstAsks(j), {}, {}, {}, "none")
    BY <2>1, Begins
  <2> QED BY <2>1, <2>3, <2>4, <2>5, <2>6, OneThread
<1>3. CASE Tick /\ UNCHANGED turnVars
  BY <1>3 DEF Tick, turnVars, TurnInv, JobsInv
<1>4. CASE UNCHANGED allVars
  BY <1>4 DEF allVars, vars, turnVars, TurnInv, JobsInv
<1> QED BY <1>1, <1>2, <1>3, <1>4 DEF NextTurn

(* In every reachable state each turn is at a stage of its loop.           *)
LEMMA TurnsAreStaged == TurnSpec => []TurnInv
  BY TurnInit, TurnStep, TurnsLimiterSafe, PTL DEF TurnSpec

(* A turn that is marked ok has written everything the server has for it,  *)
(* except what it passed over (a period whose request failed, what an      *)
(* answer of another type cut off): no other page, period, table or half   *)
(* of a chunk is left out, whatever the sizes are, and nothing is added.   *)
THEOREM OkTurnsWhole == TurnSpec => []OkMeansWhole
<1>1. TurnInv => OkMeansWhole
  <2> SUFFICES ASSUME TurnInv, NEW t \in Thread, mark[t] = "ok"
               PROVE  /\ written[t] \subseteq Wanted(job[t])
                      /\ Wanted(job[t]) \ missed[t] \subseteq written[t]
    BY DEF OkMeansWhole
  <2>1. Stage(job[t], asks[t], got[t], written[t], missed[t], mark[t])
    BY DEF TurnInv
  <2> QED BY <2>1 DEF Stage, Complete
<1> QED BY <1>1, TurnsAreStaged, PTL

(* In the middle of a turn, after it and after an exception, each table    *)
(* has all of its rows that were not passed over, or none.                 *)
THEOREM TablesWhole == TurnSpec => []AllOrNothing
<1>1. TurnInv => AllOrNothing
  <2> SUFFICES ASSUME TurnInv, NEW t \in Thread, NEW k \in 1..Tables
               PROVE  \/ {x \in written[t] : x[1] = k} = {}
                      \/ {x \in Wanted(job[t]) \ missed[t] : x[1] = k}
                           \subseteq {x \in written[t] : x[1] = k}
    BY DEF AllOrNothing
  <2> DEFINE j == job[t]
             w == written[t]
             ms == missed[t]
             all == Wanted(j) \ ms
  <2>1. j \in Job /\ Stage(j, asks[t], got[t], w, ms, mark[t])
    BY DEF TurnInv, JobsInv
  <2>2. Part(j, w, ms)
    BY <2>1, StageIsPart
  <2> HIDE DEF j, w, ms
  <2>3. ASSUME w = {} \/ all \subseteq w
        PROVE  \/ {x \in w : x[1] = k} = {}
               \/ {x \in all : x[1] = k} \subseteq {x \in w : x[1] = k}
    BY <2>3
  <2>4. ASSUME j.loop \in Pagers, ms = {}, NEW m \in 0..NumTables(j),
               w = (1..m) \X (1..j.size)
        PROVE  \/ {x \in w : x[1] = k} = {}
               \/ {x \in all : x[1] = k} \subseteq {x \in w : x[1] = k}
    <3>1. all = (1..NumTables(j)) \X (1..j.size) /\ NumTables(j) \in Nat
      BY <2>1, <2>4, WantedIs
    <3>2. CASE k <= m
      <4>1. k \in 1..m
        BY <3>1, <3>2
      <4>2. \A x : x \in all /\ x[1] = k => x \in w
        BY <3>1, <4>1, <2>4
      <4> QED BY <4>2
    <3>3. CASE ~ (k <= m)
      <4>1. k \notin 1..m
        BY <3>3
      <4>2. {x \in w : x[1] = k} = {}
        BY <4>1, <2>4
      <4> QED BY <4>2
    <3> QED BY <3>2, <3>3
  <2>5. \/ {x \in w : x[1] = k} = {}
        \/ {x \in all : x[1] = k} \subseteq {x \in w : x[1] = k}
    BY <2>2, <2>3, <2>4 DEF Part, Complete
  <2> QED BY <2>5 DEF j, w, ms
<1> QED BY <1>1, TurnsAreStaged, PTL
=============================================================================
