------------------------------ MODULE FutuTurn ------------------------------
(***************************************************************************)
(* The turns of the Futu streams, on top of the client they share (module  *)
(* FutuClient): what ticker_stream and sync_shares do for one ticker or    *)
(* one batch.  A turn makes requests through FutuClient.call, one after    *)
(* the other, until its loop says that nothing is left to ask for; it      *)
(* upserts what it got, and marks the ticker.                              *)
(*                                                                         *)
(*   single    one request (most backfill and snapshot functions)          *)
(*   size      pages, until one is not full (snapshot_short_interest and   *)
(*             snapshot_short_volume)                                      *)
(*   key       pages, until next_key is "-1" (paginate_call)               *)
(*   rating    the same in snapshot_rating, which only reads dicts         *)
(*   tables    paginate_call and an upsert for each statement table        *)
(*             (fin_sync_one)                                              *)
(*   periods   a request that lists the periods, then one for each of the  *)
(*             recent ones; their errors are swallowed (backfill_revenue)  *)
(*   batch     all tickers in chunks; a chunk with an unknown ticker is    *)
(*             halved until that one is alone (snapshot_shares)            *)
(*                                                                         *)
(* The items the server has for a turn are numbered from 1.  An answer may *)
(* also be of a type that the loop does not expect.  paginate_call raises  *)
(* then; the others take it as empty, and the turn goes on to its ok mark. *)
(***************************************************************************)
EXTENDS FutuClient, Sequences, FiniteSetsExt

CONSTANTS
  Jobs,     \* the turns each thread may take
  Page,     \* PAGE_NUM, and SNAPSHOT_BATCH for the chunks of a batch
  Recent,   \* RECENT_PERIODS
  Tables    \* the number of STATEMENT_TABLES

(* A turn: its loop and method, and what the server has for it: a list, in *)
(* dicts that carry a next_key, or in plain lists (a third value, which    *)
(* FutuClient.call drops, may have carried it); and the tickers of a batch *)
(* that it does not know.                                                  *)
Job == [loop : {"single", "size", "key", "rating", "tables", "periods", "batch"},
        method : Method, shape : {"dict", "list"},
        size : Nat, unknown : SUBSET Nat]

ASSUME JobAssumption ==
  /\ \A t \in Thread : Jobs[t] \subseteq Job
  /\ Page \in Nat \ {0} /\ Recent \in Nat /\ Tables \in Nat \ {0}

VARIABLES
  job,      \* the turn of a thread, or its last one
  asks,     \* the requests it still has to make; <<>> when the turn is over
  got,      \* the items it has got so far, with their table
  written,  \* those it has upserted
  missed,   \* those of requests that failed or brought another type, where
            \* the loop passes over that (a history variable)
  mark      \* how the turn was marked in sync_log

turnVars == <<job, asks, got, written, missed, mark>>
allVars  == <<vars, turnVars>>

(* A request [table, from, to] is for a page of a table (from is the       *)
(* next_key: the number of the page's first item, or EndKey for "-1"), for *)
(* a period, or for the tickers from .. to of a batch.                     *)
EndKey == 0

InitTurn ==
  /\ Init
  /\ job \in {f \in [Thread -> UNION {Jobs[t] : t \in Thread}] :
                \A t \in Thread : f[t] \in Jobs[t]}
  /\ asks = [t \in Thread |-> <<>>]
  /\ got = [t \in Thread |-> {}]
  /\ written = [t \in Thread |-> {}]
  /\ missed = [t \in Thread |-> {}]
  /\ mark = [t \in Thread |-> "none"]

InTurn(t) == asks[t] # <<>>
Asked(t)  == Head(asks[t])
-----------------------------------------------------------------------------
(***************************************************************************)
(* The server.                                                             *)
(***************************************************************************)

(* The page at a next_key.  Asked for what follows the end, the server     *)
(* may have nothing or begin again.                                        *)
PagesAt(j, from) ==
  IF from = EndKey THEN {{}, (1..j.size) \cap (1..Page)}
  ELSE {(from..from + Page - 1) \cap (1..j.size)}

KeyAfter(j, items) ==
  IF items = {} \/ Max(items) = j.size THEN EndKey ELSE Max(items) + 1
-----------------------------------------------------------------------------
(***************************************************************************)
(* The turn.                                                               *)
(***************************************************************************)
Chunks(n) ==
  [c \in 1..(n + Page - 1) \div Page |->
     [table |-> 1, from |-> (c - 1) * Page + 1, to |-> Min({c * Page, n})]]

FirstAsks(j) ==
  CASE j.loop = "batch"  -> Chunks(j.size)
    [] j.loop = "tables" -> [k \in 1..Tables |-> [table |-> k, from |-> 1, to |-> 0]]
    [] OTHER             -> <<[table |-> 1, from |-> 1, to |-> 0]>>

(* The stream comes to its next ticker.                                    *)
Begin(t, j) ==
  /\ ~ InTurn(t)
  /\ job' = [job EXCEPT ![t] = j]
  /\ asks' = [asks EXCEPT ![t] = FirstAsks(j)]
  /\ got' = [got EXCEPT ![t] = {}]
  /\ written' = [written EXCEPT ![t] = {}]
  /\ missed' = [missed EXCEPT ![t] = {}]
  /\ mark' = [mark EXCEPT ![t] = "none"]
  /\ UNCHANGED vars

Ask(t) == InTurn(t) /\ Call(t, job[t].method) /\ UNCHANGED turnVars

\* Mutation of Goes: every page is upserted as it comes.
MutGoes(t, items, follow) ==
  LET r    == Asked(t)
      rest == follow \o Tail(asks[t])
      all  == got[t] \cup ({r.table} \X items)
  IN  /\ asks' = [asks EXCEPT ![t] = rest]
      /\ got' = [got EXCEPT ![t] = IF rest = <<>> THEN {} ELSE all]
      /\ written' = [written EXCEPT ![t] = all]
      /\ mark' = [mark EXCEPT ![t] = IF rest = <<>> THEN "ok" ELSE @]
      /\ UNCHANGED <<job, missed>>

(* Items are taken and some requests follow.  With the last request of a   *)
(* table its rows are upserted, with the last one of all the turn is       *)
(* marked ok.                                                              *)
Goes(t, items, follow) ==
  LET r    == Asked(t)
      rest == follow \o Tail(asks[t])
      all  == got[t] \cup ({r.table} \X items)
  IN  /\ asks' = [asks EXCEPT ![t] = rest]
      /\ got' = [got EXCEPT ![t] = IF rest = <<>> THEN {} ELSE all]
      /\ written' = [written EXCEPT ![t] =
                       IF rest # <<>> /\ Head(rest).table = r.table THEN @ ELSE all]
      /\ mark' = [mark EXCEPT ![t] = IF rest = <<>> THEN "ok" ELSE @]
      /\ UNCHANGED <<job, missed>>

(* An exception leaves the turn: what was not upserted is dropped.         *)
Leaves(t, how) ==
  /\ asks' = [asks EXCEPT ![t] = <<>>]
  /\ got' = [got EXCEPT ![t] = {}]
  /\ mark' = [mark EXCEPT ![t] = how]
  /\ UNCHANGED <<job, written, missed>>

Whole(t) ==
  /\ job[t].loop = "single" /\ Answer(t)
  /\ Goes(t, 1..job[t].size, <<>>)

(* "if not items or len(items) < PAGE_NUM: break"; a list has no next_key, *)
(* and the next request is the first one again.                            *)
PageBySize(t) ==
  /\ job[t].loop = "size" /\ Answer(t)
  /\ \E items \in PagesAt(job[t], Asked(t).from) :
       Goes(t, items,
            IF Cardinality(items) < Page THEN <<>>
            ELSE <<[Asked(t) EXCEPT !.from =
                      IF job[t].shape = "dict" THEN KeyAfter(job[t], items) ELSE 1]>>)

\* Mutation of PageByKey: the loop goes on until a page is empty.
MutPageByKey(t) ==
  /\ job[t].loop \in {"key", "rating", "tables"} /\ job[t].shape = "dict" /\ Answer(t)
  /\ \E items \in PagesAt(job[t], Asked(t).from) :
       Goes(t, items,
            IF items = {} THEN <<>>
            ELSE <<[Asked(t) EXCEPT !.from = KeyAfter(job[t], items)]>>)

PageByKey(t) ==
  /\ job[t].loop \in {"key", "rating", "tables"} /\ job[t].shape = "dict" /\ Answer(t)
  /\ \E items \in PagesAt(job[t], Asked(t).from) :
       Goes(t, items,
            IF items = {} \/ KeyAfter(job[t], items) = EndKey THEN <<>>
            ELSE <<[Asked(t) EXCEPT !.from = KeyAfter(job[t], items)]>>)

(* paginate_call takes a list for all there is, and raises a TypeError for *)
(* an answer that is neither a list nor a dict.                            *)
PlainList(t) ==
  /\ job[t].loop \in {"key", "tables"} /\ job[t].shape = "list" /\ Answer(t)
  /\ Goes(t, 1..job[t].size, <<>>)

NotPages(t) ==
  /\ job[t].loop \in {"key", "tables"} /\ Answer(t)
  /\ Leaves(t, "error")

(* The first answer lists the periods.                                     *)
Period(t) ==
  /\ job[t].loop = "periods" /\ Answer(t)
  /\ Goes(t, {Asked(t).from} \cap (1..job[t].size),
          IF Asked(t).from > 1 THEN <<>>
          ELSE [i \in (1..Recent) \cap (1..job[t].size - 1) |->
                  [table |-> 1, from |-> i + 1, to |-> 0]])

Chunk(t) ==
  /\ job[t].loop = "batch" /\ Answer(t)
  /\ LET codes == Asked(t).from..Asked(t).to
     IN  codes \cap job[t].unknown = {} /\ Goes(t, codes, <<>>)

\* Mutation of Halves: the middle one is in neither half.
MutHalves(r) ==
  LET mid == (r.to - r.from + 1) \div 2
  IN  <<[r EXCEPT !.to = r.from + mid - 1], [r EXCEPT !.from = r.from + mid + 1]>>

Halves(r) ==
  LET mid == (r.to - r.from + 1) \div 2
  IN  <<[r EXCEPT !.to = r.from + mid - 1], [r EXCEPT !.from = r.from + mid]>>

(* The server refuses a chunk for the unknown ticker in it.                *)
Bisect(t) ==
  /\ job[t].loop = "batch" /\ Answer(t)
  /\ (Asked(t).from..Asked(t).to) \cap job[t].unknown # {}
  /\ Goes(t, {}, IF Asked(t).from = Asked(t).to THEN <<>> ELSE Halves(Asked(t)))

(* What a request would have brought that is passed over: a period, the    *)
(* tickers of a chunk, or the page at a cursor and all that follows it.    *)
LeftOut(j, r) ==
  {r.table} \X
    (IF j.loop = "batch" THEN r.from..r.to
     ELSE IF j.loop = "periods" /\ r.from > 1 THEN {r.from}
     ELSE IF r.from = EndKey THEN {} ELSE r.from..j.size)

(* The loop goes on without the answer, or ends and stores what it has.    *)
PassesOver(t) ==
  LET rest == Tail(asks[t])
  IN  /\ missed' = [missed EXCEPT ![t] = @ \cup LeftOut(job[t], Asked(t))]
      /\ asks' = [asks EXCEPT ![t] = rest]
      /\ written' = [written EXCEPT ![t] = IF rest = <<>> THEN got[t] ELSE @]
      /\ got' = [got EXCEPT ![t] = IF rest = <<>> THEN {} ELSE @]
      /\ mark' = [mark EXCEPT ![t] = IF rest = <<>> THEN "ok" ELSE @]
      /\ UNCHANGED job

(* An answer that is not a dict (a list, a table with rows) where the loop *)
(* reads one counts as empty: a single request or the list of the periods  *)
(* has brought nothing, the pages end, a period or a chunk is left out.    *)
(* Nobody is told, and the mark is ok.                                     *)
Unexpected(t) ==
  /\ job[t].loop \notin {"key", "tables"} /\ Answer(t)
  /\ PassesOver(t)

LaterPeriod(t) == job[t].loop = "periods" /\ Asked(t).from > 1

(* The request for a period fails; it is left out, with a warning.         *)
Swallow(t) == LaterPeriod(t) /\ PassesOver(t)

(* A permanent error: the ticker is not supported.                         *)
Unsupported(t) ==
  /\ Answer(t) /\ job[t].loop # "batch"
  /\ \/ Swallow(t)
     \/ ~ LaterPeriod(t) /\ Leaves(t, "skip")

(* call() raises.  ticker_stream marks the error; from sync_shares it goes *)
(* on to the caller, without a mark.                                       *)
Raises(t) ==
  /\ Refuse(t) \/ OpenFails(t)
  /\ pc'[t] = "idle"
  /\ \/ Swallow(t)
     \/ /\ ~ LaterPeriod(t)
        /\ Leaves(t, IF job[t].loop = "batch" THEN "raised" ELSE "error")

(* The other steps of a call.                                              *)
Within(t) ==
  /\ \/ EnsureCtx(t) \/ OpenCtx(t) \/ Acquire(t) \/ Permit(t) \/ Retry(t)
     \/ Refuse(t) /\ pc'[t] # "idle"
  /\ UNCHANGED turnVars

Proceeds(t) ==
  \/ Ask(t) \/ Within(t)
  \/ Whole(t) \/ PageBySize(t) \/ PageByKey(t) \/ PlainList(t) \/ NotPages(t)
  \/ Period(t) \/ Chunk(t) \/ Bisect(t)
  \/ Unexpected(t) \/ Unsupported(t) \/ Raises(t)

NextTurn ==
  \/ \E t \in Thread : Proceeds(t) \/ \E j \in Jobs[t] : Begin(t, j)
  \/ Tick /\ UNCHANGED turnVars

(* As in FutuClient; and a turn goes on when its call has returned.        *)
TurnSpec ==
  /\ InitTurn /\ [][NextTurn]_allVars
  /\ WF_allVars(Tick /\ UNCHANGED turnVars)
  /\ \A t \in Thread : WF_allVars(Proceeds(t)) /\ SF_allVars(Acquire(t) /\ Within(t))
-----------------------------------------------------------------------------
(***************************************************************************)
(* Properties.                                                             *)
(***************************************************************************)

(* What a turn should write: everything the server has for it, within the  *)
(* recent periods and without the tickers nobody knows.                    *)
Wanted(j) ==
  CASE j.loop = "tables"  -> (1..Tables) \X (1..j.size)
    [] j.loop = "periods" -> {1} \X ((1..j.size) \cap (1..1 + Recent))
    [] j.loop = "batch"   -> {1} \X ((1..j.size) \ j.unknown)
    [] OTHER              -> {1} \X (1..j.size)

(* A turn that is marked ok has upserted all of it, the last page and the  *)
(* half of a chunk beside the unknown ticker too, and nothing else.  Only  *)
(* what it passed over may be missing: a period whose request failed, and  *)
(* what an answer of an unexpected type cut off, which the mark hides.     *)
(* Neither takes with it what was got before or what other requests bring. *)
OkMeansWhole ==
  \A t \in Thread : mark[t] = "ok" =>
    /\ written[t] \subseteq Wanted(job[t])
    /\ Wanted(job[t]) \ missed[t] \subseteq written[t]

(* Whenever a turn ends, also by an exception after some pages, tables or  *)
(* chunks, the rows of a table are there all or not at all, what the turn  *)
(* passed over apart.  An exception leaves no part of a table behind; only *)
(* an answer of an unexpected type, taken as the end, does.                *)
AllOrNothing ==
  \A t \in Thread, k \in 1..Tables :
    LET rows(S) == {x \in S : x[1] = k}
    IN  \/ rows(written[t]) = {}
        \/ rows(Wanted(job[t]) \ missed[t]) \subseteq rows(written[t])

(* The loop by size cannot end when the last page is full: in lists, when  *)
(* there is a full page at all.                                            *)
StartsOver(j) ==
  /\ j.loop = "size"
  /\ IF j.shape = "list" THEN j.size >= Page ELSE j.size > 0 /\ j.size % Page = 0

(* Every other turn ends, and every call in any of them, whatever fails on *)
(* the way, with another thread on the same limiter.                       *)
TurnEnds ==
  /\ EveryCallEnds
  /\ \A t \in Thread : InTurn(t) ~> ~ InTurn(t) \/ StartsOver(job[t])
=============================================================================
