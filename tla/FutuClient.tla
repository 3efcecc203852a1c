----------------------------- MODULE FutuClient -----------------------------
(***************************************************************************)
(* The Futu client (apis/futu/client.py) as the threads of run_streams     *)
(* share it: one context, opened by whoever needs it first; one rate       *)
(* limiter for each API method (core/http_utils.py); and the retry loop of *)
(* a call (core/retry_utils.py).                                           *)
(*                                                                         *)
(* Time is discrete.  What a limiter remembers is kept as the time since   *)
(* its last permit, up to the limiter's interval, and a sleeping thread as *)
(* the time it still has to sleep; both change with Tick.                  *)
(***************************************************************************)
EXTENDS Naturals, FiniteSets

CONSTANTS
  Thread,       \* the worker threads of run_streams
  Method,       \* the API methods they call
  Delay,        \* FUTU_LIMIT_INTERVALS: the interval of each method
  RetryCount,   \* FUTU_RETRY_COUNT
  Backoff,      \* the sleep after each failed attempt: FUTU_RETRY_DELAY * 2^attempt
  NoThread      \* nobody

ASSUME DelayAssumption == Delay \in [Method -> Nat]
ASSUME RetryAssumption == RetryCount \in Nat \ {0} /\ Backoff \in [0..RetryCount - 1 -> Nat]
ASSUME NoThreadAssumption == NoThread \notin Thread

VARIABLES
  pc,         \* where a thread is in FutuClient.call
  method,     \* the method it calls
  attempt,    \* the number of failed attempts of its call
  pause,      \* how long it still sleeps
  opened,     \* how many contexts were opened (up to 2); self._ctx is set
              \* with the first one, and nobody calls close()
  lock,       \* who holds the lock of a method's limiter
  since       \* the time since the limiter's last permit, up to Delay

vars == <<pc, method, attempt, pause, opened, lock, since>>

Place == {"idle", "ensure", "open", "wait", "doze", "send", "backoff"}

TypeOK ==
  /\ pc        \in [Thread -> Place]
  /\ method    \in [Thread -> Method]
  /\ attempt   \in [Thread -> 0..RetryCount - 1]
  /\ pause     \in [Thread -> Nat]
  /\ opened    \in 0..2
  /\ lock      \in [Method -> Thread \cup {NoThread}]
  /\ since     \in [Method -> Nat]

(* _last_call is 0.0 in a new limiter: the first caller does not wait.     *)
Init ==
  /\ pc = [t \in Thread |-> "idle"]
  /\ method \in [Thread -> Method]
  /\ attempt = [t \in Thread |-> 0]
  /\ pause = [t \in Thread |-> 0]
  /\ opened = 0
  /\ lock = [m \in Method |-> NoThread]
  /\ since = Delay

Goto(t, place) == pc' = [pc EXCEPT ![t] = place]

limiterVars == <<lock, since>>
-----------------------------------------------------------------------------
Call(t, m) ==
  /\ pc[t] = "idle"
  /\ method' = [method EXCEPT ![t] = m]
  /\ attempt' = [attempt EXCEPT ![t] = 0]
  /\ Goto(t, "ensure")
  /\ UNCHANGED <<pause, opened, limiterVars>>

(* _ensure_ctx: "if self._ctx is None", read without a lock.               *)
EnsureCtx(t) ==
  /\ pc[t] = "ensure"
  /\ Goto(t, IF opened > 0 THEN "wait" ELSE "open")
  /\ UNCHANGED <<method, attempt, pause, opened, limiterVars>>

(* OpenD is there: a context is opened and becomes self._ctx.              *)
OpenCtx(t) ==
  /\ pc[t] = "open"
  /\ opened' = IF opened < 2 THEN opened + 1 ELSE opened
  /\ Goto(t, "wait")
  /\ UNCHANGED <<method, attempt, pause, limiterVars>>

(* _check_opend raises; call() does not retry that.                        *)
OpenFails(t) ==
  /\ pc[t] = "open"
  /\ Goto(t, "idle")
  /\ UNCHANGED <<method, attempt, pause, opened, limiterVars>>

\* Mutation of Acquire: the limiter has no lock.
MutAcquire(t) ==
  /\ pc[t] = "wait"
  /\ LET m == method[t]
     IN  IF since[m] < Delay[m]
         THEN /\ pause' = [pause EXCEPT ![t] = Delay[m] - since[m]]
              /\ Goto(t, "doze")
              /\ UNCHANGED since
         ELSE /\ since' = [since EXCEPT ![m] = 0]
              /\ Goto(t, "send")
              /\ UNCHANGED pause
  /\ UNCHANGED <<method, attempt, opened, lock>>

(* RateLimiter.wait takes the lock.  Either the interval has passed, and   *)
(* the permit is given, or the thread sleeps for the rest, in the lock.    *)
Acquire(t) ==
  /\ pc[t] = "wait"
  /\ lock[method[t]] = NoThread
  /\ LET m == method[t]
     IN  IF since[m] < Delay[m]
         THEN /\ pause' = [pause EXCEPT ![t] = Delay[m] - since[m]]
              /\ lock' = [lock EXCEPT ![m] = t]
              /\ Goto(t, "doze")
              /\ UNCHANGED since
         ELSE /\ since' = [since EXCEPT ![m] = 0]
              /\ Goto(t, "send")
              /\ UNCHANGED <<pause, lock>>
  /\ UNCHANGED <<method, attempt, opened>>

\* Mutation of Permit: _last_call keeps the time before the sleep.
MutPermit(t) ==
  /\ pc[t] = "doze" /\ pause[t] = 0
  /\ lock' = [lock EXCEPT ![method[t]] = NoThread]
  /\ Goto(t, "send")
  /\ UNCHANGED <<method, attempt, pause, opened, since>>

(* The sleep is over: _last_call is set, the lock released.                *)
Permit(t) ==
  /\ pc[t] = "doze" /\ pause[t] = 0
  /\ since' = [since EXCEPT ![method[t]] = 0]
  /\ lock' = [lock EXCEPT ![method[t]] = NoThread]
  /\ Goto(t, "send")
  /\ UNCHANGED <<method, attempt, pause, opened>>

(* ret is RET_OK, or the error is a permanent one: the call is over.       *)
Answer(t) ==
  /\ pc[t] = "send"
  /\ Goto(t, "idle")
  /\ UNCHANGED <<method, attempt, pause, opened, limiterVars>>

(* Any other error: back off and try again, or give up after RetryCount    *)
(* attempts.                                                               *)
Refuse(t) ==
  /\ pc[t] = "send"
  /\ IF attempt[t] + 1 < RetryCount
     THEN /\ attempt' = [attempt EXCEPT ![t] = @ + 1]
          /\ pause' = [pause EXCEPT ![t] = Backoff[attempt[t]]]
          /\ Goto(t, "backoff")
     ELSE /\ Goto(t, "idle")
          /\ UNCHANGED <<attempt, pause>>
  /\ UNCHANGED <<method, opened, limiterVars>>

Retry(t) ==
  /\ pc[t] = "backoff" /\ pause[t] = 0
  /\ Goto(t, "wait")
  /\ UNCHANGED <<method, attempt, pause, opened, limiterVars>>

(* Time passes.  A thread may also wake up late, or be slow anywhere.      *)
Tick ==
  /\ pause' = [t \in Thread |-> IF pause[t] = 0 THEN 0 ELSE pause[t] - 1]
  /\ since' = [m \in Method |->
                 IF since[m] < Delay[m] THEN since[m] + 1 ELSE since[m]]
  /\ UNCHANGED <<pc, method, attempt, opened, lock>>

Steps(t) ==
  \/ EnsureCtx(t) \/ OpenCtx(t) \/ OpenFails(t)
  \/ Acquire(t) \/ Permit(t)
  \/ Answer(t) \/ Refuse(t) \/ Retry(t)

Next ==
  \/ \E t \in Thread : Steps(t) \/ \E m \in Method : Call(t, m)
  \/ Tick

Spec == Init /\ [][Next]_vars

(* Threads and clock run; a lock that is free again and again is given to  *)
(* each thread that waits for it some time.                                *)
Fairness ==
  /\ WF_vars(Tick)
  /\ \A t \in Thread : WF_vars(Steps(t)) /\ SF_vars(Acquire(t))

FairSpec == Spec /\ Fairness
-----------------------------------------------------------------------------
(***************************************************************************)
(* Properties.                                                             *)
(***************************************************************************)

(* Two permits of one method are at least its interval apart, whichever    *)
(* threads ask for them and however long they sleep or retry: a request    *)
(* goes out only when the interval has passed, it alone restarts the       *)
(* limiter's clock, and it always does.                                    *)
PermitsSpaced ==
  [][/\ \A t \in Thread : pc[t] # "send" /\ pc'[t] = "send" =>
          since[method[t]] >= Delay[method[t]] /\ since'[method[t]] = 0
     /\ \A m \in Method : since'[m] < since[m] => since[m] >= Delay[m]]_vars

(* Why: the thread that sleeps in the limiter's lock is alone with it and  *)
(* sleeps for no less than what is missing.                                *)
SleeperHoldsLock ==
  \A t \in Thread : pc[t] = "doze" => lock[method[t]] = t

SleepLongEnough ==
  \A t \in Thread :
    pc[t] = "doze" => since[method[t]] + pause[t] >= Delay[method[t]]

LimiterInv == TypeOK /\ SleeperHoldsLock /\ SleepLongEnough

(* A call comes to an end: it returns or raises, also when every attempt   *)
(* is refused and other threads keep asking for the same limiter.          *)
EveryCallEnds ==
  \A t \in Thread : pc[t] # "idle" ~> pc[t] = "idle"

=============================================================================
